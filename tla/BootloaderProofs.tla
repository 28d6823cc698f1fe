-------------------------- MODULE BootloaderProofs ---------------------------
(***************************************************************************)
(* FlashedIsImage, whatever is lost, damaged or late, and ErasedBeforeWritten *)
(* where no reply is late for the resync before flash(), for every size of   *)
(* image and external flash and any number of faults; and SurvivesOneFault.  *)
(*                                                                         *)
(* The protocol has no sequence numbers: a late ack may confirm the next     *)
(* command, and a chunk may be written that nobody acknowledged.  So the     *)
(* invariant (FlashInv) does not say that an ack is that of its command.  It *)
(* counts the bytes under way (Load): a phase ends with few left, and a      *)
(* field of six bytes that ends with an OK can then only be the answer to    *)
(* the command that asked for it (Answered).  What the verify confirms is    *)
(* therefore what the flash holds: a CRC of all of it, or the chunks read    *)
(* one by one behind a cursor that the rewind has reset (Reading).  An erase *)
(* that is over has been read to the last byte of its reply (ExtErase,       *)
(* Erase), unless a late ack ended it (Overtaken); what is then programmed   *)
(* fails, or is verified all the same.                                      *)
(*                                                                         *)
(* SurvivesOneFault has an invariant of its own (MishapInv): where at most   *)
(* one mishap has happened, and one that the session survives, the state is  *)
(* Calm.  Then every reply is the answer to the command that waits for it,   *)
(* but for the chunk that the mishap struck, and the memory holds the chunks *)
(* confirmed so far (Holding), unless the mishap damaged or repeated one     *)
(* (Dirty), which the verify then finds in the first attempt.                *)
(***************************************************************************)
EXTENDS Bootloader, SequenceTheorems, TLAPS

Phases == {"guard", "identify", "settle 1", "compare", "settle 2", "xerase",
           "xprogram", "xverify", "erase", "program", "verify", "reboot", "over"}
Early == {"guard", "identify", "settle 1", "compare", "settle 2"}

\* What may be sent before flash(), with replies of at most two bytes or a field.
Asking == {"GET_SYNC", "GET_DEVICE", "GET_VERSION", "GET_CRC"}
\* Commands that are answered by an ack at most.
Short == {"GET_SYNC", "CHIP_ERASE", "PROG_MULTI", "EXTF_PROG_MULTI", "FILLER",
          "CHIP_VERIFY"}
Fields == {"GET_CRC", "EXTF_GET_CRC", "READ_MULTI"}
Long == Fields \cup {"EXTF_ERASE"}
Ops == Short \cup Long \cup {"GET_DEVICE", "GET_VERSION", "REBOOT"}

Exchange == {"send", "head", "status"}
Fetch == Exchange \cup {"field"}
Steps ==
  {"none", "sync", "info", "version", "drain", "resync", "crc", "erase",
   "frame", "filler", "resend", "rewind", "read", "reboot"}
Stages == ReadStages \cup {"none", "send"}

Names == {"INSYNC", "OK", "INVALID", "FAILED", "DATA", "TEXT", "50%", "90%"}
Bytes == [t : Names, v : Seq(Nat)]
Writes == [op : Ops, data : Nat]

TypeInv ==
  /\ client \in [phase : Phases, step : Steps, stage : Stages, chunk : Nat \ {0},
                 attempt : {1, 2}, word : Seq(Bytes)]
  /\ result \in {"none", "refused", "skipped", "failed", "flashed"}
  /\ closed \in BOOLEAN
  /\ buf \in Seq(Bytes) /\ from \in Seq(Bytes) /\ to \in Seq(Writes)
  /\ board \in [mode : {"idle", "payload"}, armed : BOOLEAN, flash : Seq(Nat),
                ext : Seq(Nat), cursor : Nat]
  /\ setup \in [rev : 2..5, pairing : Pairings, old : Seq(Nat), ext : {0, ExtChunks}]

\* Where a session may be: the steps of a phase and the stages of a step.
Where ==
  /\ client.phase = "guard" => client.step = "none" /\ client.stage = "none"
  /\ client.phase = "over" => client.stage = "none"
  /\ client.phase = "identify" => client.step \in {"sync", "info", "version", "drain", "resync"}
  /\ client.phase \in {"settle 1", "settle 2"} => client.step \in {"drain", "resync"}
  /\ client.phase \in {"compare", "xverify"} => client.step = "crc"
  /\ client.phase \in {"xerase", "erase"} => client.step = "erase"
  /\ client.phase \in {"xprogram", "program"} =>
       client.step \in {"frame", "filler", "drain", "resync", "resend"}
  /\ client.phase = "verify" => client.step \in {"crc", "rewind", "read"}
  /\ client.phase = "reboot" => client.step = "reboot"
  /\ client.phase \notin {"guard", "over"} =>
       /\ client.step = "drain" => client.stage = "drain"
       /\ client.step \in {"sync", "resync", "frame", "resend", "rewind"} =>
            client.stage \in Exchange
       /\ client.step \in {"info", "crc", "read"} => client.stage \in Fetch
       /\ client.step = "version" =>
            client.stage \in Exchange \cup {"version", "rest", "refusal"}
       /\ client.step \in {"filler", "reboot"} => client.stage = "send"
       /\ client.phase = "xerase" =>
            client.stage \in Exchange \cup {"percent", "poll", "poll status"}
       /\ client.phase = "erase" => client.stage \in {"send", "poll", "poll status"}

\* The chunk that is written is one of the image, and there is one.
Within ==
  /\ client.phase = "program" => client.chunk <= Chunks
  /\ client.phase = "xprogram" => client.chunk <= setup.ext
  /\ client.phase = "xerase" => setup.ext > 0

\* A concatenation under a name of its own, so that the provers leave it whole.
Cat(s, t) == s \o t

Pipe == Cat(buf, from)
Sends(ops) == \A i \in 1..Len(to) : to[i].op \in ops
NoErase == \A i \in 1..Len(to) : to[i].op # "CHIP_ERASE"
Latest(op) == to # <<>> => to[Len(to)].op = op

\* What is under way, in bytes: a command counts for the ack it may be answered
\* by; a filler only where a frame was cut off.
Load ==
  Len(buf) + Len(from) + 2 * Len(to)
    + (IF board.mode = "payload" THEN 2 ELSE 0)
    - (IF Sends(Ops \ {"FILLER"}) THEN 0 ELSE 2)

\* The bytes of its reply that a step is still to read.
Due ==
  IF client.stage = "field" THEN 6
  ELSE IF client.stage \in {"head", "poll"} THEN 2
  ELSE IF client.stage \in {"status", "poll status"} THEN 1
  ELSE 0

\* What may still be under way when flash() begins.
Slack == IF "late resync" \in Faults THEN 2 ELSE 0

Cut == closed => from = <<>> /\ to = <<>>

OldBytes(s) == \A k \in 1..Len(s) : s[k].v \in {<<>>, setup.old}
Untouched ==
  client.phase \in Early =>
    /\ board.flash = setup.old /\ board.mode = "idle" /\ Sends(Asking)
    /\ OldBytes(buf) /\ OldBytes(from) /\ OldBytes(client.word)

Settled ==
  client.phase = "settle 2" /\ client.step = "resync" =>
    CASE client.stage = "send" -> to = <<>> /\ Pipe = <<>>
      [] client.stage = "head" ->
           \/ Sends({"GET_SYNC"}) /\ Len(to) = 1 /\ Pipe = <<>>
           \/ to = <<>> /\ Pipe \in {Ack("OK"), <<Byte("INSYNC")>>, <<>>}
      [] OTHER -> to = <<>> /\ Pipe \in {<<Byte("OK")>>, <<>>}

\* The erase of the external flash ends with the last bytes of its reply.
ExtErase ==
  client.phase = "xerase" =>
    /\ board.mode = "idle"
    /\ \A i \in 1..(Len(to) - 1) : to[i].op = "GET_SYNC"
    /\ client.stage = "send" =>
         /\ Sends({"GET_SYNC"}) /\ Load <= Slack
         /\ \A k \in 1..Len(Pipe) : Pipe[k].t # "90%"
    /\ client.stage \in {"head", "status", "percent"} =>
         /\ Latest("EXTF_ERASE")
         /\ \A k \in 1..Len(Pipe) :
              Pipe[k].t = "90%" => to = <<>> /\ Len(Pipe) <= k + 2
    /\ client.stage \in {"poll", "poll status"} => to = <<>> /\ Len(Pipe) <= Due

Erase ==
  client.phase = "erase" =>
    board.mode = "idle" /\ Sends({"GET_SYNC", "CHIP_ERASE"}) /\ Load <= Slack + Due

Programming ==
  client.phase \in {"xprogram", "program"} =>
    /\ Sends(Short)
    /\ client.stage # "drain" => Load <= 4 + (IF client.step = "filler" THEN 2 ELSE Due)

\* A chip erase that is still under way, its end told by a late ack.
Overtaken ==
  client.phase \in {"xprogram", "program"} =>
    \/ NoErase
    \/ /\ client.phase = "program" /\ "late resync" \in Faults
       /\ board.mode = "idle" /\ Pipe = <<>>
       /\ \A i \in 1..Len(to) : (i = 1) = (to[i].op = "CHIP_ERASE")
       /\ \/ client.step = "frame" /\ client.stage = "send" /\ Len(to) = 1
          \/ client.step = "frame" /\ client.stage = "head" /\ Len(to) = 2
          \/ client.step = "filler" /\ Len(to) = 2
          \/ client.step = "drain" /\ Len(to) = 3 /\ to[3].op = "FILLER"
          \/ client.step = "resync" /\ client.stage = "send" /\ Len(to) = 3 /\ to[3].op = "FILLER"
          \/ client.step = "resync" /\ client.stage = "head" /\ Len(to) = 4 /\ to[3].op = "FILLER"

\* What a field tells.
Truth ==
  IF client.phase = "xverify" THEN Cells(board.ext, 1, setup.ext)
  ELSE IF client.step = "crc" THEN board.flash
  ELSE Cells(board.flash, client.chunk, client.chunk)

\* The command of a step that verifies.
Asked ==
  IF client.step = "rewind" THEN "CHIP_VERIFY"
  ELSE IF client.step = "read" THEN "READ_MULTI"
  ELSE IF client.phase = "xverify" THEN "EXTF_GET_CRC"
  ELSE "GET_CRC"

Verifying ==
  client.phase \in {"xverify", "verify"} =>
    /\ NoErase
    /\ \A i \in 1..(Len(to) - 1) : to[i].op \in Short
    /\ client.stage # "send" => Latest(Asked)
    /\ client.stage = "send" \/ client.step = "rewind" => Sends(Short) /\ Load <= 4 + Due
    /\ client.stage # "send" /\ client.step # "rewind" /\ to # <<>> => Load <= Due

\* A field that is confirmed is that of the command it was asked with: what
\* else is under way is too short to make up for it.
Answered ==
  (/\ client.phase \in {"xverify", "verify"}
   /\ client.step # "rewind" /\ client.stage # "send"
   /\ to = <<>> /\ Len(Pipe) >= Due /\ Pipe[Due].t = "OK") =>
      /\ Len(Pipe) = Due /\ board.mode = "idle"
      /\ (IF client.stage = "field" THEN SubSeq(Pipe, 1, 4) ELSE client.word)
           = Field(Truth)

\* The cell that a READ_MULTI is answered with is that of the chunk.
Reading ==
  client.phase = "verify" /\ client.step \in {"rewind", "read"} =>
    /\ client.step = "read" =>
         \A j \in 1..(client.chunk - 1) : Cells(board.flash, j, j) = <<j>>
    /\ CASE client.step = "rewind" ->
              /\ client.chunk = 1
              /\ (client.stage # "send" /\ to = <<>> /\ ~closed) =>
                    board.mode = "payload" \/ board.cursor = 0
         [] client.step = "read" /\ client.stage = "send" ->
              /\ to # <<>> => client.chunk = 1 /\ to[Len(to)].op = "CHIP_VERIFY"
              /\ to = <<>> /\ ~closed =>
                    board.mode = "payload" \/ board.cursor = client.chunk - 1
         [] OTHER ->
              /\ Len(to) >= 2 => client.chunk = 1 /\ to[Len(to) - 1].op = "CHIP_VERIFY"
              /\ Len(to) = 1 => board.mode = "payload" \/ board.cursor = client.chunk - 1
              /\ to = <<>> /\ ~closed =>
                    board.mode = "payload" \/ board.cursor = client.chunk

\* The external image is there before the chip is erased, and stays.
External ==
  client.phase \in {"erase", "program", "verify", "reboot"} =>
    /\ Holds(board.ext, ExtImage)
    /\ Sends(Ops \ {"EXTF_ERASE", "EXTF_PROG_MULTI"})

Ended ==
  /\ client.phase = "reboot" => to = <<>> /\ Holds(board.flash, Image)
  /\ client.phase # "over" => result = "none"
  /\ result = "skipped" => Sends(Asking) /\ Holds(board.flash, Image)
  /\ result = "flashed" =>
       /\ Sends({"REBOOT"})
       /\ Holds(board.flash, Image) /\ Holds(board.ext, ExtImage)

FlashInv ==
  /\ TypeInv /\ Where /\ Within /\ Cut /\ Untouched /\ Settled /\ ExtErase /\ Erase
  /\ Programming /\ Overtaken /\ Verifying /\ Answered /\ Reading /\ External /\ Ended

-----------------------------------------------------------------------------
(* The link. *)

\* The elements of a concatenation.
LEMMA Joined ==
  ASSUME NEW S, NEW s \in Seq(S), NEW t \in Seq(S)
  PROVE  Cat(s, t) \in Seq(S) /\ Len(Cat(s, t)) = Len(s) + Len(t)
BY ConcatProperties DEF Cat

\* An element of the second part of a concatenation.
LEMMA JoinedAfter ==
  ASSUME NEW S, NEW s \in Seq(S), NEW t \in Seq(S), NEW i \in Int, i >= 1, i <= Len(t)
  PROVE  Cat(s, t)[Len(s) + i] = t[i]
<1>1. \A k \in 1..Len(s) + Len(t) :
         Cat(s, t)[k] = IF k <= Len(s) THEN s[k] ELSE t[k - Len(s)]
  BY ConcatProperties DEF Cat
<1>2. Len(s) \in Nat /\ Len(t) \in Nat
  BY LenProperties
<1>3. Len(s) + i \in 1..Len(s) + Len(t) /\ ~(Len(s) + i <= Len(s)) /\ (Len(s) + i) - Len(s) = i
  BY <1>2
<1> QED BY <1>1, <1>3

\* An element of its first part.
LEMMA JoinedBefore ==
  ASSUME NEW S, NEW s \in Seq(S), NEW t \in Seq(S), NEW i \in Int, i >= 1, i <= Len(s)
  PROVE  Cat(s, t)[i] = s[i]
<1>1. \A k \in 1..Len(s) + Len(t) :
         Cat(s, t)[k] = IF k <= Len(s) THEN s[k] ELSE t[k - Len(s)]
  BY ConcatProperties DEF Cat
<1>2. Len(s) \in Nat /\ Len(t) \in Nat
  BY LenProperties
<1>3. i \in 1..Len(s) + Len(t)
  BY <1>2
<1> QED BY <1>1, <1>3

\* Where the bytes under way are.
LEMMA LinkType ==
  ASSUME TypeInv
  PROVE  /\ Len(buf) \in Nat /\ Len(from) \in Nat /\ Len(to) \in Nat
         /\ Pipe \in Seq(Bytes) /\ Len(Pipe) = Len(buf) + Len(from)
         /\ \A k \in 1..Len(buf) : Pipe[k] = buf[k]
         /\ \A k \in 1..Len(from) : Pipe[Len(buf) + k] = from[k]
         /\ \A k \in 1..Len(Pipe) : Pipe[k] \in Bytes
         /\ Pipe = <<>> <=> buf = <<>> /\ from = <<>>
         /\ to = <<>> <=> Len(to) = 0
         /\ buf = <<>> <=> Len(buf) = 0
         /\ from = <<>> <=> Len(from) = 0
         /\ Pipe = <<>> <=> Len(Pipe) = 0
         /\ \A i \in 1..Len(to) : to[i] \in Writes
<1>1. buf \in Seq(Bytes) /\ from \in Seq(Bytes) /\ to \in Seq(Writes)
  BY DEF TypeInv
<1>2. Pipe \in Seq(Bytes) /\ Len(Pipe) = Len(buf) + Len(from)
      /\ \A i \in 1..Len(buf) + Len(from) :
           Pipe[i] = IF i <= Len(buf) THEN buf[i] ELSE from[i - Len(buf)]
  BY <1>1, ConcatProperties DEF Pipe, Cat
<1>3. /\ Len(buf) \in Nat /\ Len(from) \in Nat /\ Len(to) \in Nat
      /\ to = <<>> <=> Len(to) = 0
      /\ buf = <<>> <=> Len(buf) = 0
      /\ from = <<>> <=> Len(from) = 0
  BY <1>1, EmptySeq, LenProperties
<1>4. Pipe = <<>> <=> Len(Pipe) = 0
  BY <1>2, EmptySeq
<1>5. \A k \in 1..Len(buf) : Pipe[k] = buf[k]
  BY <1>2, <1>3
<1>6. \A k \in 1..Len(from) : Pipe[Len(buf) + k] = from[k]
  BY <1>2, <1>3
<1>7. /\ \A k \in 1..Len(Pipe) : Pipe[k] \in Bytes
      /\ \A i \in 1..Len(to) : to[i] \in Writes
  BY <1>1, <1>2, ElementOfSeq
<1> QED BY <1>2, <1>3, <1>4, <1>5, <1>6, <1>7

\* What Load adds to the bytes and the commands.
LEMMA LoadIs ==
  ASSUME TypeInv
  PROVE  \E p, f \in {0, 2} :
           /\ Load = Len(Pipe) + 2 * Len(to) + p - f
           /\ p = 0 <=> board.mode = "idle"
           /\ f = 0 <=> Sends(Ops \ {"FILLER"})
           /\ to = <<>> => f = 0
<1> DEFINE p == IF board.mode = "payload" THEN 2 ELSE 0
           f == IF Sends(Ops \ {"FILLER"}) THEN 0 ELSE 2
<1>1. Load = Len(Pipe) + 2 * Len(to) + p - f
  BY LinkType DEF Load
<1>2. board.mode \in {"idle", "payload"}
  BY DEF TypeInv
<1>3. to = <<>> => Sends(Ops \ {"FILLER"})
  BY LinkType DEF Sends
<1>4. p \in {0, 2} /\ f \in {0, 2} /\ (p = 0 <=> board.mode = "idle")
      /\ (f = 0 <=> Sends(Ops \ {"FILLER"}))
  BY <1>2
<1> HIDE DEF p, f
<1> QED BY <1>1, <1>3, <1>4

\* What is under way, and what a command that is not a filler adds to it.
LEMMA LoadBounds ==
  ASSUME TypeInv
  PROVE  /\ Load \in Nat /\ Load >= Len(Pipe)
         /\ Len(to) >= 1 => Load >= Len(Pipe) + 2 * Len(to) - 2
         /\ Sends(Ops \ {"FILLER"}) => Load >= Len(Pipe) + 2 * Len(to)
         /\ Sends(Ops \ {"FILLER"}) /\ board.mode = "idle" => Load = Len(Pipe) + 2 * Len(to)
         /\ to = <<>> => Load <= Len(Pipe) + 2
<1>1. PICK p \in {0, 2}, f \in {0, 2} :
           /\ Load = Len(Pipe) + 2 * Len(to) + p - f
           /\ p = 0 <=> board.mode = "idle"
           /\ f = 0 <=> Sends(Ops \ {"FILLER"})
           /\ to = <<>> => f = 0
  BY LoadIs
<1>2. Len(Pipe) \in Nat /\ Len(to) \in Nat /\ (to = <<>> <=> Len(to) = 0)
  BY LinkType
<1> QED BY <1>1, <1>2

\* It is a number after a step, too.
LEMMA LoadNext ==
  ASSUME buf' \in Seq(Bytes), from' \in Seq(Bytes), to' \in Seq(Writes)
  PROVE  Load' \in Int /\ Slack \in {0, 2}
<1> DEFINE p == IF board'.mode = "payload" THEN 2 ELSE 0
           f == IF Sends(Ops \ {"FILLER"})' THEN 0 ELSE 2
<1>1. p \in Int /\ f \in Int
  OBVIOUS
<1>2. Len(buf') \in Nat /\ Len(from') \in Nat /\ Len(to') \in Nat
  BY LenProperties
<1>3. Load' = Len(buf') + Len(from') + 2 * Len(to') + p - f
  BY DEF Load
<1> HIDE DEF p, f
<1>4. Slack \in {0, 2}
  BY DEF Slack
<1> QED BY <1>1, <1>2, <1>3, <1>4

Rest(s, n) == SubSeq(s, n + 1, Len(s))

IsRest(r, s, n) ==
  Len(r) = Len(s) - n /\ \A i \in 1..(Len(s) - n) : r[i] = s[i + n]

\* What is left when the first n elements are taken.
LEMMA DropsFront ==
  ASSUME NEW S, NEW s \in Seq(S), NEW n \in Nat, n <= Len(s)
  PROVE  Rest(s, n) \in Seq(S) /\ IsRest(Rest(s, n), s, n)
<1>1. Len(s) \in Nat /\ \A i \in 1..Len(s) : s[i] \in S
  BY ElementOfSeq, LenProperties
<1>2. \A i \in (n + 1)..Len(s) : s[i] \in S
  BY <1>1
<1>3. /\ Rest(s, n) \in Seq(S)
      /\ Len(Rest(s, n)) = IF n + 1 <= Len(s) THEN Len(s) - (n + 1) + 1 ELSE 0
      /\ \A i \in 1..Len(s) - (n + 1) + 1 : Rest(s, n)[i] = s[n + 1 + i - 1]
  BY <1>1, <1>2, SubSeqProperties DEF Rest
<1>4. ASSUME NEW i \in 1..(Len(s) - n) PROVE Rest(s, n)[i] = s[i + n]
  BY <1>1, <1>3
<1> QED BY <1>1, <1>3, <1>4 DEF IsRest

\* What follows the elements that are left does not move among them.
LEMMA DropsBefore ==
  ASSUME NEW S, NEW s \in Seq(S), NEW r \in Seq(S), NEW t \in Seq(S),
         NEW n \in Nat, n <= Len(s), IsRest(r, s, n),
         NEW k \in 1..(Len(s) + Len(t) - n)
  PROVE  Cat(r, t)[k] = Cat(s, t)[k + n]
<1>1. Len(s) \in Nat /\ Len(t) \in Nat /\ Len(r) \in Nat
      /\ Len(r) = Len(s) - n /\ \A i \in 1..(Len(s) - n) : r[i] = s[i + n]
  BY LenProperties DEF IsRest
<1>2. \A i \in 1..Len(r) + Len(t) :
         Cat(r, t)[i] = IF i <= Len(r) THEN r[i] ELSE t[i - Len(r)]
  BY ConcatProperties DEF Cat
<1>3. \A i \in 1..Len(s) + Len(t) :
         Cat(s, t)[i] = IF i <= Len(s) THEN s[i] ELSE t[i - Len(s)]
  BY ConcatProperties DEF Cat
<1>4. k \in 1..Len(r) + Len(t) /\ k + n \in 1..Len(s) + Len(t) /\ k \in Int
  BY <1>1
<1>5. CASE k <= Len(r)
  BY <1>1, <1>2, <1>3, <1>4, <1>5
<1>6. CASE ~(k <= Len(r))
  BY <1>1, <1>2, <1>3, <1>4, <1>6
<1> QED BY <1>5, <1>6

Takes(n) ==
  /\ Len(buf) >= n /\ buf' = SubSeq(buf, n + 1, Len(buf))
  /\ UNCHANGED <<from, to, board>>

\* A client that reads n bytes takes them from the front.
LEMMA TakesBytes ==
  ASSUME TypeInv, NEW n \in 1..4, Takes(n)
  PROVE  /\ buf' \in Seq(Bytes) /\ IsRest(buf', buf, n)
         /\ Len(buf) \in Nat /\ Len(buf) >= n /\ Len(Pipe) >= n
         /\ Len(Pipe') = Len(Pipe) - n
         /\ \A k \in 1..Len(Pipe') : Pipe'[k] = Pipe[k + n]
         /\ Load' = Load - n
         /\ Head(buf) = Pipe[1] /\ Head(buf) \in Bytes
         /\ SubSeq(buf, 1, n) = SubSeq(Pipe, 1, n)
         /\ SubSeq(buf, 1, n) \in Seq(Bytes) /\ Len(SubSeq(buf, 1, n)) = n
         /\ \A i \in 1..n : SubSeq(buf, 1, n)[i] = buf[i]
<1>1. buf \in Seq(Bytes) /\ from \in Seq(Bytes) /\ Len(buf) \in Nat /\ Len(from) \in Nat
  BY LinkType DEF TypeInv
<1>2. n \in Nat /\ n <= Len(buf) /\ from' = from /\ to' = to /\ board' = board
  BY <1>1 DEF Takes
<1>3. /\ buf' \in Seq(Bytes) /\ Len(buf') = Len(buf) - n
      /\ IsRest(buf', buf, n)
  BY <1>1, <1>2, DropsFront DEF Takes, Rest, IsRest
<1>8. Len(Pipe') = Len(Pipe) - n
  <2>1. Pipe' = Cat(buf', from)
    BY <1>2 DEF Pipe
  <2>2. Len(Cat(buf', from)) = Len(buf') + Len(from)
    BY <1>1, <1>3, ConcatProperties DEF Cat
  <2> QED BY <1>1, <1>2, <1>3, <2>1, <2>2, LinkType
<1>9. ASSUME NEW k \in 1..Len(Pipe') PROVE Pipe'[k] = Pipe[k + n]
  BY <1>1, <1>2, <1>3, <1>8, LinkType, DropsBefore DEF Pipe
<1>4. Load' = Load - n
  <2> DEFINE p == IF board.mode = "payload" THEN 2 ELSE 0
             f == IF Sends(Ops \ {"FILLER"}) THEN 0 ELSE 2
  <2>1. Load = Len(buf) + Len(from) + 2 * Len(to) + p - f
    BY DEF Load
  <2>2. Load' = Len(buf') + Len(from) + 2 * Len(to) + p - f
    BY <1>2 DEF Load, Sends
  <2>3. p \in Int /\ f \in Int /\ Len(to) \in Nat
    BY LinkType
  <2> HIDE DEF p, f
  <2>4. Len(buf') + Len(from) + 2 * Len(to) + p - f = (Len(buf) + Len(from) + 2 * Len(to) + p - f) - n
    BY <1>1, <1>3, <2>3
  <2> QED BY <2>1, <2>2, <2>4
<1>5. \A i \in 1..Len(buf) : buf[i] \in Bytes /\ Pipe[i] = buf[i]
  BY <1>1, ElementOfSeq, LinkType
<1>6. Head(buf) = Pipe[1] /\ Head(buf) \in Bytes
  BY <1>1, <1>2, <1>5, EmptySeq
<1>7. /\ SubSeq(buf, 1, n) = SubSeq(Pipe, 1, n) /\ SubSeq(buf, 1, n) \in Seq(Bytes)
      /\ Len(SubSeq(buf, 1, n)) = n /\ \A i \in 1..n : SubSeq(buf, 1, n)[i] = buf[i]
  BY <1>1, <1>2, <1>5, SubSeqProperties, SeqEqual
<1>10. Len(Pipe) >= n
  BY <1>1, <1>2, LinkType
<1> QED BY <1>1, <1>2, <1>3, <1>4, <1>6, <1>7, <1>8, <1>9, <1>10

\* A command that is sent goes behind the others.
LEMMA Sent ==
  ASSUME TypeInv, NEW w \in Writes, to' = Append(to, w), buf' \in {<<>>, buf},
         UNCHANGED <<from, board>>
  PROVE  /\ to' \in Seq(Writes) /\ buf' \in Seq(Bytes)
         /\ Len(to') = Len(to) + 1 /\ to'[Len(to) + 1] = w /\ to' # <<>>
         /\ \A i \in 1..Len(to) : to'[i] = to[i]
         /\ Len(Pipe') \in Nat /\ Len(Pipe') <= Len(Pipe)
         /\ \A k \in 1..Len(Pipe') : \E j \in 1..Len(Pipe) : Pipe'[k] = Pipe[j]
         /\ Load' <= Load + 2
<1>1. buf \in Seq(Bytes) /\ from \in Seq(Bytes) /\ to \in Seq(Writes)
  BY DEF TypeInv
<1>2. /\ to' \in Seq(Writes) /\ Len(to') = Len(to) + 1 /\ to'[Len(to) + 1] = w
      /\ \A i \in 1..Len(to) : to'[i] = to[i]
  BY <1>1, AppendProperties
<1>3. buf' \in Seq(Bytes) /\ Len(to) \in Nat /\ Len(buf) \in Nat /\ Len(from) \in Nat
  BY <1>1, EmptySeq, LinkType
<1>4. buf' = buf \/ buf' = <<>>
  OBVIOUS
<1>5. Pipe' = Pipe \/ Pipe' = from
  BY <1>1, <1>4, ConcatEmptySeq DEF Pipe, Cat
<1>6. Len(Pipe') \in Nat /\ Len(Pipe') <= Len(Pipe)
  BY <1>3, <1>5, LinkType
<1>7. ASSUME NEW k \in 1..Len(Pipe') PROVE \E j \in 1..Len(Pipe) : Pipe'[k] = Pipe[j]
  <2>1. CASE Pipe' = Pipe
    BY <2>1
  <2>2. CASE Pipe' = from
    BY <1>3, <2>2, LinkType
  <2> QED BY <1>5, <2>1, <2>2
<1>8. Len(Pipe') = Len(buf') + Len(from)
  BY <1>1, <1>3, ConcatProperties DEF Pipe, Cat
<1>9. Load' <= Load + 2
  <2> DEFINE p == IF board.mode = "payload" THEN 2 ELSE 0
             f == IF Sends(Ops \ {"FILLER"}) THEN 0 ELSE 2
             g == IF Sends(Ops \ {"FILLER"})' THEN 0 ELSE 2
  <2>1. Load = Len(buf) + Len(from) + 2 * Len(to) + p - f
    BY DEF Load
  <2>2. Load' = Len(buf') + Len(from') + 2 * Len(to') + p - g
    BY DEF Load
  <2>3. p \in Int /\ f \in {0, 2} /\ g \in {0, 2}
    OBVIOUS
  <2>4. Sends(Ops \ {"FILLER"})' => Sends(Ops \ {"FILLER"})
    BY <1>2, <1>3 DEF Sends
  <2>5. f <= g
    BY <2>4
  <2> HIDE DEF p, f, g
  <2>6. Len(buf') <= Len(buf) /\ Len(buf') \in Nat /\ Len(from') = Len(from)
    BY <1>3, <1>4, EmptySeq, LenProperties
  <2> QED BY <1>2, <1>3, <2>1, <2>2, <2>3, <2>5, <2>6
<1>10. to' # <<>>
  BY <1>2, <1>3, EmptySeq
<1> QED BY <1>2, <1>3, <1>6, <1>7, <1>9, <1>10

-----------------------------------------------------------------------------
(* The bootloader. *)

Frames == {"PROG_MULTI", "EXTF_PROG_MULTI"}
VersionReply ==
  <<Byte("DATA"), Byte("TEXT"), Byte("TEXT"), Byte("TEXT"), Byte("TEXT")>> \o Ack("OK")
EraseReply == Ack("OK") \o <<Byte("50%"), Byte("90%")>> \o Ack("OK")
FieldReply(v) == Cat(Field(v), Ack("OK"))

\* What the bootloader makes of w, and its reply.
Answers(w, reply) ==
  \/ /\ board.mode = "payload" /\ w.op \in Frames \cup {"FILLER"}
     /\ reply = Ack("INVALID") /\ board' = [board EXCEPT !.mode = "idle"]
  \/ board.mode = "payload" /\ w.op \notin Frames \cup {"FILLER"} /\ reply = <<>> /\ board' = board
  \/ /\ board.mode = "idle"
     /\ \/ w.op = "GET_SYNC" /\ reply = Ack("OK") /\ board' = board
        \/ w.op = "GET_DEVICE" /\ reply = FieldReply(<<>>) /\ board' = [board EXCEPT !.armed = TRUE]
        \/ w.op = "GET_VERSION" /\ reply \in {Ack("INVALID"), VersionReply} /\ board' = board
        \/ w.op = "CHIP_VERIFY" /\ reply = Ack("OK") /\ board' = [board EXCEPT !.cursor = 0]
        \/ /\ w.op = "READ_MULTI" /\ board' = [board EXCEPT !.cursor = @ + 1]
           /\ reply = FieldReply(Cells(board.flash, board.cursor + 1, board.cursor + 1))
        \/ w.op \in {"FILLER", "REBOOT"} /\ reply = <<>> /\ board' = board
        \/ w.op = "CHIP_ERASE" /\ reply = Ack("INVALID") /\ board' = board
        \/ /\ w.op = "CHIP_ERASE" /\ reply \in {Ack("OK"), Ack("FAILED")}
           /\ board' = [board EXCEPT !.flash = <<>>]
        \/ w.op = "GET_CRC" /\ reply \in {FieldReply(board.flash), Ack("INVALID")} /\ board' = board
        \/ w.op = "EXTF_ERASE" /\ reply = EraseReply /\ board' = [board EXCEPT !.ext = <<>>]
        \/ /\ w.op = "EXTF_GET_CRC" /\ board' = board
           /\ reply = FieldReply(Cells(board.ext, 1, setup.ext))
        \/ /\ w.op \in Frames
           /\ \/ reply \in {Ack("INVALID"), Ack("FAILED")} /\ board' = board
              \/ reply = <<>> /\ board' = [board EXCEPT !.mode = "payload"]
              \/ reply \in {Ack("OK"), <<>>} /\ \E c \in Nat : board' = Written(w, c)

\* The bytes of a reply, and how many there are.
LEMMA ReplyBytes ==
  /\ <<>> \in Seq(Bytes)
  /\ \A status \in Names : /\ Ack(status) \in Seq(Bytes) /\ Len(Ack(status)) = 2
                            /\ Ack(status)[1] = Byte("INSYNC") /\ Ack(status)[2] = Byte(status)
  /\ \A v \in Seq(Nat) :
        /\ Field(v) \in Seq(Bytes) /\ Len(Field(v)) = 4
        /\ FieldReply(v) \in Seq(Bytes) /\ Len(FieldReply(v)) = 6
        /\ \A k \in 1..4 : FieldReply(v)[k] = [t |-> "DATA", v |-> v]
        /\ FieldReply(v)[5] = Byte("INSYNC") /\ FieldReply(v)[6] = Byte("OK")
        /\ SubSeq(FieldReply(v), 1, 4) = Field(v)
  /\ VersionReply \in Seq(Bytes) /\ \A k \in 1..Len(VersionReply) : VersionReply[k].v = <<>>
  /\ EraseReply \in Seq(Bytes) /\ Len(EraseReply) = 6
  /\ \A k \in 1..6 : EraseReply[k].t = "90%" => k = 4
<1>1. <<>> \in Seq(Bytes) /\ <<>> \in Seq(Nat)
  OBVIOUS
<1>2. \A t \in Names : Byte(t) \in Bytes
  BY <1>1 DEF Byte, Bytes, Names
<1>3. ASSUME NEW status \in Names
      PROVE  /\ Ack(status) \in Seq(Bytes) /\ Len(Ack(status)) = 2
             /\ Ack(status)[1] = Byte("INSYNC") /\ Ack(status)[2] = Byte(status)
  BY <1>2 DEF Names, Ack
<1>4. ASSUME NEW v \in Seq(Nat)
      PROVE  /\ Field(v) \in Seq(Bytes) /\ Len(Field(v)) = 4
             /\ FieldReply(v) \in Seq(Bytes) /\ Len(FieldReply(v)) = 6
             /\ \A k \in 1..4 : FieldReply(v)[k] = [t |-> "DATA", v |-> v]
             /\ FieldReply(v)[5] = Byte("INSYNC") /\ FieldReply(v)[6] = Byte("OK")
             /\ SubSeq(FieldReply(v), 1, 4) = Field(v)
  <2> DEFINE b == [t |-> "DATA", v |-> v]
  <2>1. b \in Bytes
    BY DEF Names, Bytes
  <2>2. Field(v) \in Seq(Bytes) /\ Len(Field(v)) = 4
    <3>1. Field(v) = [k \in 1..4 |-> b]
      BY DEF Field
    <3>2. 4 \in Nat /\ [k \in 1..4 |-> b] \in [1..4 -> Bytes]
      BY <2>1
    <3>3. [k \in 1..4 |-> b] \in Seq(Bytes)
      BY <3>2, SeqDef
    <3>4. Len([k \in 1..4 |-> b]) = 4
      BY <3>3, LenProperties
    <3> QED BY <3>1, <3>3, <3>4
  <2>8. \A k \in 1..4 : Field(v)[k] = b
    BY DEF Field
  <2> HIDE DEF b
  <2>3. Ack("OK") \in Seq(Bytes) /\ Len(Ack("OK")) = 2
    BY <1>3 DEF Names
  <2>9. Ack("OK")[1] = Byte("INSYNC") /\ Ack("OK")[2] = Byte("OK")
    BY <1>3 DEF Names
  <2> DEFINE f == Field(v)
             a == Ack("OK")
  <2>11. f \in Seq(Bytes) /\ a \in Seq(Bytes)
    BY <2>2, <2>3
  <2>12. Len(f) = 4 /\ Len(a) = 2
    BY <2>2, <2>3
  <2> HIDE DEF f, a
  <2>13. Cat(f, a) \in Seq(Bytes) /\ Len(Cat(f, a)) = Len(f) + Len(a)
    BY <2>11, Joined
  <2>4. /\ FieldReply(v) \in Seq(Bytes) /\ Len(FieldReply(v)) = 6
        /\ \A i \in 1..4 : FieldReply(v)[i] = Field(v)[i]
    <3>1. Cat(f, a) \in Seq(Bytes) /\ Len(Cat(f, a)) = 6
      BY <2>12, <2>13
    <3>2. ASSUME NEW i \in 1..4 PROVE Cat(f, a)[i] = f[i]
      <4>1. i \in Int /\ i >= 1 /\ i <= Len(f)
        BY <2>12
      <4> QED BY <2>11, <4>1, JoinedBefore
    <3> QED BY <3>1, <3>2 DEF FieldReply, f, a
  <2>5. \A k \in 1..4 : FieldReply(v)[k] = b
    BY <2>4, <2>8
  <2>6. FieldReply(v)[5] = Byte("INSYNC") /\ FieldReply(v)[6] = Byte("OK")
    <3>1. \A i \in Int : i >= 1 /\ i <= Len(a) => Cat(f, a)[Len(f) + i] = a[i]
      BY <2>11, JoinedAfter
    <3>2. Cat(f, a)[4 + 1] = a[1]
      BY <2>12, <3>1
    <3>3. Cat(f, a)[4 + 2] = a[2]
      BY <2>12, <3>1
    <3> QED BY <2>9, <3>2, <3>3 DEF FieldReply, f, a
  <2>7. SubSeq(FieldReply(v), 1, 4) = Field(v)
    BY <2>1, <2>2, <2>4, <2>5, SubSeqProperties, SeqEqual DEF b
  <2> QED BY <2>2, <2>4, <2>5, <2>6, <2>7 DEF b
<1>5. VersionReply \in Seq(Bytes) /\ \A k \in 1..Len(VersionReply) : VersionReply[k].v = <<>>
  <2> DEFINE q == <<Byte("DATA"), Byte("TEXT"), Byte("TEXT"), Byte("TEXT"), Byte("TEXT")>>
             a == Ack("OK")
  <2>1. q \in Seq(Bytes)
    BY <1>2 DEF Names
  <2>2. a \in Seq(Bytes)
    BY <1>3 DEF Names
  <2>3. Len(q) = 5 /\ Len(a) = 2
    BY <1>3 DEF Names
  <2>4. \A k \in 1..5 : q[k].v = <<>>
    BY DEF Byte
  <2>5. \A k \in 1..2 : a[k].v = <<>>
    BY <1>3 DEF Byte, Names
  <2> HIDE DEF q, a
  <2>6. Cat(q, a) \in Seq(Bytes) /\ Len(Cat(q, a)) = Len(q) + Len(a)
    BY <2>1, <2>2, Joined
  <2>7. \A i \in Int : i >= 1 /\ i <= Len(q) => Cat(q, a)[i] = q[i]
    BY <2>1, <2>2, JoinedBefore
  <2>8. \A i \in Int : i >= 1 /\ i <= Len(a) => Cat(q, a)[Len(q) + i] = a[i]
    BY <2>1, <2>2, JoinedAfter
  <2>9. ASSUME NEW i \in 1..7 PROVE Cat(q, a)[i].v = <<>>
    <3>1. CASE i <= 5
      BY <2>3, <2>4, <2>7, <3>1
    <3>2. CASE i > 5
      <4> DEFINE j == i - 5
      <4>1. j \in 1..2 /\ 5 + j = i
        BY <3>2
      <4> HIDE DEF j
      <4>2. Cat(q, a)[5 + j] = a[j]
        BY <2>3, <2>8, <4>1
      <4> QED BY <2>5, <4>1, <4>2
    <3> QED BY <3>1, <3>2
  <2>10. VersionReply = Cat(q, a)
    BY DEF VersionReply, q, a, Cat
  <2>11. Cat(q, a) \in Seq(Bytes) /\ Len(Cat(q, a)) = 7
    BY <2>3, <2>6
  <2>12. \A k \in 1..Len(Cat(q, a)) : Cat(q, a)[k].v = <<>>
    BY <2>9, <2>11
  <2> QED BY <2>10, <2>11, <2>12
<1>6. EraseReply \in Seq(Bytes) /\ Len(EraseReply) = 6 /\ \A k \in 1..6 : EraseReply[k].t = "90%" => k = 4
  <2> DEFINE q == <<Byte("50%"), Byte("90%")>>
             a == Ack("OK")
             c == Cat(a, q)
             d == Cat(c, a)
  <2>1. q \in Seq(Bytes)
    BY <1>2 DEF Names
  <2>2. a \in Seq(Bytes)
    BY <1>3 DEF Names
  <2>3. Len(q) = 2 /\ Len(a) = 2
    BY <1>3 DEF Names
  <2>4. q[1].t # "90%"
    BY DEF Byte
  <2>5. \A k \in 1..2 : a[k].t # "90%"
    BY <1>3 DEF Byte, Names
  <2>6. EraseReply = d
    BY DEF EraseReply, Cat
  <2> HIDE DEF q, a
  <2>7. c \in Seq(Bytes) /\ Len(c) = Len(a) + Len(q)
    BY <2>1, <2>2, Joined
  <2>8. \A i \in Int : i >= 1 /\ i <= Len(a) => c[i] = a[i]
    BY <2>1, <2>2, JoinedBefore
  <2>9. \A i \in Int : i >= 1 /\ i <= Len(q) => c[Len(a) + i] = q[i]
    BY <2>1, <2>2, JoinedAfter
  <2> HIDE DEF c
  <2>10. c \in Seq(Bytes)
    BY <2>7
  <2>11. d \in Seq(Bytes) /\ Len(d) = Len(c) + Len(a)
    BY <2>2, <2>10, Joined
  <2>12. \A i \in Int : i >= 1 /\ i <= Len(c) => d[i] = c[i]
    BY <2>2, <2>10, JoinedBefore
  <2>13. \A i \in Int : i >= 1 /\ i <= Len(a) => d[Len(c) + i] = a[i]
    BY <2>2, <2>10, JoinedAfter
  <2> HIDE DEF d
  <2>14. Len(c) = 4 /\ Len(d) = 6
    BY <2>3, <2>7, <2>11
  <2>15. ASSUME NEW k \in 1..6, d[k].t = "90%" PROVE k = 4
    <3>1. CASE k <= 2
      <4>1. d[k] = c[k]
        BY <2>12, <2>14, <3>1
      <4>2. c[k] = a[k]
        BY <2>3, <2>8, <3>1
      <4> QED BY <2>5, <2>15, <3>1, <4>1, <4>2
    <3>2. CASE k = 3
      <4>1. d[k] = c[k]
        BY <2>12, <2>14, <3>2
      <4>2. c[2 + 1] = q[1]
        BY <2>3, <2>9
      <4> QED BY <2>4, <2>15, <3>2, <4>1, <4>2
    <3>3. CASE k > 4
      <4> DEFINE j == k - 4
      <4>1. j \in 1..2 /\ 4 + j = k
        BY <3>3
      <4> HIDE DEF j
      <4>2. d[4 + j] = a[j]
        BY <2>3, <2>13, <2>14, <4>1
      <4> QED BY <2>5, <2>15, <4>1, <4>2
    <3> QED BY <3>1, <3>2, <3>3
  <2> QED BY <2>6, <2>11, <2>14, <2>15
<1> QED BY <1>1, <1>3, <1>4, <1>5, <1>6

\* What a memory holds is chunks.
LEMMA CellsType ==
  ASSUME NEW s \in Seq(Nat), NEW a \in Nat \ {0}, NEW b \in Nat
  PROVE  Cells(s, a, b) \in Seq(Nat)
<1>1. Len(s) \in Nat /\ \A i \in 1..Len(s) : s[i] \in Nat
  BY ElementOfSeq, LenProperties
<1>2. CASE b <= Len(s)
  BY <1>1, <1>2, SubSeqProperties DEF Cells
<1>3. CASE ~(b <= Len(s))
  BY <1>1, <1>3, SubSeqProperties DEF Cells
<1> QED BY <1>2, <1>3

\* What the bootloader does with the next command.
LEMMA HandleIs ==
  ASSUME TypeInv, Handle
  PROVE  /\ to # <<>> /\ to' = Tail(to) /\ Head(to) \in Writes
         /\ UNCHANGED <<client, result, closed, buf, setup>>
         /\ \E reply \in Seq(Bytes) : from' = Cat(from, reply) /\ Answers(Head(to), reply)
<1> DEFINE w == Head(to)
<1>1. to # <<>> /\ to' = Tail(to) /\ UNCHANGED <<client, result, closed, buf, setup>>
  BY DEF Handle
<1>2. w \in Writes
  BY <1>1, HeadTailProperties DEF TypeInv
<1>3. /\ board \in [mode : {"idle", "payload"}, armed : BOOLEAN, flash : Seq(Nat),
                    ext : Seq(Nat), cursor : Nat]
      /\ from \in Seq(Bytes)
  BY DEF TypeInv
<1>4. w.op \in Ops /\ w.data \in Nat
  BY <1>2 DEF Writes
<1>5. from = Cat(from, <<>>)
  BY <1>3, ConcatEmptySeq DEF Cat
<1>6. /\ <<>> \in Seq(Bytes) /\ Ack("OK") \in Seq(Bytes) /\ Ack("INVALID") \in Seq(Bytes)
      /\ Ack("FAILED") \in Seq(Bytes)
  BY ReplyBytes DEF Names
<1>7. CASE board.mode = "payload" /\ Payload(w)
  <2>1. CASE w.op = "FILLER" \/ IsFrame(w)
    <3>1. from' = Cat(from, Ack("INVALID")) /\ board' = [board EXCEPT !.mode = "idle"]
      BY <1>7, <2>1 DEF Payload, Says, Cat
    <3>2. w.op \in Frames \cup {"FILLER"}
      BY <2>1 DEF IsFrame, Frames
    <3> QED BY <1>1, <1>2, <1>6, <1>7, <3>1, <3>2 DEF Answers
  <2>2. CASE ~(w.op = "FILLER" \/ IsFrame(w))
    <3>1. from' = Cat(from, <<>>) /\ board' = board
      BY <1>5, <1>7, <2>2 DEF Payload, SaysNothing
    <3>2. w.op \notin Frames \cup {"FILLER"}
      BY <2>2 DEF IsFrame, Frames
    <3> QED BY <1>1, <1>2, <1>6, <1>7, <3>1, <3>2 DEF Answers
  <2> QED BY <2>1, <2>2
<1>8. CASE board.mode = "idle" /\ (Query(w) \/ Chip(w))
  <2> SUFFICES \E reply \in Seq(Bytes) : from' = Cat(from, reply) /\ Answers(w, reply)
    BY <1>1, <1>2
  <2>1. \A s \in Seq(Bytes) : from \o s = Cat(from, s)
    BY DEF Cat
  <2>2. /\ \A v \in Seq(Nat) : FieldReply(v) \in Seq(Bytes)
        /\ VersionReply \in Seq(Bytes) /\ EraseReply \in Seq(Bytes) /\ <<>> \in Seq(Nat)
    <3>1. \A v \in Seq(Nat) : FieldReply(v) \in Seq(Bytes)
      BY ReplyBytes
    <3>2. VersionReply \in Seq(Bytes) /\ EraseReply \in Seq(Bytes)
      BY ReplyBytes
    <3>3. <<>> \in Seq(Nat)
      OBVIOUS
    <3> QED BY <3>1, <3>2, <3>3
  <2>3. /\ \A v : Field(v) \o Ack("OK") = FieldReply(v)
        /\ from \o (<<Byte("DATA"), Byte("TEXT"), Byte("TEXT"), Byte("TEXT"), Byte("TEXT")>> \o Ack("OK"))
             = Cat(from, VersionReply)
        /\ from \o (Ack("OK") \o <<Byte("50%"), Byte("90%")>> \o Ack("OK")) = Cat(from, EraseReply)
        /\ \A v : from \o (Field(v) \o Ack("OK")) = Cat(from, FieldReply(v))
    BY DEF Cat, FieldReply, VersionReply, EraseReply
  <2>4. /\ \A n \in Nat : Cells(board.flash, n + 1, n + 1) \in Seq(Nat)
        /\ Cells(board.ext, 1, setup.ext) \in Seq(Nat)
        /\ board.flash \in Seq(Nat)
    <3>3. setup.ext \in Nat
      BY SizesAssumption DEF TypeInv
    <3>4. board.flash \in Seq(Nat) /\ board.ext \in Seq(Nat)
      BY <1>3
    <3>5. ASSUME NEW n \in Nat PROVE Cells(board.flash, n + 1, n + 1) \in Seq(Nat)
      <4>1. n + 1 \in Nat \ {0}
        OBVIOUS
      <4> QED BY <3>4, <4>1, CellsType
    <3>6. Cells(board.ext, 1, setup.ext) \in Seq(Nat)
      <4>1. 1 \in Nat \ {0}
        OBVIOUS
      <4> QED BY <3>3, <3>4, <4>1, CellsType
    <3> QED BY <3>4, <3>5, <3>6
  <2>5. CASE w.op = "GET_SYNC" /\ Says(Ack("OK")) /\ UNCHANGED board
    BY <1>6, <1>8, <2>1, <2>5 DEF Says, Answers
  <2>6. CASE w.op = "GET_DEVICE" /\ Says(Field(<<>>) \o Ack("OK")) /\ board' = [board EXCEPT !.armed = TRUE]
    BY <1>8, <2>2, <2>3, <2>6 DEF Says, Answers
  <2>7. CASE w.op = "GET_VERSION" /\ UNCHANGED board /\ (Says(Ack("INVALID"))
             \/ Says(<<Byte("DATA"), Byte("TEXT"), Byte("TEXT"), Byte("TEXT"), Byte("TEXT")>> \o Ack("OK")))
    <3>1. from' = Cat(from, Ack("INVALID")) \/ from' = Cat(from, VersionReply)
      BY <1>6, <2>1, <2>3, <2>7 DEF Says
    <3> QED BY <1>6, <1>8, <2>2, <2>7, <3>1 DEF Answers
  <2>8. CASE w.op = "CHIP_VERIFY" /\ Says(Ack("OK")) /\ board' = [board EXCEPT !.cursor = 0]
    BY <1>6, <1>8, <2>1, <2>8 DEF Says, Answers
  <2>9. CASE /\ w.op = "READ_MULTI" /\ board' = [board EXCEPT !.cursor = @ + 1]
             /\ Says(Field(Cells(board.flash, board.cursor + 1, board.cursor + 1)) \o Ack("OK"))
    <3> DEFINE v == Cells(board.flash, board.cursor + 1, board.cursor + 1)
    <3>1. v \in Seq(Nat)
      BY <1>3, <2>4
    <3>2. from' = Cat(from, FieldReply(v)) /\ FieldReply(v) \in Seq(Bytes)
      BY <2>2, <2>3, <2>9, <3>1 DEF Says
    <3> QED BY <1>8, <2>9, <3>2 DEF Answers
  <2>10. CASE w.op \in {"FILLER", "REBOOT"} /\ SaysNothing /\ UNCHANGED board
    BY <1>5, <1>6, <1>8, <2>10 DEF SaysNothing, Answers
  <2>11. CASE w.op = "CHIP_ERASE" /\ Says(Ack("INVALID")) /\ UNCHANGED board
    BY <1>6, <1>8, <2>1, <2>11 DEF Says, Answers
  <2>12. CASE /\ w.op = "CHIP_ERASE" /\ board' = [board EXCEPT !.flash = <<>>]
              /\ from' \in {from \o Ack("OK"), from \o Ack("FAILED")}
    BY <1>6, <1>8, <2>1, <2>12 DEF Answers
  <2>13. CASE /\ w.op = "GET_CRC" /\ UNCHANGED board
              /\ Says(Field(board.flash) \o Ack("OK")) \/ Says(Ack("INVALID"))
    <3>1. from' = Cat(from, FieldReply(board.flash)) \/ from' = Cat(from, Ack("INVALID"))
      BY <1>6, <2>1, <2>3, <2>13 DEF Says
    <3> QED BY <1>6, <1>8, <2>2, <2>4, <2>13, <3>1 DEF Answers
  <2>14. CASE /\ w.op = "EXTF_ERASE" /\ board' = [board EXCEPT !.ext = <<>>]
              /\ Says(Ack("OK") \o <<Byte("50%"), Byte("90%")>> \o Ack("OK"))
    BY <1>8, <2>2, <2>3, <2>14 DEF Says, Answers
  <2>15. CASE /\ w.op = "EXTF_GET_CRC" /\ UNCHANGED board
              /\ Says(Field(Cells(board.ext, 1, setup.ext)) \o Ack("OK"))
    <3> DEFINE v == Cells(board.ext, 1, setup.ext)
    <3>1. from' = Cat(from, FieldReply(v)) /\ FieldReply(v) \in Seq(Bytes)
      BY <2>2, <2>3, <2>4, <2>15 DEF Says
    <3> QED BY <1>8, <2>15, <3>1 DEF Answers
  <2>16. CASE Query(w)
    BY <2>5, <2>6, <2>7, <2>8, <2>9, <2>10, <2>16 DEF Query
  <2>17. CASE Chip(w)
    BY <2>11, <2>12, <2>13, <2>14, <2>15, <2>17 DEF Chip, Says, Fault
  <2> QED BY <1>8, <2>16, <2>17
<1>9. CASE board.mode = "idle" /\ IsFrame(w) /\ Frame(w)
  <2> SUFFICES \E reply \in Seq(Bytes) : from' = Cat(from, reply) /\ Answers(w, reply)
    BY <1>1, <1>2
  <2>1. w.op \in Frames /\ Damaged \in Nat
    BY <1>9, SizesAssumption DEF IsFrame, Frames, Damaged
  <2>2. CASE from' \in {from \o Ack("INVALID"), from \o Ack("FAILED")} /\ board' = board
    BY <1>6, <1>9, <2>1, <2>2 DEF Answers, Cat
  <2>3. CASE from' = from \o Ack("OK") /\ (board' = Written(w, w.data) \/ board' = Written(w, Damaged))
    BY <1>4, <1>6, <1>9, <2>1, <2>3 DEF Answers, Cat
  <2>4. CASE from' = from /\ board' = [board EXCEPT !.mode = "payload"]
    BY <1>5, <1>6, <1>9, <2>1, <2>4 DEF Answers
  <2>5. CASE from' = from /\ board' = Written(w, w.data)
    BY <1>4, <1>5, <1>6, <1>9, <2>1, <2>5 DEF Answers
  <2> QED BY <1>9, <2>2, <2>3, <2>4, <2>5 DEF Frame, Says
<1> QED BY <1>7, <1>8, <1>9 DEF Handle

\* The link when a command is taken and answered with reply.
Takes1(reply) ==
  to # <<>> /\ to' = Tail(to) /\ from' = Cat(from, reply) /\ buf' = buf

\* What is under way once the board has read one command and replied.
LEMMA LinkHandled ==
  ASSUME TypeInv, NEW reply \in Seq(Bytes), Takes1(reply)
  PROVE  /\ Len(to) \in Nat /\ Len(to) >= 1 /\ Len(to') = Len(to) - 1
         /\ to' \in Seq(Writes) /\ from' \in Seq(Bytes) /\ Head(to) = to[1]
         /\ \A i \in 1..Len(to') : to'[i] = to[i + 1]
         /\ to' = <<>> <=> Len(to) = 1
         /\ Len(reply) \in Nat /\ Len(Pipe) \in Nat /\ Len(Pipe') = Len(Pipe) + Len(reply)
         /\ \A k \in 1..Len(Pipe) : Pipe'[k] = Pipe[k]
         /\ \A k \in 1..Len(reply) : Pipe'[Len(Pipe) + k] = reply[k]
         /\ Pipe = <<>> => Pipe' = reply
         /\ reply = <<>> => Pipe' = Pipe
<1>1. buf \in Seq(Bytes) /\ from \in Seq(Bytes) /\ to \in Seq(Writes) /\ to # <<>> /\ Len(to) \in Nat
  BY LinkType DEF TypeInv, Takes1
<1>2. /\ Head(to) = to[1] /\ to' \in Seq(Writes) /\ Len(to') = Len(to) - 1
      /\ \A i \in 1..Len(to') : to'[i] = to[i + 1]
  BY <1>1, HeadTailProperties DEF Takes1
<1>3. Len(to) >= 1 /\ (to' = <<>> <=> Len(to) = 1)
  BY <1>1, <1>2, EmptySeq
<1>4. from' \in Seq(Bytes)
  BY <1>1, Joined DEF Takes1
<1>5. Pipe' = Cat(Pipe, reply)
  <2>1. (buf \o from) \o reply = buf \o (from \o reply)
    BY <1>1, ConcatAssociative
  <2> QED BY <2>1 DEF Pipe, Takes1, Cat
<1>6. Pipe \in Seq(Bytes) /\ Len(Pipe) \in Nat /\ Len(reply) \in Nat
  BY LinkType, LenProperties
<1>7. Len(Cat(Pipe, reply)) = Len(Pipe) + Len(reply)
  BY <1>6, Joined
<1>8. \A k \in Int : k >= 1 /\ k <= Len(Pipe) => Cat(Pipe, reply)[k] = Pipe[k]
  BY <1>6, JoinedBefore
<1>9. \A k \in Int : k >= 1 /\ k <= Len(reply) => Cat(Pipe, reply)[Len(Pipe) + k] = reply[k]
  BY <1>6, JoinedAfter
<1>10. /\ Pipe = <<>> => Cat(Pipe, reply) = reply
       /\ reply = <<>> => Cat(Pipe, reply) = Pipe
  BY <1>6, ConcatEmptySeq DEF Cat
<1>11. \A k \in 1..Len(Pipe) : Cat(Pipe, reply)[k] = Pipe[k]
  BY <1>6, <1>8
<1>12. \A k \in 1..Len(reply) : Cat(Pipe, reply)[Len(Pipe) + k] = reply[k]
  BY <1>6, <1>9
<1> QED BY <1>1, <1>2, <1>3, <1>4, <1>5, <1>6, <1>7, <1>10, <1>11, <1>12

\* What the board keeps of itself.
LEMMA BoardAnswers ==
  ASSUME TypeInv, NEW w \in Writes, NEW reply, Answers(w, reply)
  PROVE  /\ board' \in [mode : {"idle", "payload"}, armed : BOOLEAN, flash : Seq(Nat),
                        ext : Seq(Nat), cursor : Nat]
         /\ w.op \notin Frames \cup {"CHIP_ERASE"} => board'.flash = board.flash
         /\ w.op \notin {"EXTF_ERASE", "EXTF_PROG_MULTI"} => board'.ext = board.ext
         /\ w.op \notin Frames /\ board.mode = "idle" => board'.mode = "idle"
         /\ w.op \notin Frames \cup {"FILLER"} /\ board.mode = "payload" =>
              board' = board /\ reply = <<>>
         /\ w.op = "CHIP_VERIFY" => board'.mode = "payload" \/ board'.cursor = 0
<1> USE DEF Frames
<1>1. /\ board \in [mode : {"idle", "payload"}, armed : BOOLEAN, flash : Seq(Nat),
                    ext : Seq(Nat), cursor : Nat]
      /\ w.op \in Ops /\ w.data \in Nat
  BY DEF TypeInv, Writes
<1>2. \A s \in Seq(Nat), c \in Nat : Append(s, c) \in Seq(Nat)
  OBVIOUS
<1>3. ASSUME NEW c \in Nat, board' = Written(w, c), w.op \in Frames
      PROVE  /\ board' \in [mode : {"idle", "payload"}, armed : BOOLEAN, flash : Seq(Nat),
                            ext : Seq(Nat), cursor : Nat]
             /\ w.op # "EXTF_PROG_MULTI" => board'.ext = board.ext
  BY <1>1, <1>2, <1>3 DEF Written
<1>4. CASE board.mode = "payload"
  BY <1>1, <1>4 DEF Answers
<1>5. CASE board.mode = "idle" /\ w.op \in Frames
  BY <1>1, <1>3, <1>5 DEF Answers
<1>6. CASE board.mode = "idle" /\ w.op \notin Frames
  <2>1. <<>> \in Seq(Nat) /\ board.cursor + 1 \in Nat /\ 0 \in Nat
    BY <1>1
  <2> QED BY <1>1, <1>6, <2>1 DEF Answers
<1> QED BY <1>1, <1>4, <1>5, <1>6

\* How a short command is answered.
LEMMA ShortAnswers ==
  ASSUME TypeInv, NEW w \in Writes, NEW reply \in Seq(Bytes), Answers(w, reply), w.op \in Short
  PROVE  /\ Len(reply) \in {0, 2} /\ board'.mode \in {"idle", "payload"}
         /\ w.op # "FILLER" /\ board'.mode = "payload" => Len(reply) = 0
         /\ w.op = "FILLER" => board'.mode = "idle"
         /\ w.op = "FILLER" /\ board.mode = "idle" => Len(reply) = 0
<1>1. /\ board \in [mode : {"idle", "payload"}, armed : BOOLEAN, flash : Seq(Nat),
                    ext : Seq(Nat), cursor : Nat]
  BY DEF TypeInv
<1>2. /\ Len(Ack("OK")) = 2 /\ Len(Ack("INVALID")) = 2 /\ Len(Ack("FAILED")) = 2
  BY ReplyBytes DEF Names
<1>3. /\ reply = <<>> => Len(reply) = 0
      /\ reply \in {Ack("OK"), Ack("INVALID"), Ack("FAILED")} => Len(reply) = 2
  BY <1>2
<1>4. \A c : Written(w, c).mode = board.mode
  BY <1>1 DEF Written
<1>5. CASE board.mode = "payload"
  BY <1>1, <1>3, <1>5 DEF Answers
<1>6. CASE board.mode = "idle" /\ w.op \in Frames
  BY <1>1, <1>3, <1>4, <1>6 DEF Frames, Answers
<1>7. CASE board.mode = "idle" /\ w.op \notin Frames
  BY <1>3, <1>7, BoardAnswers DEF Answers, Frames, Short
<1> QED BY <1>1, <1>5, <1>6, <1>7

\* A short command that is taken adds nothing to what is under way.
LEMMA HandleShort ==
  ASSUME TypeInv, NEW reply \in Seq(Bytes), Takes1(reply), Answers(Head(to), reply),
         Head(to).op \in Short
  PROVE  Load' <= Load
<1> DEFINE p == IF board.mode = "payload" THEN 2 ELSE 0
           q == IF board'.mode = "payload" THEN 2 ELSE 0
           f == IF Sends(Ops \ {"FILLER"}) THEN 0 ELSE 2
           g == IF Sends(Ops \ {"FILLER"})' THEN 0 ELSE 2
<1>1. Head(to) \in Writes
  BY HeadTailProperties DEF TypeInv, Takes1
<1>2. /\ Head(to).op # "FILLER" => Len(reply) + q <= 2 + p
      /\ Head(to).op = "FILLER" => Len(reply) + q <= p
  <2>1. Head(to).op \in Short /\ board.mode \in {"idle", "payload"}
    BY DEF TypeInv
  <2>2. /\ Len(reply) \in {0, 2} /\ board'.mode \in {"idle", "payload"}
        /\ Head(to).op # "FILLER" /\ board'.mode = "payload" => Len(reply) = 0
        /\ Head(to).op = "FILLER" => board'.mode = "idle"
        /\ Head(to).op = "FILLER" /\ board.mode = "idle" => Len(reply) = 0
    BY <1>1, <2>1, ShortAnswers
  <2>3. /\ p = 0 \/ p = 2
        /\ q = 0 \/ q = 2
        /\ Len(reply) = 0 \/ Len(reply) = 2
        /\ q = 2 => board'.mode = "payload"
        /\ p = 0 <=> board.mode = "idle"
    BY <2>1, <2>2
  <2>4. /\ Head(to).op # "FILLER" => q = 0 \/ Len(reply) = 0
        /\ Head(to).op = "FILLER" => q = 0 /\ (p = 2 \/ Len(reply) = 0)
    BY <2>2, <2>3
  <2> DEFINE n == Len(reply)
  <2>5. \A a, b, c \in {0, 2} : /\ a = 0 \/ b = 0 => a + b <= 2 + c
                               /\ b = 0 /\ (c = 2 \/ a = 0) => a + b <= c
    OBVIOUS
  <2>6. n \in {0, 2} /\ q \in {0, 2} /\ p \in {0, 2}
    BY <2>3
  <2> HIDE DEF p, q, n
  <2>7. /\ n = 0 \/ q = 0 => n + q <= 2 + p
        /\ q = 0 /\ (p = 2 \/ n = 0) => n + q <= p
    BY <2>5, <2>6
  <2> QED BY <2>4, <2>7 DEF n
<1>3. /\ Len(to) \in Nat /\ Len(to) >= 1 /\ Len(to') = Len(to) - 1 /\ Head(to) = to[1]
      /\ \A i \in 1..Len(to') : to'[i] = to[i + 1]
      /\ Len(reply) \in Nat
  BY LinkHandled
<1>4. Load = Len(buf) + Len(from) + 2 * Len(to) + p - f
  BY DEF Load
<1>5. Load' = Len(buf') + Len(from') + 2 * Len(to') + q - g
  BY DEF Load
<1>6. Len(buf') = Len(buf) /\ Len(from') = Len(from) + Len(reply)
  BY LinkType, Joined DEF TypeInv, Takes1
<1>7. Head(to).op # "FILLER" => g = f
  <2> SUFFICES ASSUME Head(to).op # "FILLER"
               PROVE Sends(Ops \ {"FILLER"})' <=> Sends(Ops \ {"FILLER"})
    OBVIOUS
  <2>1. to[1].op \in Ops \ {"FILLER"}
    BY <1>1, <1>3 DEF Writes
  <2>2. Sends(Ops \ {"FILLER"})' => Sends(Ops \ {"FILLER"})
    <3> SUFFICES ASSUME Sends(Ops \ {"FILLER"})', NEW i \in 1..Len(to)
                 PROVE to[i].op \in Ops \ {"FILLER"}
      BY DEF Sends
    <3>1. CASE i = 1
      BY <2>1, <3>1
    <3>2. CASE i # 1
      <4>1. i - 1 \in 1..Len(to') /\ (i - 1) + 1 = i
        BY <1>3, <3>2
      <4>2. to'[i - 1].op \in Ops \ {"FILLER"}
        BY <4>1 DEF Sends
      <4> QED BY <1>3, <4>1, <4>2
    <3> QED BY <3>1, <3>2
  <2>3. Sends(Ops \ {"FILLER"}) => Sends(Ops \ {"FILLER"})'
    <3> SUFFICES ASSUME Sends(Ops \ {"FILLER"}), NEW i \in 1..Len(to')
                 PROVE to'[i].op \in Ops \ {"FILLER"}
      BY DEF Sends
    <3>1. i + 1 \in 1..Len(to)
      BY <1>3
    <3> QED BY <1>3, <3>1 DEF Sends
  <2> QED BY <2>2, <2>3
<1>8. Head(to).op = "FILLER" => f = 2
  BY <1>3 DEF Sends
<1>9. p \in Int /\ q \in Int /\ f \in {0, 2} /\ g \in {0, 2} /\ Len(buf) \in Nat /\ Len(from) \in Nat
  BY LinkType
<1> HIDE DEF p, q, f, g
<1>10. CASE Head(to).op # "FILLER"
  BY <1>2, <1>3, <1>4, <1>5, <1>6, <1>7, <1>9, <1>10
<1>11. CASE Head(to).op = "FILLER"
  BY <1>2, <1>3, <1>4, <1>5, <1>6, <1>8, <1>9, <1>11
<1> QED BY <1>10, <1>11

\* What is sent last and is no filler is still to be answered.
LEMMA LatestLoads ==
  ASSUME TypeInv, to # <<>>, to[Len(to)].op # "FILLER"
  PROVE  Load >= Len(Pipe) + 2
<1>1. PICK p \in {0, 2}, f \in {0, 2} :
           /\ Load = Len(Pipe) + 2 * Len(to) + p - f
           /\ p = 0 <=> board.mode = "idle"
           /\ f = 0 <=> Sends(Ops \ {"FILLER"})
           /\ to = <<>> => f = 0
  BY LoadIs
<1>2. Len(Pipe) \in Nat /\ Len(to) \in Nat /\ Len(to) >= 1 /\ \A i \in 1..Len(to) : to[i] \in Writes
  BY LinkType
<1>3. CASE Len(to) >= 2
  BY <1>1, <1>2, <1>3
<1>4. CASE Len(to) = 1
  BY <1>1, <1>2, <1>4 DEF Sends, Writes
<1>5. Len(to) >= 2 \/ Len(to) = 1
  <2>1. \A n \in Nat : n >= 1 => n >= 2 \/ n = 1
    OBVIOUS
  <2>2. Len(to) \in Nat /\ Len(to) >= 1
    BY <1>2
  <2> QED BY <2>1, <2>2
<1> QED BY <1>3, <1>4, <1>5

-----------------------------------------------------------------------------
(* A step of the bootloader keeps the invariant. *)

\* The facts that the cases of the step rest on.
LEMMA Handled ==
  ASSUME FlashInv, Handle
  PROVE  \E reply \in Seq(Bytes) :
           /\ Takes1(reply) /\ Answers(Head(to), reply)
           /\ Head(to) \in Writes /\ Head(to) = to[1] /\ ~closed
           /\ UNCHANGED <<client, result, closed, buf, setup>>
           /\ \A S : Sends(S) => Head(to).op \in S /\ Sends(S)'
           /\ NoErase => Head(to).op # "CHIP_ERASE" /\ NoErase'
           /\ Head(to).op \in Short => Load' <= Load
           /\ Load' \in Int /\ Load \in Nat /\ Slack \in {0, 2}
<1>1. TypeInv /\ Cut
  BY DEF FlashInv
<1>2. /\ to # <<>> /\ to' = Tail(to) /\ Head(to) \in Writes
      /\ UNCHANGED <<client, result, closed, buf, setup>>
      /\ \E reply \in Seq(Bytes) : from' = Cat(from, reply) /\ Answers(Head(to), reply)
  BY <1>1, HandleIs
<1>3. PICK reply \in Seq(Bytes) : from' = Cat(from, reply) /\ Answers(Head(to), reply)
  BY <1>2
<1>4. Takes1(reply)
  BY <1>2, <1>3 DEF Takes1
<1>5. /\ Len(to) \in Nat /\ Len(to) >= 1 /\ Len(to') = Len(to) - 1 /\ Head(to) = to[1]
      /\ \A i \in 1..Len(to') : to'[i] = to[i + 1]
  BY <1>1, <1>4, LinkHandled
<1>6. 1 \in 1..Len(to) /\ \A i \in 1..Len(to') : i + 1 \in 1..Len(to)
  BY <1>5
<1>7. \A S : Sends(S) => Head(to).op \in S /\ Sends(S)'
  BY <1>5, <1>6 DEF Sends
<1>8. NoErase => Head(to).op # "CHIP_ERASE" /\ NoErase'
  BY <1>5, <1>6 DEF NoErase
<1>9. Head(to).op \in Short => Load' <= Load
  BY <1>1, <1>3, <1>4, HandleShort
<1>10. Load' \in Int /\ Load \in Nat /\ Slack \in {0, 2}
  BY <1>1, <1>2, <1>4, LinkHandled, LoadNext, LoadBounds DEF TypeInv
<1> QED BY <1>1, <1>2, <1>3, <1>4, <1>5, <1>7, <1>8, <1>9, <1>10 DEF Cut

\* A command handled keeps the types, the place of the session and a link cut.
LEMMA HandleType ==
  ASSUME FlashInv, Handle
  PROVE  TypeInv' /\ Where' /\ Within' /\ Cut'
<1>1. TypeInv /\ Where /\ Within /\ Cut
  BY DEF FlashInv
<1>2. PICK reply \in Seq(Bytes) :
           /\ Takes1(reply) /\ Answers(Head(to), reply)
           /\ Head(to) \in Writes /\ ~closed
           /\ UNCHANGED <<client, result, closed, buf, setup>>
  BY Handled
<1>3. to' \in Seq(Writes) /\ from' \in Seq(Bytes)
  BY <1>1, <1>2, LinkHandled
<1>4. board' \in [mode : {"idle", "payload"}, armed : BOOLEAN, flash : Seq(Nat),
                  ext : Seq(Nat), cursor : Nat]
  BY <1>1, <1>2, BoardAnswers
<1>5. client' = client
  BY <1>2
<1>6. Where'
  BY <1>1, <1>5, ZenonT(60) DEF Where
<1>7. TypeInv' /\ Within' /\ Cut'
  BY <1>1, <1>2, <1>3, <1>4 DEF TypeInv, Within, Cut
<1> QED BY <1>6, <1>7

\* Before flash() only the firmware that is there is told of.
LEMMA HandleEarly ==
  ASSUME FlashInv, Handle
  PROVE  Untouched' /\ Settled'
<1>1. TypeInv /\ Untouched /\ Settled
  BY DEF FlashInv
<1>2. PICK reply \in Seq(Bytes) :
           /\ Takes1(reply) /\ Answers(Head(to), reply)
           /\ Head(to) \in Writes /\ Head(to) = to[1]
           /\ UNCHANGED <<client, result, closed, buf, setup>>
           /\ \A S : Sends(S) => Head(to).op \in S /\ Sends(S)'
  BY Handled
<1>3. /\ Len(to) \in Nat /\ Len(to) >= 1 /\ (to' = <<>> <=> Len(to) = 1)
      /\ Pipe = <<>> => Pipe' = reply
  BY <1>1, <1>2, LinkHandled
<1>4. CASE client.phase \in Early
  <2>1. /\ board.flash = setup.old /\ board.mode = "idle" /\ Sends(Asking)
        /\ OldBytes(buf) /\ OldBytes(from) /\ OldBytes(client.word)
    BY <1>1, <1>4 DEF Untouched
  <2>2. Head(to).op \in Asking /\ Sends(Asking)'
    BY <1>2, <2>1
  <2>3. board'.flash = board.flash /\ board'.mode = "idle"
    BY <1>1, <1>2, <2>1, <2>2, BoardAnswers DEF Asking, Frames
  <2>4. reply \in {Ack("OK"), Ack("INVALID"), FieldReply(<<>>), FieldReply(setup.old), VersionReply}
    BY <1>2, <2>1, <2>2 DEF Answers, Asking, Frames
  <2>5. OldBytes(reply)
    <3>1. setup.old \in Seq(Nat) /\ <<>> \in Seq(Nat)
      BY <1>1 DEF TypeInv
    <3>2. CASE reply \in {Ack("OK"), Ack("INVALID")}
      <4>1. PICK status \in Names : reply = Ack(status)
        BY <3>2 DEF Names
      <4>2. Len(Ack(status)) = 2 /\ Ack(status)[1] = Byte("INSYNC") /\ Ack(status)[2] = Byte(status)
        BY ReplyBytes
      <4>3. \A k \in 1..Len(reply) : reply[k].v = <<>>
        BY <4>1, <4>2 DEF Byte
      <4> QED BY <4>3 DEF OldBytes
    <3>3. CASE reply \in {FieldReply(<<>>), FieldReply(setup.old)}
      <4>1. PICK v \in {<<>>, setup.old} : reply = FieldReply(v)
        BY <3>3
      <4>2. v \in Seq(Nat)
        BY <3>1, <4>1
      <4>3. /\ Len(FieldReply(v)) = 6
            /\ \A k \in 1..4 : FieldReply(v)[k] = [t |-> "DATA", v |-> v]
            /\ FieldReply(v)[5] = Byte("INSYNC") /\ FieldReply(v)[6] = Byte("OK")
        BY <4>2, ReplyBytes
      <4>4. \A k \in 1..6 : FieldReply(v)[k].v \in {<<>>, v}
        <5> SUFFICES ASSUME NEW k \in 1..6 PROVE FieldReply(v)[k].v \in {<<>>, v}
          OBVIOUS
        <5>1. CASE k \in 1..4
          BY <4>3, <5>1
        <5>2. CASE k = 5
          BY <4>3, <5>2 DEF Byte
        <5>3. CASE k = 6
          BY <4>3, <5>3 DEF Byte
        <5> QED BY <5>1, <5>2, <5>3
      <4> QED BY <4>1, <4>3, <4>4 DEF OldBytes
    <3>4. CASE reply = VersionReply
      BY <3>4, ReplyBytes DEF OldBytes
    <3> QED BY <2>4, <3>2, <3>3, <3>4
  <2>6. OldBytes(Cat(from, reply))
    <3>1. from \in Seq(Bytes) /\ reply \in Seq(Bytes) /\ Len(from) \in Nat /\ Len(reply) \in Nat
      BY <1>1, <1>2, LenProperties DEF TypeInv
    <3>2. Len(Cat(from, reply)) = Len(from) + Len(reply)
      BY <3>1, Joined
    <3>3. \A k \in Int : k >= 1 /\ k <= Len(from) => Cat(from, reply)[k] = from[k]
      BY <3>1, JoinedBefore
    <3>4. \A k \in Int : k >= 1 /\ k <= Len(reply) => Cat(from, reply)[Len(from) + k] = reply[k]
      BY <3>1, JoinedAfter
    <3> SUFFICES ASSUME NEW k \in 1..(Len(from) + Len(reply))
                 PROVE Cat(from, reply)[k].v \in {<<>>, setup.old}
      BY <3>2 DEF OldBytes
    <3>5. CASE k <= Len(from)
      BY <2>1, <3>1, <3>3, <3>5 DEF OldBytes
    <3>6. CASE ~(k <= Len(from))
      <4> DEFINE j == k - Len(from)
      <4>1. j \in 1..Len(reply) /\ Len(from) + j = k
        BY <3>1, <3>6
      <4> HIDE DEF j
      <4>2. Cat(from, reply)[Len(from) + j] = reply[j]
        BY <3>4, <4>1
      <4> QED BY <2>5, <4>1, <4>2 DEF OldBytes
    <3> QED BY <3>5, <3>6
  <2>7. OldBytes(buf)' /\ OldBytes(from)' /\ OldBytes(client.word)'
    BY <1>2, <2>1, <2>6 DEF Takes1, OldBytes
  <2>8. Untouched'
    BY <1>2, <2>1, <2>2, <2>3, <2>7 DEF Untouched
  <2>9. Settled'
    <3> SUFFICES ASSUME client.phase = "settle 2", client.step = "resync"
                 PROVE Settled'
      BY <1>2 DEF Settled
    <3>1. client.stage = "head" /\ Sends({"GET_SYNC"}) /\ Len(to) = 1 /\ Pipe = <<>>
      BY <1>1, <1>2 DEF Settled, Takes1
    <3>2. Head(to).op = "GET_SYNC" /\ to' = <<>> /\ Pipe' = reply
      <4>1. Head(to).op \in {"GET_SYNC"}
        BY <1>2, <3>1
      <4>2. Pipe' = reply
        BY <1>3, <3>1
      <4>3. to' = <<>>
        BY <1>3, <3>1
      <4> QED BY <4>1, <4>2, <4>3
    <3>3. reply = Ack("OK")
      BY <1>2, <2>1, <3>2 DEF Answers, Frames
    <3> QED BY <1>2, <3>1, <3>2, <3>3 DEF Settled
  <2> QED BY <2>8, <2>9
<1>5. CASE client.phase \notin Early
  BY <1>2, <1>5 DEF Untouched, Settled, Early
<1> QED BY <1>4, <1>5

\* A command handled keeps what is known of an erase: the late 90% is the end of it.
LEMMA HandleErases ==
  ASSUME FlashInv, Handle
  PROVE  ExtErase' /\ Erase'
<1>1. TypeInv /\ ExtErase /\ Erase
  BY DEF FlashInv
<1>2. PICK reply \in Seq(Bytes) :
           /\ Takes1(reply) /\ Answers(Head(to), reply)
           /\ Head(to) \in Writes /\ Head(to) = to[1]
           /\ UNCHANGED <<client, result, closed, buf, setup>>
           /\ \A S : Sends(S) => Head(to).op \in S /\ Sends(S)'
           /\ Head(to).op \in Short => Load' <= Load
           /\ Load' \in Int /\ Load \in Nat /\ Slack \in {0, 2}
  BY Handled
<1>3. /\ Len(to) \in Nat /\ Len(to) >= 1 /\ Len(to') = Len(to) - 1 /\ (to' = <<>> <=> Len(to) = 1)
      /\ \A i \in 1..Len(to') : to'[i] = to[i + 1]
      /\ Len(reply) \in Nat /\ Len(Pipe) \in Nat /\ Len(Pipe') = Len(Pipe) + Len(reply)
      /\ \A k \in 1..Len(Pipe) : Pipe'[k] = Pipe[k]
      /\ \A k \in 1..Len(reply) : Pipe'[Len(Pipe) + k] = reply[k]
  BY <1>1, <1>2, LinkHandled
<1>5. ExtErase'
  <2> SUFFICES ASSUME client.phase = "xerase" PROVE ExtErase'
    BY <1>2 DEF ExtErase
  <2>1. board.mode = "idle" /\ \A i \in 1..(Len(to) - 1) : to[i].op = "GET_SYNC"
    BY <1>1 DEF ExtErase
  <2>2. \A i \in 1..(Len(to') - 1) : to'[i].op = "GET_SYNC"
    <3> SUFFICES ASSUME NEW i \in 1..(Len(to') - 1) PROVE to'[i].op = "GET_SYNC"
      OBVIOUS
    <3>1. i \in 1..Len(to') /\ i + 1 \in 1..(Len(to) - 1)
      BY <1>3
    <3> QED BY <1>3, <2>1, <3>1
  <2>3. ASSUME Head(to).op = "GET_SYNC", \A k \in 1..Len(Pipe) : Pipe[k].t # "90%"
        PROVE  board'.mode = "idle" /\ \A k \in 1..Len(Pipe') : Pipe'[k].t # "90%"
    <3>1. reply = Ack("OK") /\ board' = board
      BY <1>2, <2>1, <2>3 DEF Answers, Frames
    <3>2. Len(reply) = 2 /\ reply[1] = Byte("INSYNC") /\ reply[2] = Byte("OK")
      BY <3>1, ReplyBytes DEF Names
    <3>3. \A k \in 1..2 : reply[k].t # "90%"
      BY <3>2 DEF Byte
    <3> SUFFICES ASSUME NEW k \in 1..Len(Pipe') PROVE Pipe'[k].t # "90%"
      BY <2>1, <3>1
    <3>4. CASE k <= Len(Pipe)
      BY <1>3, <2>3, <3>4
    <3>5. CASE ~(k <= Len(Pipe))
      <4> DEFINE j == k - Len(Pipe)
      <4>3. j \in 1..Len(reply) /\ Len(Pipe) + j = k
        BY <1>3, <3>5
      <4> HIDE DEF j
      <4>1. j \in 1..Len(reply) /\ j \in 1..2 /\ Len(Pipe) + j = k
        BY <3>2, <4>3
      <4>2. Pipe'[Len(Pipe) + j] = reply[j]
        BY <1>3, <4>1
      <4> QED BY <3>3, <4>1, <4>2
    <3> QED BY <3>4, <3>5
  <2>4. CASE client.stage = "send"
    <3>1. Sends({"GET_SYNC"}) /\ Load <= Slack /\ \A k \in 1..Len(Pipe) : Pipe[k].t # "90%"
      BY <1>1, <2>4 DEF ExtErase
    <3>2. Head(to).op \in {"GET_SYNC"} /\ Sends({"GET_SYNC"})'
      BY <1>2, <3>1
    <3>3. Load' <= Load
      BY <1>2, <3>2 DEF Short
    <3>4. Load' <= Slack
      BY <1>2, <3>1, <3>3
    <3>5. board'.mode = "idle" /\ \A k \in 1..Len(Pipe') : Pipe'[k].t # "90%"
      BY <2>3, <3>1, <3>2
    <3> QED BY <1>2, <2>2, <2>4, <3>2, <3>4, <3>5 DEF ExtErase, Slack
  <2>5. CASE client.stage \in {"head", "status", "percent"}
    <3>1. Latest("EXTF_ERASE") /\ \A k \in 1..Len(Pipe) : Pipe[k].t # "90%"
      BY <1>1, <1>2, <2>5 DEF ExtErase, Takes1
    <3>2. to[Len(to)].op = "EXTF_ERASE"
      BY <1>2, <3>1 DEF Latest, Takes1
    <3>3. CASE Len(to) = 1
      <4>1. to' = <<>> /\ Head(to).op = "EXTF_ERASE"
        BY <1>2, <1>3, <3>2, <3>3
      <4>2. reply = EraseReply /\ board' = [board EXCEPT !.ext = <<>>]
        BY <1>2, <2>1, <4>1 DEF Answers, Frames
      <4>3. board'.mode = "idle"
        BY <1>1, <2>1, <4>2 DEF TypeInv
      <4>4. Len(reply) = 6 /\ \A k \in 1..6 : reply[k].t = "90%" => k = 4
        BY <4>2, ReplyBytes
      <4>5. ASSUME NEW k \in 1..Len(Pipe'), Pipe'[k].t = "90%"
            PROVE  Len(Pipe') <= k + 2
        <5>1. CASE k <= Len(Pipe)
          BY <1>3, <3>1, <4>5, <5>1
        <5>2. CASE ~(k <= Len(Pipe))
          <6> DEFINE j == k - Len(Pipe)
          <6>4. j \in 1..Len(reply) /\ Len(Pipe) + j = k
            BY <1>3, <5>2
          <6> HIDE DEF j
          <6>1. j \in 1..Len(reply) /\ j \in 1..6 /\ Len(Pipe) + j = k
            BY <4>4, <6>4
          <6>2. j = 4 => Len(Pipe') <= k + 2
            BY <1>3, <4>4, <6>4
          <6>3. Pipe'[Len(Pipe) + j] = reply[j]
            BY <1>3, <6>1
          <6> QED BY <4>4, <4>5, <6>1, <6>2, <6>3
        <5> QED BY <5>1, <5>2
      <4> QED BY <1>2, <2>2, <2>5, <4>1, <4>3, <4>5 DEF ExtErase, Latest
    <3>4. CASE Len(to) # 1
      <4>1. 1 \in 1..(Len(to) - 1) /\ Len(to') \in 1..Len(to') /\ Len(to') + 1 = Len(to)
        BY <1>3, <3>4
      <4>2. Head(to).op = "GET_SYNC" /\ to'[Len(to')].op = "EXTF_ERASE"
        BY <1>2, <1>3, <2>1, <3>2, <4>1
      <4>3. board'.mode = "idle" /\ \A k \in 1..Len(Pipe') : Pipe'[k].t # "90%"
        BY <2>3, <3>1, <4>2
      <4> QED BY <1>2, <2>2, <2>5, <4>2, <4>3 DEF ExtErase, Latest
    <3> QED BY <3>3, <3>4
  <2>6. CASE client.stage \in {"poll", "poll status"}
    BY <1>1, <1>2, <2>6 DEF ExtErase, Takes1
  <2>7. CASE client.stage \notin {"send", "head", "status", "percent", "poll", "poll status"}
    BY <1>2, <2>2, <2>7 DEF FlashInv, Where, Exchange, ExtErase
  <2> QED BY <2>4, <2>5, <2>6, <2>7
<1>6. Erase'
  <2> SUFFICES ASSUME client.phase = "erase" PROVE Erase'
    BY <1>2 DEF Erase
  <2>1. board.mode = "idle" /\ Sends({"GET_SYNC", "CHIP_ERASE"}) /\ Load <= Slack + Due
    BY <1>1 DEF Erase
  <2>2. Head(to).op \in {"GET_SYNC", "CHIP_ERASE"} /\ Sends({"GET_SYNC", "CHIP_ERASE"})'
    BY <1>2, <2>1
  <2>3. Load' <= Load /\ board'.mode = "idle"
    BY <1>1, <1>2, <2>1, <2>2, BoardAnswers DEF Short, Frames
  <2>4. Due' = Due /\ Slack' = Slack /\ Due \in Nat
    BY <1>2 DEF Due, Slack
  <2>5. Load' <= Slack + Due
    BY <1>2, <2>1, <2>3, <2>4
  <2> QED BY <2>2, <2>3, <2>4, <2>5 DEF Erase
<1> QED BY <1>5, <1>6

\* A command handled keeps what is known of a programming and of the two images.
LEMMA HandleWrites ==
  ASSUME FlashInv, Handle
  PROVE  Programming' /\ Overtaken' /\ External' /\ Ended'
<1>1. TypeInv /\ Programming /\ Overtaken /\ External /\ Ended
  BY DEF FlashInv
<1>2. PICK reply \in Seq(Bytes) :
           /\ Takes1(reply) /\ Answers(Head(to), reply)
           /\ Head(to) \in Writes /\ Head(to) = to[1]
           /\ UNCHANGED <<client, result, closed, buf, setup>>
           /\ \A S : Sends(S) => Head(to).op \in S /\ Sends(S)'
           /\ NoErase => Head(to).op # "CHIP_ERASE" /\ NoErase'
           /\ Head(to).op \in Short => Load' <= Load
           /\ Load' \in Int /\ Load \in Nat /\ Slack \in {0, 2}
  BY Handled
<1>3. /\ Len(to) \in Nat /\ Len(to) >= 1 /\ Len(to') = Len(to) - 1
      /\ \A i \in 1..Len(to') : to'[i] = to[i + 1]
  BY <1>1, <1>2, LinkHandled
<1>4. Due' = Due /\ Due \in Nat /\ to # <<>>
  BY <1>2 DEF Due, Takes1
<1>5. Programming'
  <2> SUFFICES ASSUME client.phase \in {"xprogram", "program"} PROVE Programming'
    BY <1>2 DEF Programming
  <2>1. Sends(Short) /\ (client.stage # "drain" => Load <= 4 + (IF client.step = "filler" THEN 2 ELSE Due))
    BY <1>1 DEF Programming
  <2>2. Sends(Short)' /\ Load' <= Load
    BY <1>2, <2>1
  <2>3. client.stage # "drain" => Load' <= 4 + (IF client.step = "filler" THEN 2 ELSE Due)
    <3>1. CASE client.step = "filler"
      BY <1>2, <1>4, <2>1, <2>2, <3>1
    <3>2. CASE client.step # "filler"
      BY <1>2, <1>4, <2>1, <2>2, <3>2
    <3> QED BY <3>1, <3>2
  <2>4. client' = client
    BY <1>2
  <2> QED BY <1>4, <2>2, <2>3, <2>4 DEF Programming
<1>6. Overtaken'
  <2> SUFFICES ASSUME client.phase \in {"xprogram", "program"} PROVE NoErase'
    BY <1>2 DEF Overtaken
  <2>1. CASE NoErase
    BY <1>2, <2>1
  <2>2. CASE ~NoErase
    <3>1. \A i \in 1..Len(to) : (i = 1) = (to[i].op = "CHIP_ERASE")
      BY <1>1, <2>2 DEF Overtaken
    <3> SUFFICES ASSUME NEW i \in 1..Len(to') PROVE to'[i].op # "CHIP_ERASE"
      BY DEF NoErase
    <3>2. i + 1 \in 1..Len(to) /\ i + 1 # 1
      BY <1>3
    <3> QED BY <1>3, <3>1, <3>2
  <2> QED BY <2>1, <2>2
<1>7. External'
  <2> SUFFICES ASSUME client.phase \in {"erase", "program", "verify", "reboot"} PROVE External'
    BY <1>2 DEF External
  <2>1. Holds(board.ext, ExtImage) /\ Sends(Ops \ {"EXTF_ERASE", "EXTF_PROG_MULTI"})
    BY <1>1 DEF External
  <2>2. Head(to).op \in Ops \ {"EXTF_ERASE", "EXTF_PROG_MULTI"}
        /\ Sends(Ops \ {"EXTF_ERASE", "EXTF_PROG_MULTI"})'
    BY <1>2, <2>1
  <2>3. board'.ext = board.ext
    BY <1>1, <1>2, <2>2, BoardAnswers
  <2>4. Holds(board.ext, ExtImage)'
    BY <1>2, <2>1, <2>3 DEF Holds, ExtImage
  <2> QED BY <2>2, <2>4 DEF External
<1>8. Ended'
  <2>1. client.phase # "reboot"
    BY <1>1, <1>4 DEF Ended
  <2>2. client.phase # "over" => result = "none"
    BY <1>1 DEF Ended
  <2>3. CASE result = "skipped"
    <3>1. Sends(Asking) /\ Holds(board.flash, Image)
      BY <1>1, <2>3 DEF Ended
    <3>2. Head(to).op \in Asking /\ Sends(Asking)'
      BY <1>2, <3>1
    <3>3. board'.flash = board.flash
      BY <1>1, <1>2, <3>2, BoardAnswers DEF Asking, Frames
    <3>4. Holds(board.flash, Image)'
      BY <3>1, <3>3 DEF Holds, Image
    <3> QED BY <1>2, <2>1, <2>2, <2>3, <3>2, <3>4 DEF Ended
  <2>4. CASE result = "flashed"
    <3>1. Sends({"REBOOT"}) /\ Holds(board.flash, Image) /\ Holds(board.ext, ExtImage)
      BY <1>1, <2>4 DEF Ended
    <3>2. Head(to).op \in {"REBOOT"} /\ Sends({"REBOOT"})'
      BY <1>2, <3>1
    <3>3. board'.flash = board.flash /\ board'.ext = board.ext
      BY <1>1, <1>2, <3>2, BoardAnswers DEF Frames
    <3>4. Holds(board.flash, Image)' /\ Holds(board.ext, ExtImage)'
      BY <1>2, <3>1, <3>3 DEF Holds, Image, ExtImage
    <3> QED BY <1>2, <2>1, <2>2, <2>4, <3>2, <3>4 DEF Ended
  <2>5. CASE result \notin {"skipped", "flashed"}
    BY <1>2, <2>1, <2>2, <2>5 DEF Ended
  <2> QED BY <2>3, <2>4, <2>5
<1> QED BY <1>5, <1>6, <1>7, <1>8

\* A verifying step's own command is the last, and what precedes it is short.
LEMMA HandleVerifying ==
  ASSUME FlashInv, Handle
  PROVE  Verifying' /\ Reading'
<1>1. TypeInv /\ Verifying /\ Reading /\ Where
  BY DEF FlashInv
<1>2. PICK reply \in Seq(Bytes) :
           /\ Takes1(reply) /\ Answers(Head(to), reply)
           /\ Head(to) \in Writes /\ Head(to) = to[1] /\ ~closed
           /\ UNCHANGED <<client, result, closed, buf, setup>>
           /\ \A S : Sends(S) => Head(to).op \in S /\ Sends(S)'
           /\ NoErase => Head(to).op # "CHIP_ERASE" /\ NoErase'
           /\ Head(to).op \in Short => Load' <= Load
           /\ Load' \in Int /\ Load \in Nat /\ Slack \in {0, 2}
  BY Handled
<1>3. /\ Len(to) \in Nat /\ Len(to) >= 1 /\ Len(to') = Len(to) - 1
      /\ (to' = <<>> <=> Len(to) = 1)
      /\ \A i \in 1..Len(to') : to'[i] = to[i + 1]
  BY <1>1, <1>2, LinkHandled
<1>4. Due' = Due /\ Due \in Nat /\ to # <<>> /\ Asked' = Asked /\ client' = client
  BY <1>2 DEF Due, Takes1, Asked
<1>5. Len(to) # 1 => /\ Len(to') \in 1..Len(to') /\ to'[Len(to')] = to[Len(to)]
                    /\ 1 \in 1..(Len(to) - 1)
  BY <1>3
<1> SUFFICES ASSUME client.phase \in {"xverify", "verify"} PROVE Verifying' /\ Reading'
  BY <1>4 DEF Verifying, Reading
<1>6. /\ NoErase
      /\ \A i \in 1..(Len(to) - 1) : to[i].op \in Short
      /\ client.stage # "send" => to[Len(to)].op = Asked
      /\ client.stage = "send" \/ client.step = "rewind" => Sends(Short) /\ Load <= 4 + Due
      /\ client.stage # "send" /\ client.step # "rewind" => Load <= Due
  BY <1>1, <1>4 DEF Verifying, Latest
<1>7. Verifying'
  <2>1. NoErase'
    BY <1>2, <1>6
  <2>2. \A i \in 1..(Len(to') - 1) : to'[i].op \in Short
    <3> SUFFICES ASSUME NEW i \in 1..(Len(to') - 1) PROVE to'[i].op \in Short
      OBVIOUS
    <3>1. i \in 1..Len(to') /\ i + 1 \in 1..(Len(to) - 1)
      BY <1>3
    <3> QED BY <1>3, <1>6, <3>1
  <2>3. client.stage # "send" /\ to' # <<>> => to'[Len(to')].op = Asked
    BY <1>3, <1>5, <1>6
  <2>4. client.stage = "send" \/ client.step = "rewind" => Sends(Short)' /\ Load' <= 4 + Due
    <3> SUFFICES ASSUME client.stage = "send" \/ client.step = "rewind"
                 PROVE Sends(Short)' /\ Load' <= 4 + Due
      OBVIOUS
    <3>1. Sends(Short) /\ Load <= 4 + Due
      BY <1>6
    <3>2. Sends(Short)' /\ Load' <= Load
      BY <1>2, <3>1
    <3> QED BY <1>2, <1>4, <3>1, <3>2
  <2>5. client.stage # "send" /\ client.step # "rewind" /\ to' # <<>> => Load' <= Due
    <3> SUFFICES ASSUME client.stage # "send", client.step # "rewind", to' # <<>>
                 PROVE Load' <= Due
      OBVIOUS
    <3>1. to[1].op \in Short
      BY <1>3, <1>5, <1>6
    <3>2. Load' <= Load /\ Load <= Due
      BY <1>2, <1>6, <3>1
    <3> QED BY <1>2, <1>4, <3>2
  <2> QED BY <1>4, <2>1, <2>2, <2>3, <2>4, <2>5 DEF Verifying, Latest
<1>8. Reading'
  <2> SUFFICES ASSUME client.phase = "verify", client.step \in {"rewind", "read"}
               PROVE Reading'
    BY <1>4 DEF Reading
  <2>1. /\ board' \in [mode : {"idle", "payload"}, armed : BOOLEAN, flash : Seq(Nat),
                       ext : Seq(Nat), cursor : Nat]
        /\ Head(to).op \notin Frames \cup {"CHIP_ERASE"} => board'.flash = board.flash
        /\ Head(to).op \notin Frames \cup {"FILLER"} /\ board.mode = "payload" => board' = board
        /\ Head(to).op = "CHIP_VERIFY" => board'.mode = "payload" \/ board'.cursor = 0
    BY <1>1, <1>2, BoardAnswers
  <2>2. CASE client.step = "rewind"
    <3>1. client.chunk = 1
      BY <1>1, <2>2 DEF Reading
    <3>2. client.stage # "send" /\ to' = <<>> => board'.mode = "payload" \/ board'.cursor = 0
      <4> SUFFICES ASSUME client.stage # "send", to' = <<>>
                   PROVE board'.mode = "payload" \/ board'.cursor = 0
        OBVIOUS
      <4>1. to[1].op = "CHIP_VERIFY"
        BY <1>3, <1>6, <2>2 DEF Asked
      <4> QED BY <1>2, <2>1, <4>1
    <3> QED BY <1>4, <2>2, <3>1, <3>2 DEF Reading
  <2>3. CASE client.step = "read" /\ client.stage = "send"
    <3>1. client.chunk = 1 /\ to[Len(to)].op = "CHIP_VERIFY"
      BY <1>1, <1>4, <2>3 DEF Reading
    <3>2. to' = <<>> => board'.mode = "payload" \/ board'.cursor = 0
      BY <1>2, <1>3, <2>1, <3>1
    <3>3. to' # <<>> => to'[Len(to')].op = "CHIP_VERIFY"
      BY <1>3, <1>5, <3>1
    <3>4. \A j \in 1..(client.chunk - 1) : Cells(board'.flash, j, j) = <<j>>
      BY <3>1
    <3> QED BY <1>4, <2>3, <3>1, <3>2, <3>3, <3>4 DEF Reading
  <2>4. CASE client.step = "read" /\ client.stage # "send"
    <3>1. /\ Len(to) >= 2 => client.chunk = 1 /\ to[Len(to) - 1].op = "CHIP_VERIFY"
          /\ Len(to) = 1 => board.mode = "payload" \/ board.cursor = client.chunk - 1
          /\ \A j \in 1..(client.chunk - 1) : Cells(board.flash, j, j) = <<j>>
      BY <1>1, <2>4 DEF Reading
    <3>2. to[Len(to)].op = "READ_MULTI" /\ client.chunk \in Nat
      BY <1>1, <1>6, <2>4 DEF Asked, TypeInv
    <3>3. CASE Len(to) = 1
      <4>1. Head(to).op = "READ_MULTI" /\ to' = <<>>
        BY <1>2, <1>3, <3>2, <3>3
      <4>2. board'.mode = "payload" \/ board'.cursor = client.chunk
        <5>1. CASE board.mode = "payload"
          BY <2>1, <4>1, <5>1 DEF Frames
        <5>2. CASE board.mode # "payload"
          <6>1. board.cursor = client.chunk - 1 /\ board.mode = "idle"
            BY <1>1, <3>1, <3>3, <5>2 DEF TypeInv
          <6>2. board' = [board EXCEPT !.cursor = @ + 1]
            BY <1>2, <4>1, <6>1 DEF Answers, Frames
          <6> QED BY <1>1, <3>2, <6>1, <6>2 DEF TypeInv
        <5> QED BY <5>1, <5>2
      <4>3. board'.flash = board.flash
        BY <2>1, <4>1 DEF Frames
      <4>4. Len(to') = 0
        BY <1>3, <3>3
      <4> QED BY <1>4, <2>4, <3>1, <4>1, <4>2, <4>3, <4>4 DEF Reading
    <3>4. CASE Len(to) # 1
      <4>1. Len(to) >= 2 /\ client.chunk = 1 /\ to[Len(to) - 1].op = "CHIP_VERIFY"
        BY <1>3, <3>1, <3>4
      <4>2. to' # <<>>
        BY <1>3, <3>4
      <4>3. Len(to') >= 2 => to'[Len(to') - 1].op = "CHIP_VERIFY"
        <5> SUFFICES ASSUME Len(to') >= 2 PROVE to'[Len(to') - 1].op = "CHIP_VERIFY"
          OBVIOUS
        <5>1. Len(to') - 1 \in 1..Len(to') /\ (Len(to') - 1) + 1 = Len(to) - 1
          BY <1>3
        <5>2. to'[Len(to') - 1] = to[(Len(to') - 1) + 1]
          BY <1>3, <5>1
        <5> QED BY <4>1, <5>1, <5>2
      <4>4. Len(to') = 1 => board'.mode = "payload" \/ board'.cursor = 0
        <5> SUFFICES ASSUME Len(to') = 1 PROVE Head(to).op = "CHIP_VERIFY"
          BY <2>1
        <5>1. Len(to) - 1 = 1
          BY <1>3
        <5> QED BY <1>2, <4>1, <5>1
      <4>5. \A j \in 1..(client.chunk - 1) : Cells(board'.flash, j, j) = <<j>>
        BY <4>1
      <4> QED BY <1>4, <2>4, <4>1, <4>2, <4>3, <4>4, <4>5 DEF Reading
    <3> QED BY <3>3, <3>4
  <2> QED BY <2>2, <2>3, <2>4
<1> QED BY <1>7, <1>8

\* The reply of a verifying step that is confirmed is whole: what precedes it
\* is shorter than its field, so only its own last byte can confirm it.
LEMMA HandleAnswered ==
  ASSUME FlashInv, Handle
  PROVE  Answered'
<1>1. TypeInv /\ Verifying /\ Reading /\ Where
  BY DEF FlashInv
<1>2. PICK reply \in Seq(Bytes) :
           /\ Takes1(reply) /\ Answers(Head(to), reply)
           /\ Head(to) \in Writes /\ Head(to) = to[1] /\ ~closed
           /\ UNCHANGED <<client, result, closed, buf, setup>>
  BY Handled
<1>3. /\ Len(to) \in Nat /\ Len(to) >= 1 /\ (to' = <<>> <=> Len(to) = 1)
      /\ Len(reply) \in Nat /\ Len(Pipe) \in Nat /\ Len(Pipe') = Len(Pipe) + Len(reply)
      /\ \A k \in 1..Len(reply) : Pipe'[Len(Pipe) + k] = reply[k]
      /\ Pipe = <<>> => Pipe' = reply
      /\ reply = <<>> => Pipe' = Pipe
      /\ Pipe = <<>> <=> Len(Pipe) = 0
  BY <1>1, <1>2, LinkHandled, LinkType
<1>4. Due' = Due /\ Due \in 1..6 \cup {0} /\ to # <<>> /\ Asked' = Asked /\ client' = client
  BY <1>2 DEF Due, Takes1, Asked
<1> SUFFICES ASSUME client.phase \in {"xverify", "verify"}, client.step # "rewind",
                    client.stage # "send", to' = <<>>, Len(Pipe') >= Due, Pipe'[Due].t = "OK"
             PROVE  /\ Len(Pipe') = Due /\ board'.mode = "idle"
                    /\ (IF client.stage = "field" THEN SubSeq(Pipe', 1, 4) ELSE client.word)
                         = Field(Truth')
  BY <1>4 DEF Answered
<1>5. Len(to) = 1 /\ to[1].op = Asked /\ Load <= Due /\ Head(to).op = Asked
  BY <1>1, <1>2, <1>3, <1>4 DEF Verifying, Latest
<1>6. Asked \in Fields
  BY <1>1 DEF Asked, Fields, Where
<1>7. Load >= Len(Pipe) + 2 /\ Load \in Nat
  BY <1>1, <1>4, <1>5, <1>6, LatestLoads, LoadBounds DEF Fields
<1>8. board.mode = "idle"
  <2> SUFFICES ASSUME board.mode = "payload" PROVE FALSE
    BY <1>1 DEF TypeInv
  <2>1. reply = <<>>
    <3>1. Head(to).op \notin Frames \cup {"FILLER"}
      BY <1>5, <1>6 DEF Fields, Frames
    <3> QED BY <1>1, <1>2, <3>1, BoardAnswers
  <2>2. Len(Pipe') = Len(Pipe)
    BY <1>3, <2>1
  <2> QED BY <1>3, <1>4, <1>5, <1>7, <2>2
<1>9. Due - Len(Pipe) >= 2 /\ Due - Len(Pipe) <= Len(reply)
  BY <1>3, <1>4, <1>5, <1>7
<1>10. reply[Due - Len(Pipe)].t = "OK"
  <2> DEFINE d == Due - Len(Pipe)
  <2>1. d \in 1..Len(reply) /\ Len(Pipe) + d = Due
    BY <1>3, <1>4, <1>9
  <2> HIDE DEF d
  <2>2. Pipe'[Len(Pipe) + d] = reply[d]
    BY <1>3, <2>1
  <2>3. Pipe'[Due].t = "OK"
    OBVIOUS
  <2> QED BY <2>1, <2>2, <2>3 DEF d
<1>11. reply # Ack("INVALID")
  <2> SUFFICES ASSUME reply = Ack("INVALID") PROVE FALSE
    OBVIOUS
  <2>1. Len(reply) = 2 /\ reply[2] = Byte("INVALID")
    BY ReplyBytes DEF Names
  <2>2. Due - Len(Pipe) = 2
    BY <1>3, <1>4, <1>9, <2>1
  <2> QED BY <1>10, <2>1, <2>2 DEF Byte
<1>12. \E v \in Seq(Nat) : /\ reply = FieldReply(v) /\ v = Truth'
                          /\ board'.mode = "idle"
  <2>1. board \in [mode : {"idle", "payload"}, armed : BOOLEAN, flash : Seq(Nat),
                   ext : Seq(Nat), cursor : Nat]
        /\ client.chunk \in Nat \ {0} /\ setup.ext \in Nat
    BY <1>1, SizesAssumption DEF TypeInv
  <2>2. CASE client.step = "crc" /\ client.phase = "xverify"
    <3>1. Head(to).op = "EXTF_GET_CRC"
      BY <1>5, <2>2 DEF Asked
    <3>2. reply = FieldReply(Cells(board.ext, 1, setup.ext)) /\ board' = board
      BY <1>2, <1>8, <3>1 DEF Answers, Frames
    <3>3. Truth' = Cells(board.ext, 1, setup.ext)
      BY <1>2, <2>2, <3>2 DEF Truth
    <3>4. Cells(board.ext, 1, setup.ext) \in Seq(Nat)
      <4>1. 1 \in Nat \ {0} /\ board.ext \in Seq(Nat) /\ setup.ext \in Nat
        BY <2>1
      <4> QED BY <4>1, CellsType
    <3> QED BY <1>8, <3>2, <3>3, <3>4
  <2>3. CASE client.step = "crc" /\ client.phase = "verify"
    <3>1. Head(to).op = "GET_CRC"
      BY <1>5, <2>3 DEF Asked
    <3>2. reply = FieldReply(board.flash) /\ board' = board
      BY <1>2, <1>8, <1>11, <3>1 DEF Answers, Frames
    <3>3. Truth' = board.flash
      BY <1>2, <2>3, <3>2 DEF Truth
    <3> QED BY <1>8, <2>1, <3>2, <3>3
  <2>4. CASE client.step = "read" /\ client.phase = "verify"
    <3>1. Head(to).op = "READ_MULTI"
      BY <1>5, <2>4 DEF Asked
    <3>2. /\ reply = FieldReply(Cells(board.flash, board.cursor + 1, board.cursor + 1))
          /\ board' = [board EXCEPT !.cursor = @ + 1]
      BY <1>2, <1>8, <3>1 DEF Answers, Frames
    <3>3. board.cursor = client.chunk - 1
      BY <1>1, <1>4, <1>5, <1>8, <2>4 DEF Reading
    <3>4. board.cursor + 1 = client.chunk
      BY <2>1, <3>3
    <3>5. board'.flash = board.flash /\ board'.mode = "idle"
      BY <1>8, <2>1, <3>2
    <3>6. Truth' = Cells(board.flash, client.chunk, client.chunk)
      BY <1>2, <2>4, <3>5 DEF Truth
    <3> QED BY <2>1, <3>2, <3>4, <3>5, <3>6, CellsType
  <2> QED BY <1>1, <2>2, <2>3, <2>4 DEF Where
<1>13. PICK v \in Seq(Nat) : reply = FieldReply(v) /\ v = Truth' /\ board'.mode = "idle"
  BY <1>12
<1>14. Due = 6 /\ Len(Pipe) = 0
  <2>1. /\ Len(reply) = 6
        /\ \A k \in 1..4 : reply[k] = [t |-> "DATA", v |-> v]
        /\ reply[5] = Byte("INSYNC")
    BY <1>13, ReplyBytes
  <2>2. \A k \in 1..5 : reply[k].t # "OK"
    <3> SUFFICES ASSUME NEW k \in 1..5 PROVE reply[k].t # "OK"
      OBVIOUS
    <3>1. CASE k \in 1..4
      BY <2>1, <3>1
    <3>2. CASE k = 5
      BY <2>1, <3>2 DEF Byte
    <3> QED BY <3>1, <3>2
  <2> DEFINE d == Due - Len(Pipe)
  <2>3. d \in Int /\ d >= 2 /\ d <= 6 /\ reply[d].t = "OK"
    BY <1>3, <1>4, <1>9, <1>10, <2>1
  <2> HIDE DEF d
  <2>4. d = 6
    <3> SUFFICES ASSUME d # 6 PROVE FALSE
      OBVIOUS
    <3>1. d \in 1..5
      BY <2>3
    <3> QED BY <2>2, <2>3, <3>1
  <2> QED BY <1>3, <1>4, <2>4 DEF d
<1>15. client.stage = "field"
  <2>1. client.stage # "field" => Due \in {0, 1, 2}
    BY DEF Due
  <2> QED BY <1>14, <2>1
<1>16. Pipe' = FieldReply(v) /\ Len(Pipe') = 6
  BY <1>3, <1>13, <1>14, ReplyBytes
<1>17. SubSeq(Pipe', 1, 4) = Field(v)
  BY <1>16, ReplyBytes
<1> QED BY <1>13, <1>14, <1>15, <1>16, <1>17

\* Whatever the board reads and replies, the invariant holds on.
LEMMA HandleStep ==
  ASSUME FlashInv, Handle
  PROVE  FlashInv'
BY HandleType, HandleEarly, HandleErases, HandleWrites, HandleVerifying, HandleAnswered DEF FlashInv

-----------------------------------------------------------------------------
(* The port. *)

\* A byte that arrives is still under way to the client.
LEMMA ArriveLink ==
  ASSUME TypeInv, Arrive
  PROVE  /\ buf' \in Seq(Bytes) /\ from' \in Seq(Bytes)
         /\ Pipe' = Pipe /\ Load' = Load
         /\ OldBytes(buf) /\ OldBytes(from) => OldBytes(buf)' /\ OldBytes(from)'
<1>1. /\ from # <<>> /\ buf' = Append(buf, Head(from)) /\ from' = Tail(from)
      /\ buf \in Seq(Bytes) /\ from \in Seq(Bytes) /\ UNCHANGED <<to, board, setup>>
  BY DEF Arrive, TypeInv
<1>2. /\ Head(from) \in Bytes /\ Tail(from) \in Seq(Bytes) /\ Head(from) = from[1]
      /\ Len(Tail(from)) = Len(from) - 1
      /\ \A i \in 1..(Len(from) - 1) : Tail(from)[i] = from[i + 1]
  BY <1>1, HeadTailProperties
<1>3. /\ buf' \in Seq(Bytes) /\ Len(buf') = Len(buf) + 1
      /\ buf'[Len(buf) + 1] = Head(from)
      /\ \A i \in 1..Len(buf) : buf'[i] = buf[i]
  BY <1>1, <1>2, AppendProperties
<1>4. Len(buf) \in Nat /\ Len(from) \in Nat /\ Len(from) >= 1
  BY <1>1, LinkType
<1>5. Pipe' = Pipe
  <2>1. Pipe' = Cat(buf', from')
    BY DEF Pipe
  <2>2. Cat(buf', from') \in Seq(Bytes) /\ Len(Cat(buf', from')) = Len(buf') + Len(from')
    BY <1>1, <1>2, <1>3, Joined
  <2>3. Pipe \in Seq(Bytes) /\ Len(Pipe) = Len(buf) + Len(from)
    BY LinkType
  <2>4. Len(buf') + Len(from') = Len(buf) + Len(from)
    BY <1>1, <1>2, <1>3, <1>4
  <2>9. buf' \in Seq(Bytes) /\ from' \in Seq(Bytes)
    BY <1>1, <1>2, <1>3
  <2>5. \A k \in Int : k >= 1 /\ k <= Len(buf') => Cat(buf', from')[k] = buf'[k]
    BY <2>9, JoinedBefore
  <2>6. \A k \in Int : k >= 1 /\ k <= Len(from') => Cat(buf', from')[Len(buf') + k] = from'[k]
    BY <2>9, JoinedAfter
  <2>7. /\ \A k \in 1..Len(buf) : Pipe[k] = buf[k]
        /\ \A k \in 1..Len(from) : Pipe[Len(buf) + k] = from[k]
    BY LinkType
  <2>8. ASSUME NEW k \in 1..(Len(buf) + Len(from)) PROVE Cat(buf', from')[k] = Pipe[k]
    <3>1. CASE k <= Len(buf)
      BY <1>3, <1>4, <2>5, <2>7, <3>1
    <3>2. CASE k = Len(buf) + 1
      BY <1>2, <1>3, <1>4, <2>5, <2>7, <3>2
    <3>3. CASE k > Len(buf) + 1
      <4> DEFINE j == k - (Len(buf) + 1)
      <4>1. j \in Int /\ j >= 1 /\ j <= Len(from) - 1 /\ Len(buf') + j = k
            /\ Len(buf) + (j + 1) = k
        BY <1>3, <1>4, <3>3
      <4> HIDE DEF j
      <4>2. j <= Len(from') /\ j \in 1..(Len(from) - 1) /\ j + 1 \in 1..Len(from)
        BY <1>1, <1>2, <1>4, <4>1
      <4>3. Cat(buf', from')[Len(buf') + j] = from'[j]
        BY <2>6, <4>1, <4>2
      <4>4. from'[j] = from[j + 1]
        BY <1>1, <1>2, <4>2
      <4>5. Pipe[Len(buf) + (j + 1)] = from[j + 1]
        BY <2>7, <4>2
      <4> QED BY <4>1, <4>3, <4>4, <4>5
    <3> QED BY <1>4, <3>1, <3>2, <3>3
  <2> QED BY <2>1, <2>2, <2>3, <2>4, <2>8, SeqEqual
<1>6. Load' = Load
  <2> DEFINE p == 2 * Len(to) + (IF board.mode = "payload" THEN 2 ELSE 0)
                    - (IF Sends(Ops \ {"FILLER"}) THEN 0 ELSE 2)
  <2>1. Len(to) \in Nat
    BY LinkType
  <2>2. p \in Int
    BY <2>1
  <2>3. Load = Len(buf) + Len(from) + p
    BY <1>4, <2>1 DEF Load
  <2>4. Len(buf') \in Nat /\ Len(from') \in Nat
    BY <1>1, <1>2, <1>3, LenProperties
  <2>5. Load' = Len(buf') + Len(from') + p
    BY <1>1, <2>1, <2>4 DEF Load, Sends
  <2> HIDE DEF p
  <2> QED BY <1>1, <1>2, <1>3, <1>4, <2>2, <2>3, <2>5
<1>7. ASSUME OldBytes(buf), OldBytes(from)
      PROVE  OldBytes(buf)' /\ OldBytes(from)'
  <2>1. \A k \in 1..Len(buf) + 1 : buf'[k].v \in {<<>>, setup.old}
    <3> SUFFICES ASSUME NEW k \in 1..Len(buf) + 1 PROVE buf'[k].v \in {<<>>, setup.old}
      OBVIOUS
    <3>1. CASE k \in 1..Len(buf)
      BY <1>3, <1>7, <3>1 DEF OldBytes
    <3>2. CASE k = Len(buf) + 1
      BY <1>2, <1>3, <1>4, <1>7, <3>2 DEF OldBytes
    <3> QED BY <1>4, <3>1, <3>2
  <2>2. OldBytes(buf)'
    BY <1>1, <1>3, <2>1 DEF OldBytes
  <2>3. \A k \in 1..(Len(from) - 1) : from'[k].v \in {<<>>, setup.old}
    <3> SUFFICES ASSUME NEW k \in 1..(Len(from) - 1) PROVE from'[k].v \in {<<>>, setup.old}
      OBVIOUS
    <3>1. k + 1 \in 1..Len(from) /\ from'[k] = from[k + 1]
      BY <1>1, <1>2, <1>4
    <3> QED BY <1>7, <3>1 DEF OldBytes
  <2>4. OldBytes(from)'
    BY <1>1, <1>2, <2>3 DEF OldBytes
  <2> QED BY <2>2, <2>4
<1> QED BY <1>1, <1>2, <1>3, <1>5, <1>6, <1>7

\* Bytes that reach the client are still under way to its reads.
LEMMA ArriveStep ==
  ASSUME FlashInv, Arrive
  PROVE  FlashInv'
<1>1. TypeInv /\ Cut
  BY DEF FlashInv
<1>2. /\ buf' \in Seq(Bytes) /\ from' \in Seq(Bytes)
      /\ Pipe' = Pipe /\ Load' = Load
      /\ OldBytes(buf) /\ OldBytes(from) => OldBytes(buf)' /\ OldBytes(from)'
  BY <1>1, ArriveLink
<1>3. UNCHANGED <<client, result, closed, to, board, setup>> /\ from # <<>>
  BY DEF Arrive
<1>4. client' = client /\ result' = result /\ closed' = closed /\ to' = to /\ board' = board
      /\ setup' = setup
  BY <1>3
<1>5. TypeInv' /\ Where' /\ Within' /\ Cut'
  <2>1. TypeInv'
    BY <1>1, <1>2, <1>4 DEF TypeInv
  <2>2. Where'
    <3>1. Where
      BY DEF FlashInv
    <3>2. client' = client
      BY <1>4
    <3> QED BY <3>1, <3>2, ZenonT(60) DEF Where
  <2>3. Within'
    BY <1>4 DEF FlashInv, Within
  <2>4. Cut'
    BY <1>1, <1>3, <1>4 DEF Cut
  <2> QED BY <2>1, <2>2, <2>3, <2>4
<1>6. Due' = Due /\ Truth' = Truth /\ Asked' = Asked /\ Slack' = Slack
  BY <1>4 DEF Due, Truth, Asked, Slack
<1>7. \A S : Sends(S)' <=> Sends(S)
  BY <1>4 DEF Sends
<1>8. Untouched'
  BY <1>2, <1>4, <1>7 DEF FlashInv, Untouched, OldBytes
<1>9. Settled'
  BY <1>2, <1>4, <1>7 DEF FlashInv, Settled
<1>10. ExtErase'
  BY <1>2, <1>4, <1>6, <1>7 DEF FlashInv, ExtErase, Latest
<1>11. Erase'
  BY <1>2, <1>4, <1>6, <1>7 DEF FlashInv, Erase
<1>12. Programming'
  BY <1>2, <1>4, <1>6, <1>7 DEF FlashInv, Programming
<1>13. Overtaken'
  BY <1>2, <1>4 DEF FlashInv, Overtaken, NoErase
<1>14. Verifying'
  BY <1>2, <1>4, <1>6, <1>7 DEF FlashInv, Verifying, NoErase, Latest
<1>15. Answered'
  BY <1>2, <1>4, <1>6 DEF FlashInv, Answered
<1>16. Reading'
  BY <1>4 DEF FlashInv, Reading
<1>17. External'
  BY <1>4, <1>7 DEF FlashInv, External, Holds, ExtImage
<1>18. Ended'
  BY <1>4, <1>7 DEF FlashInv, Ended, Holds, ExtImage, Image
<1> QED BY <1>5, <1>8, <1>9, <1>10, <1>11, <1>12, <1>13, <1>14, <1>15, <1>16, <1>17, <1>18 DEF FlashInv

\* What the unplugged port leaves: the bytes that have arrived.
LEMMA UnplugLink ==
  ASSUME TypeInv, Unplug
  PROVE  /\ to' = <<>> /\ from' = <<>> /\ buf' = buf /\ Pipe' = buf
         /\ Len(buf) \in Nat /\ Len(buf) <= Len(Pipe)
         /\ \A k \in 1..Len(buf) : Pipe'[k] = Pipe[k]
         /\ Len(buf) = Len(Pipe) => Pipe' = Pipe
         /\ Load' <= Load /\ Load' \in Int /\ Load \in Int
         /\ \A S : Sends(S)'
<1>1. buf \in Seq(Bytes) /\ to' = <<>> /\ from' = <<>> /\ buf' = buf /\ board' = board
  BY DEF Unplug, TypeInv
<1>2. Pipe' = buf
  BY <1>1, ConcatEmptySeq DEF Pipe, Cat
<1>3. Len(buf) \in Nat /\ Len(buf) <= Len(Pipe) /\ \A k \in 1..Len(buf) : Pipe[k] = buf[k]
  BY LinkType
<1>4. Len(buf) = Len(Pipe) => Pipe' = Pipe
  <2> SUFFICES ASSUME Len(buf) = Len(Pipe) PROVE buf = Pipe
    BY <1>2
  <2>1. Pipe \in Seq(Bytes)
    BY LinkType
  <2> QED BY <1>1, <1>3, <2>1, SeqEqual
<1>5. Load' = Len(buf) + (IF board.mode = "payload" THEN 2 ELSE 0)
  BY <1>1, <1>3 DEF Sends, Load
<1>6. PICK p \in {0, 2}, f \in {0, 2} :
           /\ Load = Len(Pipe) + 2 * Len(to) + p - f
           /\ p = 0 <=> board.mode = "idle"
           /\ f = 0 <=> Sends(Ops \ {"FILLER"})
           /\ to = <<>> => f = 0
  BY LoadIs
<1>7. Load' = Len(buf) + p
  BY <1>5, <1>6 DEF TypeInv
<1>8. Len(Pipe) \in Nat /\ Len(to) \in Nat /\ (Len(to) = 0 => to = <<>>)
  BY LinkType
<1>9. f <= 2 * Len(to)
  BY <1>6, <1>8
<1>10. Load' <= Load /\ Load' \in Int /\ Load \in Int
  BY <1>3, <1>6, <1>7, <1>8, <1>9
<1>11. \A S : Sends(S)'
  BY <1>1 DEF Sends
<1> QED BY <1>1, <1>2, <1>3, <1>4, <1>10, <1>11

\* The fronts of an ack.
LEMMA Fronts ==
  ASSUME NEW s \in Seq(Bytes), NEW t \in Seq(Bytes), Len(s) <= Len(t),
         \A k \in 1..Len(s) : s[k] = t[k]
  PROVE  /\ t \in {Ack("OK"), <<Byte("INSYNC")>>, <<>>} => s \in {Ack("OK"), <<Byte("INSYNC")>>, <<>>}
         /\ t \in {<<Byte("OK")>>, <<>>} => s \in {<<Byte("OK")>>, <<>>}
<1>1. Len(s) \in Nat /\ Len(t) \in Nat /\ (Len(s) = 0 => s = <<>>)
  BY EmptySeq, LenProperties
<1>2. Len(s) = Len(t) => s = t
  <2> SUFFICES ASSUME Len(s) = Len(t) PROVE s = t
    OBVIOUS
  <2> QED BY SeqEqual
<1>3. \A b : /\ Len(<<b>>) = 1 /\ <<b>>[1] = b
  OBVIOUS
<1>4. Len(t) = 2 /\ t[1] = Byte("INSYNC") /\ Len(s) = 1 => s = <<Byte("INSYNC")>>
  <2> SUFFICES ASSUME Len(t) = 2, t[1] = Byte("INSYNC"), Len(s) = 1 PROVE s = <<Byte("INSYNC")>>
    OBVIOUS
  <2>1. s[1] = Byte("INSYNC")
    BY <1>1
  <2>2. Byte("INSYNC") \in Bytes
    BY DEF Names, Byte, Bytes
  <2>3. <<Byte("INSYNC")>> \in Seq(Bytes) /\ Len(<<Byte("INSYNC")>>) = 1
        /\ <<Byte("INSYNC")>>[1] = Byte("INSYNC")
    BY <2>2
  <2>4. \A k \in 1..1 : s[k] = <<Byte("INSYNC")>>[k]
    BY <2>1, <2>3
  <2> QED BY <2>3, <2>4, SeqEqual
<1>5. t = Ack("OK") => Len(t) = 2 /\ t[1] = Byte("INSYNC")
  BY ReplyBytes DEF Names
<1>6. t = <<>> => Len(t) = 0
  OBVIOUS
<1>7. \A b : t = <<b>> => Len(t) = 1
  OBVIOUS
<1>8. Len(t) = 2 => Len(s) \in {0, 1, 2}
  BY <1>1
<1>9. Len(t) = 1 => Len(s) \in {0, 1}
  BY <1>1
<1>10. Len(t) = 0 => Len(s) = 0
  BY <1>1
<1>11. CASE t = Ack("OK")
  BY <1>1, <1>2, <1>4, <1>5, <1>8, <1>11
<1>12. CASE t = <<Byte("INSYNC")>> \/ t = <<Byte("OK")>>
  BY <1>1, <1>2, <1>7, <1>9, <1>12
<1>13. CASE t = <<>>
  BY <1>1, <1>6, <1>10, <1>13
<1> QED BY <1>11, <1>12, <1>13

\* A board unplugged answers nothing more, and what it replied in part confirms nothing.
LEMMA UnplugStep ==
  ASSUME FlashInv, Unplug
  PROVE  FlashInv'
<1>1. /\ TypeInv /\ Where /\ Within /\ Untouched /\ Settled /\ ExtErase /\ Erase /\ Programming
      /\ Verifying /\ Answered /\ Reading /\ External /\ Ended
  BY DEF FlashInv
<1>2. /\ to' = <<>> /\ from' = <<>> /\ buf' = buf /\ Pipe' = buf
      /\ Len(buf) \in Nat /\ Len(buf) <= Len(Pipe)
      /\ \A k \in 1..Len(buf) : Pipe'[k] = Pipe[k]
      /\ Len(buf) = Len(Pipe) => Pipe' = Pipe
      /\ Load' <= Load /\ Load' \in Int /\ Load \in Int
      /\ \A S : Sends(S)'
  BY <1>1, UnplugLink
<1>3. /\ client' = client /\ result' = result /\ closed' = TRUE /\ board' = board /\ setup' = setup
      /\ client.phase \notin {"guard", "over"}
  BY DEF Unplug
<1>4. Due' = Due /\ Truth' = Truth /\ Asked' = Asked /\ Slack' = Slack /\ Due \in Nat
      /\ Slack \in Nat
  BY <1>3 DEF Due, Truth, Asked, Slack
<1>5. NoErase' /\ (\A op \in Ops : Latest(op)')
  BY <1>2 DEF NoErase, Latest
<1>6. /\ Pipe \in Seq(Bytes) /\ Len(Pipe) \in Nat /\ buf \in Seq(Bytes)
      /\ Pipe = <<>> <=> Len(Pipe) = 0
      /\ buf = <<>> <=> Len(buf) = 0
      /\ to # <<>> => Len(to) >= 1
  BY <1>1, LinkType DEF TypeInv
<1>19. \A d \in Nat : Len(Pipe) <= d => Len(buf) <= d
  <2> DEFINE m == Len(buf)
             n == Len(Pipe)
  <2>1. m \in Nat /\ n \in Nat /\ m <= n
    BY <1>2, <1>6
  <2> HIDE DEF m, n
  <2>2. \A d \in Nat : n <= d => m <= d
    BY <2>1
  <2> QED BY <2>2 DEF m, n
<1>7. TypeInv' /\ Where' /\ Within' /\ Cut'
  <2>1. <<>> \in Seq(Bytes) /\ <<>> \in Seq(Writes)
    OBVIOUS
  <2>2. TypeInv'
    BY <1>1, <1>2, <1>3, <2>1 DEF TypeInv
  <2>3. Where' /\ Within'
    BY <1>1, <1>3 DEF Where, Within
  <2>4. Cut'
    BY <1>2 DEF Cut
  <2> QED BY <2>2, <2>3, <2>4
<1>8. Untouched'
  <2> SUFFICES ASSUME client.phase \in Early PROVE Untouched'
    BY <1>3 DEF Untouched
  <2>1. OldBytes(buf) /\ OldBytes(client.word)
    BY <1>1 DEF Untouched
  <2>2. Len(from') = 0
    BY <1>2
  <2>3. OldBytes(buf)' /\ OldBytes(from)' /\ OldBytes(client.word)'
    BY <1>2, <1>3, <2>1, <2>2 DEF OldBytes
  <2> QED BY <1>1, <1>2, <1>3, <2>3 DEF Untouched
<1>9. Settled'
  <2> SUFFICES ASSUME client.phase = "settle 2", client.step = "resync" PROVE Settled'
    BY <1>3 DEF Settled
  <2>1. CASE client.stage = "send"
    <3>1. Pipe = <<>>
      BY <1>1, <2>1 DEF Settled
    <3>2. Pipe' = <<>>
      BY <1>1, <1>2, <3>1, LinkType
    <3> QED BY <1>2, <1>3, <2>1, <3>2 DEF Settled
  <2>2. CASE client.stage = "head"
    BY <1>1, <1>2, <1>3, <1>6, <2>2, Fronts DEF Settled
  <2>3. CASE client.stage \notin {"send", "head"}
    BY <1>1, <1>2, <1>3, <1>6, <2>3, Fronts DEF Settled
  <2> QED BY <2>1, <2>2, <2>3
<1>10. ExtErase'
  <2> SUFFICES ASSUME client.phase = "xerase" PROVE ExtErase'
    BY <1>3 DEF ExtErase
  <2>1. board.mode = "idle"
    BY <1>1 DEF ExtErase
  <2>2. \A i \in 1..(Len(to') - 1) : to'[i].op = "GET_SYNC"
    BY <1>2
  <2>3. client.stage = "send" => Load' <= Slack /\ \A k \in 1..Len(Pipe') : Pipe'[k].t # "90%"
    <3> SUFFICES ASSUME client.stage = "send"
                 PROVE Load' <= Slack /\ \A k \in 1..Len(Pipe') : Pipe'[k].t # "90%"
      OBVIOUS
    <3>1. Load <= Slack /\ \A k \in 1..Len(Pipe) : Pipe[k].t # "90%"
      BY <1>1 DEF ExtErase
    <3> QED BY <1>2, <1>4, <1>6, <3>1
  <2>4. client.stage \in {"head", "status", "percent"} =>
         \A k \in 1..Len(Pipe') : Pipe'[k].t = "90%" => Len(Pipe') <= k + 2
    <3> SUFFICES ASSUME client.stage \in {"head", "status", "percent"},
                        NEW k \in 1..Len(Pipe'), Pipe'[k].t = "90%"
                 PROVE Len(Pipe') <= k + 2
      OBVIOUS
    <3>1. k \in 1..Len(Pipe) /\ Pipe[k].t = "90%"
      BY <1>2, <1>6
    <3>2. Len(Pipe) <= k + 2
      BY <1>1, <3>1 DEF ExtErase
    <3> QED BY <1>2, <1>6, <3>2
  <2>5. client.stage \in {"poll", "poll status"} => Len(Pipe') <= Due
    <3> SUFFICES ASSUME client.stage \in {"poll", "poll status"} PROVE Len(Pipe') <= Due
      OBVIOUS
    <3>1. Len(Pipe) <= Due
      BY <1>1 DEF ExtErase
    <3>2. Len(buf) <= Due
      BY <1>4, <1>19, <3>1
    <3>3. Pipe' = buf
      BY <1>2
    <3> QED BY <3>2, <3>3
  <2>6. Sends({"GET_SYNC"})' /\ Latest("EXTF_ERASE")'
    BY <1>2, <1>5 DEF Ops, Long
  <2> QED BY <1>2, <1>3, <1>4, <2>1, <2>2, <2>3, <2>4, <2>5, <2>6 DEF ExtErase
<1>11. Erase'
  <2> SUFFICES ASSUME client.phase = "erase" PROVE Erase'
    BY <1>3 DEF Erase
  <2>1. board.mode = "idle" /\ Load <= Slack + Due
    BY <1>1 DEF Erase
  <2>2. Load' <= Slack + Due
    BY <1>2, <1>4, <2>1
  <2> QED BY <1>2, <1>3, <1>4, <2>1, <2>2 DEF Erase
<1>12. Programming'
  <2> SUFFICES ASSUME client.phase \in {"xprogram", "program"} PROVE Programming'
    BY <1>3 DEF Programming
  <2>1. client.stage # "drain" => Load <= 4 + (IF client.step = "filler" THEN 2 ELSE Due)
    BY <1>1 DEF Programming
  <2>2. client.stage # "drain" => Load' <= 4 + (IF client.step = "filler" THEN 2 ELSE Due)
    <3>1. CASE client.step = "filler"
      BY <1>2, <2>1, <3>1
    <3>2. CASE client.step # "filler"
      BY <1>2, <1>4, <2>1, <3>2
    <3> QED BY <3>1, <3>2
  <2> QED BY <1>2, <1>3, <1>4, <2>2 DEF Programming
<1>13. Overtaken'
  BY <1>5 DEF Overtaken
<1>14. Verifying'
  <2> SUFFICES ASSUME client.phase \in {"xverify", "verify"} PROVE Verifying'
    BY <1>3 DEF Verifying
  <2>1. client.stage = "send" \/ client.step = "rewind" => Load' <= 4 + Due
    <3> SUFFICES ASSUME client.stage = "send" \/ client.step = "rewind" PROVE Load' <= 4 + Due
      OBVIOUS
    <3>1. Load <= 4 + Due
      BY <1>1 DEF Verifying
    <3> QED BY <1>2, <1>4, <3>1
  <2>2. \A i \in 1..(Len(to') - 1) : to'[i].op \in Short
    BY <1>2
  <2>3. Asked \in Ops
    BY DEF Asked, Ops, Short, Long, Fields
  <2> QED BY <1>2, <1>3, <1>4, <1>5, <2>1, <2>2, <2>3 DEF Verifying
<1>15. Answered'
  <2> SUFFICES ASSUME client.phase \in {"xverify", "verify"}, client.step # "rewind",
                      client.stage # "send", Len(buf) >= Due, Pipe'[Due].t = "OK"
               PROVE  /\ Len(Pipe') = Due /\ board.mode = "idle"
                      /\ (IF client.stage = "field" THEN SubSeq(Pipe', 1, 4) ELSE client.word)
                           = Field(Truth)
    BY <1>2, <1>3, <1>4 DEF Answered
  <2>1. Due # 0
    <3>1. client.stage \in Fetch \ {"send"}
      BY <1>1 DEF Where, Fetch
    <3>2. client.stage \in {"field", "head", "status"}
      BY <3>1 DEF Fetch, Exchange
    <3>3. Due \in {6, 2, 1}
      BY <3>2 DEF Due
    <3> QED BY <3>3
  <2>2. to = <<>>
    <3> SUFFICES ASSUME to # <<>> PROVE FALSE
      OBVIOUS
    <3>1. Load <= Due /\ to[Len(to)].op = Asked
      BY <1>1 DEF Verifying, Latest
    <3>2. Asked # "FILLER"
      BY DEF Asked
    <3>3. Load >= Len(Pipe) + 2
      BY <1>1, <3>1, <3>2, LatestLoads
    <3> QED BY <1>2, <1>4, <1>6, <3>1, <3>3
  <2>3. Due \in 1..Len(buf)
    BY <1>2, <1>4, <2>1
  <2>4. Len(Pipe) >= Due /\ Pipe[Due].t = "OK"
    BY <1>2, <1>4, <1>6, <2>3
  <2>5. /\ Len(Pipe) = Due /\ board.mode = "idle"
        /\ (IF client.stage = "field" THEN SubSeq(Pipe, 1, 4) ELSE client.word) = Field(Truth)
    BY <1>1, <2>2, <2>4 DEF Answered
  <2>6. Pipe' = Pipe
    BY <1>2, <1>4, <1>6, <2>5
  <2> QED BY <2>5, <2>6
<1>16. Reading'
  <2> SUFFICES ASSUME client.phase = "verify", client.step \in {"rewind", "read"} PROVE Reading'
    BY <1>3 DEF Reading
  <2>1. Len(to') = 0
    BY <1>2
  <2> QED BY <1>1, <1>2, <1>3, <2>1 DEF Reading
<1>17. External'
  BY <1>1, <1>2, <1>3 DEF External, Holds, ExtImage
<1>18. Ended'
  BY <1>1, <1>2, <1>3 DEF Ended, Holds, ExtImage, Image
<1> QED BY <1>7, <1>8, <1>9, <1>10, <1>11, <1>12, <1>13, <1>14, <1>15, <1>16, <1>17, <1>18 DEF FlashInv

-----------------------------------------------------------------------------
(* The client: where a step leads, and what has to hold there. *)

\* The invariant of a session that is over.
LEMMA BeOver ==
  ASSUME TypeInv', Cut', client'.phase = "over", client'.stage = "none", Ended'
  PROVE  FlashInv'
<1>1. Where' /\ Within'
  BY DEF Where, Within
<1>2. Untouched' /\ Settled'
  BY DEF Untouched, Settled, Early
<1>3. ExtErase' /\ Erase' /\ Programming' /\ Overtaken'
  BY DEF ExtErase, Erase, Programming, Overtaken
<1>4. Verifying' /\ Answered' /\ Reading' /\ External'
  BY DEF Verifying, Answered, Reading, External
<1> QED BY <1>1, <1>2, <1>3, <1>4 DEF FlashInv

\* That of a session that has yet to touch the flash.
LEMMA BeEarly ==
  ASSUME TypeInv', Where', Cut', client'.phase \in Early, result' = "none",
         Untouched', Settled'
  PROVE  FlashInv'
<1>1. client'.phase \in {"guard", "identify", "settle 1", "compare", "settle 2"}
  BY DEF Early
<1>2. Within' /\ Ended'
  BY <1>1 DEF Within, Ended
<1>3. ExtErase' /\ Erase' /\ Programming' /\ Overtaken'
  BY <1>1 DEF ExtErase, Erase, Programming, Overtaken
<1>4. Verifying' /\ Answered' /\ Reading' /\ External'
  BY <1>1 DEF Verifying, Answered, Reading, External
<1> QED BY <1>2, <1>3, <1>4 DEF FlashInv

\* That of an erase.
LEMMA BeErasing ==
  ASSUME TypeInv', Where', Cut', client'.phase \in {"xerase", "erase"}, result' = "none",
         Within', ExtErase', Erase', External'
  PROVE  FlashInv'
<1>1. Untouched' /\ Settled' /\ Ended'
  BY DEF Untouched, Settled, Early, Ended
<1>2. Programming' /\ Overtaken' /\ Verifying' /\ Answered' /\ Reading'
  BY DEF Programming, Overtaken, Verifying, Answered, Reading
<1> QED BY <1>1, <1>2 DEF FlashInv

\* That of a programming.
LEMMA BeProgramming ==
  ASSUME TypeInv', Where', Cut', client'.phase \in {"xprogram", "program"}, result' = "none",
         Within', Programming', Overtaken', External'
  PROVE  FlashInv'
<1>1. Untouched' /\ Settled' /\ Ended'
  BY DEF Untouched, Settled, Early, Ended
<1>2. ExtErase' /\ Erase' /\ Verifying' /\ Answered' /\ Reading'
  BY DEF ExtErase, Erase, Verifying, Answered, Reading
<1> QED BY <1>1, <1>2 DEF FlashInv

\* That of a verify.
LEMMA BeVerifying ==
  ASSUME TypeInv', Where', Cut', client'.phase \in {"xverify", "verify"}, result' = "none",
         Verifying', Answered', Reading', External'
  PROVE  FlashInv'
<1>1. Untouched' /\ Settled' /\ Ended' /\ Within'
  BY DEF Untouched, Settled, Early, Ended, Within
<1>2. ExtErase' /\ Erase' /\ Programming' /\ Overtaken'
  BY DEF ExtErase, Erase, Programming, Overtaken
<1> QED BY <1>1, <1>2 DEF FlashInv

\* That of the reboot.
LEMMA BeReboot ==
  ASSUME TypeInv', Where', Cut', client'.phase = "reboot", result' = "none", Ended', External'
  PROVE  FlashInv'
<1>1. Untouched' /\ Settled' /\ Within'
  BY DEF Untouched, Settled, Early, Within
<1>2. ExtErase' /\ Erase' /\ Programming' /\ Overtaken'
  BY DEF ExtErase, Erase, Programming, Overtaken
<1>3. Verifying' /\ Answered' /\ Reading'
  BY DEF Verifying, Answered, Reading
<1> QED BY <1>1, <1>2, <1>3 DEF FlashInv

ClientType ==
  client \in [phase : Phases, step : Steps, stage : Stages, chunk : Nat \ {0},
              attempt : {1, 2}, word : Seq(Bytes)]

\* Where the client's moves lead.
LEMMA StepMoves ==
  ASSUME ClientType, NEW s \in Steps, Moves(ToStep(client, s))
  PROVE  /\ ClientType' /\ result' = result
         /\ client'.phase = client.phase /\ client'.step = s
         /\ client'.stage = (IF s = "drain" THEN "drain" ELSE "send")
         /\ client'.chunk = client.chunk /\ client'.word = client.word
BY DEF ClientType, Moves, ToStep, Stages, ReadStages

\* A client that goes on with its step.
LEMMA StageMoves ==
  ASSUME ClientType, NEW g \in Stages, Moves([client EXCEPT !.stage = g])
  PROVE  /\ ClientType' /\ result' = result
         /\ client'.phase = client.phase /\ client'.step = client.step /\ client'.stage = g
         /\ client'.chunk = client.chunk /\ client'.word = client.word
BY DEF ClientType, Moves

\* The first step of each phase.
LEMMA FirstIs ==
  /\ First("identify") = "sync" /\ First("settle 1") = "drain" /\ First("settle 2") = "drain"
  /\ First("compare") = "crc" /\ First("xverify") = "crc"
  /\ First("xerase") = "erase" /\ First("erase") = "erase"
  /\ First("xprogram") = "frame" /\ First("program") = "frame" /\ First("reboot") = "reboot"
  /\ First("verify") \in {"rewind", "crc"}
BY DEF First

\* A client that begins a phase.
LEMMA PhaseMoves ==
  ASSUME ClientType, NEW p \in Phases \ {"guard", "over"}, NEW a \in {1, 2},
         \/ Moves(ToPhase(client, p))
         \/ Moves([ToPhase(client, p) EXCEPT !.attempt = a])
  PROVE  /\ ClientType' /\ result' = result
         /\ client'.phase = p /\ client'.step = First(p)
         /\ client'.stage = (IF p \in {"settle 1", "settle 2"} THEN "drain" ELSE "send")
         /\ client'.chunk = 1 /\ client'.word = client.word
<1>1. First(p) \in Steps /\ (First(p) = "drain" <=> p \in {"settle 1", "settle 2"})
  BY FirstIs DEF Phases, Steps
<1> DEFINE s == First(p)
<1> HIDE DEF s
<1>2. s \in Steps /\ (s = "drain" <=> p \in {"settle 1", "settle 2"})
  BY <1>1 DEF s
<1> DEFINE g == IF s = "drain" THEN "drain" ELSE "send"
<1>4. g \in Stages /\ p \in Phases /\ 1 \in Nat \ {0}
  BY DEF Stages, ReadStages
<1> DEFINE c == ToPhase(client, p)
           T == [phase : Phases, step : Steps, stage : Stages, chunk : Nat \ {0},
                 attempt : {1, 2}, word : Seq(Bytes)]
<1>5. /\ c \in T /\ c.phase = p /\ c.step = s /\ c.chunk = 1 /\ c.word = client.word
      /\ c.stage = g
  <2>1. c = [[client EXCEPT !.phase = p, !.chunk = 1] EXCEPT !.step = s, !.stage = g]
    BY DEF ToPhase, ToStep, s
  <2> HIDE DEF g
  <2> QED BY <1>2, <1>4, <2>1 DEF ClientType
<1> HIDE DEF c
<1>6. LET d == [c EXCEPT !.attempt = a]
      IN  /\ d \in T /\ d.phase = p /\ d.step = s /\ d.chunk = 1 /\ d.word = client.word
          /\ d.stage = c.stage
  BY <1>5
<1>7. client' = c \/ client' = [c EXCEPT !.attempt = a]
  BY DEF Moves, c
<1>8. /\ client' \in T /\ client'.phase = p /\ client'.step = s /\ client'.chunk = 1
      /\ client'.word = client.word /\ client'.stage = c.stage
  BY <1>5, <1>6, <1>7
<1>9. result' = result
  BY DEF Moves
<1>10. client'.stage = IF p \in {"settle 1", "settle 2"} THEN "drain" ELSE "send"
  BY <1>2, <1>5, <1>8
<1> QED BY <1>8, <1>9, <1>10 DEF ClientType, s

\* What the client leaves alone.
Stays == UNCHANGED <<closed, from, to, board, setup>>

\* A session that gives up leaves nothing to keep.
LEMMA Fails ==
  ASSUME TypeInv, Cut, buf' \in Seq(Bytes), Stays,
         Ends("failed") \/ Ends("refused")
  PROVE  FlashInv'
<1>1. ClientType
  BY DEF TypeInv, ClientType
<1>2. /\ ClientType' /\ client'.phase = "over" /\ client'.stage = "none"
      /\ result' \in {"failed", "refused"}
  BY <1>1 DEF ClientType, Ends, Phases, Stages
<1>3. TypeInv' /\ Cut'
  BY <1>2 DEF TypeInv, Cut, ClientType, Stays
<1>4. Ended'
  BY <1>2 DEF Ended
<1> QED BY <1>2, <1>3, <1>4, BeOver

\* What follows a refusal, a silence or the end of the port.
LEMMA RejectsIs ==
  ASSUME ClientType, Where, client.stage # "none", NEW error, Rejects(error)
  PROVE  /\ client.step = "version" => Moves(ToStep(client, "drain"))
         /\ client.phase \in {"identify", "settle 1", "settle 2", "compare"} /\ client.step # "version" =>
              Advances
         /\ client.phase \notin {"identify", "settle 1", "settle 2", "compare"} =>
              Ends("failed") \/ (client.step = "frame" /\ Moves(ToStep(client, "filler")))
<1>1. CASE client.step = "version"
  BY <1>1 DEF Where, ClientType, Phases, Rejects, Resends
<1>2. CASE client.step # "version" /\ client.phase \in {"identify", "settle 1", "settle 2", "compare"}
  BY <1>2 DEF Where, Rejects, Resends
<1>3. CASE client.step # "version" /\ client.phase \notin {"identify", "settle 1", "settle 2", "compare"}
  BY <1>3 DEF Rejects, Resends
<1> QED BY <1>1, <1>2, <1>3

\* The phase that follows each phase, the external flash before the internal one.
LEMMA NextPhaseIs ==
  /\ NextPhase("identify") = "settle 1" /\ NextPhase("settle 1") = "compare"
  /\ NextPhase("compare") = "settle 2"
  /\ NextPhase("settle 2") = (IF setup.ext > 0 THEN "xerase" ELSE "erase")
  /\ NextPhase("xerase") = "xprogram" /\ NextPhase("xprogram") = "xverify"
  /\ NextPhase("xverify") = "erase" /\ NextPhase("erase") = "program"
  /\ NextPhase("program") = "verify" /\ NextPhase("verify") = "reboot"
BY DEF NextPhase

\* The end of a phase.
LEMMA AdvancesIs ==
  ASSUME Advances
  PROVE  /\ client.phase = "settle 2" =>
              \/ Ends("refused")
              \/ Moves(ToPhase(client, IF setup.ext > 0 THEN "xerase" ELSE "erase"))
         /\ client.phase = "identify" => Moves(ToPhase(client, "settle 1"))
         /\ client.phase = "settle 1" => Moves(ToPhase(client, "compare"))
         /\ client.phase = "compare" => Moves(ToPhase(client, "settle 2"))
         /\ client.phase = "xerase" => Moves(ToPhase(client, "xprogram"))
         /\ client.phase = "xprogram" => Moves(ToPhase(client, "xverify"))
         /\ client.phase = "xverify" => Moves(ToPhase(client, "erase"))
         /\ client.phase = "erase" => Moves(ToPhase(client, "program"))
         /\ client.phase = "program" => Moves(ToPhase(client, "verify"))
         /\ client.phase = "verify" => Moves(ToPhase(client, "reboot"))
<1>1. \/ client.phase = "settle 2" /\ Ends("refused")
      \/ Moves(ToPhase(client, NextPhase(client.phase)))
  BY DEF Advances, EntersFlash
<1>2. CASE client.phase = "settle 2" /\ Ends("refused")
  BY <1>2
<1>3. CASE Moves(ToPhase(client, NextPhase(client.phase)))
  BY <1>3, NextPhaseIs
<1> QED BY <1>1, <1>2, <1>3

\* What follows an answer.
LEMMA ResolvesIs ==
  ASSUME ClientType, Where, client.stage # "none", Resolves
  PROVE  /\ client.step = "sync" => Moves(ToStep(client, "info"))
         /\ client.step = "info" => Moves(ToStep(client, "version"))
         /\ client.step \in {"version", "erase", "drain"} => Advances
         /\ client.step = "resync" /\ client.phase \notin {"xprogram", "program"} => Advances
         /\ client.step = "resync" /\ client.phase \in {"xprogram", "program"} =>
              Moves(ToStep(client, "resend"))
         /\ client.step \in {"frame", "resend"} => NextChunk("frame")
         /\ client.step = "rewind" => Moves(ToStep(client, "read"))
         /\ client.step = "read" => (Matching /\ NextChunk("read")) \/ Mismatches
         /\ client.step = "crc" /\ client.phase = "compare" =>
              Advances \/ (Matching /\ Ends("skipped"))
         /\ client.step = "crc" /\ client.phase = "xverify" =>
              (Matching /\ Advances) \/ Ends("failed")
         /\ client.step = "crc" /\ client.phase = "verify" =>
              (Matching /\ Advances) \/ Mismatches
<1>1. CASE client.step \in {"sync", "info", "version", "erase", "drain", "frame", "resend", "rewind"}
  BY <1>1 DEF Resolves
<1>2. CASE client.step = "resync"
  BY <1>2 DEF Resolves
<1>3. CASE client.step = "read"
  BY <1>3 DEF Resolves
<1>4. CASE client.step = "crc"
  BY <1>4 DEF Resolves
<1> QED BY <1>1, <1>2, <1>3, <1>4

\* What a client that reads does with it.
LEMMA ReadIs ==
  ASSUME TypeInv, Cut, Read
  PROVE  /\ client.stage \in ReadStages /\ client.stage # "none" /\ ClientType
         /\ Stays
         /\ buf' \in Seq(Bytes) /\ Len(buf) \in Nat /\ Len(buf) >= 1 /\ buf # <<>>
         /\ client.stage = "drain" => buf' = <<>> /\ Moves(client)
         /\ client.stage \in {"field", "rest"} => Takes(4)
         /\ client.stage \notin {"field", "rest", "drain"} => Takes(1)
         /\ client.stage = "field" =>
              Moves([client EXCEPT !.stage = "head", !.word = SubSeq(buf, 1, 4)])
         /\ client.stage = "version" => Moves([client EXCEPT !.stage = "refusal"])
                                          \/ Moves([client EXCEPT !.stage = "rest"])
         /\ client.stage = "rest" => Moves([client EXCEPT !.stage = "head"])
                                       \/ Moves(ToStep(client, "drain"))
         /\ client.stage = "refusal" => Resolves
         /\ client.stage = "head" => TakesHead(Head(buf))
         /\ client.stage = "status" => TakesStatus(Head(buf))
         /\ client.stage = "percent" =>
              \/ Head(buf).t = "90%" /\ Moves([client EXCEPT !.stage = "poll"])
              \/ Head(buf).t # "90%" /\ Moves([client EXCEPT !.stage = "percent"])
         /\ client.stage = "poll" => Moves([client EXCEPT !.stage = "poll status"])
                                       \/ Moves([client EXCEPT !.stage = "poll"])
         /\ client.stage = "poll status" => PollsStatus(Head(buf))
<1>1. client.stage \in ReadStages /\ ClientType /\ client.stage # "none"
  BY DEF Read, TypeInv, ClientType, ReadStages
<1>2. Stays
  BY DEF Read, Stays
<1>3. /\ client.stage \in {"field", "rest"} => Needs(client.stage) = 4
      /\ client.stage \notin {"field", "rest"} => Needs(client.stage) = 1
  BY DEF Needs
<1>4. /\ Len(buf) >= Needs(client.stage)
      /\ buf' = IF client.stage = "drain" THEN <<>>
                ELSE SubSeq(buf, Needs(client.stage) + 1, Len(buf))
  BY DEF Read
<1>5. Len(buf) \in Nat /\ Len(buf) >= 1 /\ buf # <<>>
  BY <1>3, <1>4, LinkType
<1>6. /\ client.stage \in {"field", "rest"} => Takes(4)
      /\ client.stage \notin {"field", "rest", "drain"} => Takes(1)
      /\ client.stage = "drain" => buf' = <<>>
  <2>1. CASE client.stage \in {"field", "rest"}
    BY <1>2, <1>3, <1>4, <2>1 DEF Takes, Stays
  <2>2. CASE client.stage \notin {"field", "rest", "drain"}
    BY <1>2, <1>3, <1>4, <2>2 DEF Takes, Stays
  <2>3. CASE client.stage = "drain"
    BY <1>4, <2>3
  <2> QED BY <2>1, <2>2, <2>3
<1>7. buf' \in Seq(Bytes)
  <2>1. 1 \in 1..4 /\ 4 \in 1..4
    OBVIOUS
  <2>2. CASE client.stage = "drain"
    BY <1>6, <2>2
  <2>3. CASE client.stage \in {"field", "rest"}
    BY <1>6, <2>1, <2>3, TakesBytes
  <2>4. CASE client.stage \notin {"field", "rest", "drain"}
    BY <1>6, <2>1, <2>4, TakesBytes
  <2> QED BY <2>2, <2>3, <2>4
<1>8. CASE client.stage \in {"field", "rest", "version", "refusal", "drain"}
  BY <1>1, <1>2, <1>3, <1>5, <1>6, <1>7, <1>8 DEF Read, TakesVersion, TakesRest
<1>9. CASE client.stage \in {"head", "status", "percent", "poll", "poll status"}
  BY <1>1, <1>2, <1>5, <1>6, <1>7, <1>9 DEF Read, Polls
<1> QED BY <1>1, <1>8, <1>9 DEF ReadStages

\* What a client does that waits in vain, or at a closed port.
LEMMA SilenceIs ==
  ASSUME TypeInv, Cut, Timeout \/ FailsClosed
  PROVE  /\ ClientType /\ client.stage # "none"
         /\ Stays /\ buf' = buf
         /\ \/ closed /\ client.stage = "send" /\ client.step = "reboot" /\ Ends("flashed")
            \/ closed /\ client.stage = "send" /\ client.step # "reboot" /\ Rejects("closed")
            \/ /\ client.stage \in ReadStages \ {"drain"} /\ Len(buf) < Needs(client.stage)
               /\ \/ client.stage = "poll status" /\ Moves([client EXCEPT !.stage = "poll"])
                  \/ \E error : Rejects(error)
         /\ \/ from = <<>> /\ to = <<>>
            \/ client.phase # "erase" /\ Erasing
            \/ client.phase = "settle 2" => "late resync" \in Faults
<1>1. ClientType
  BY DEF TypeInv, ClientType
<1>2. CASE Timeout
  <2>1. /\ client.stage \in ReadStages \ {"drain"} /\ Len(buf) < Needs(client.stage)
        /\ Stays /\ buf' = buf
    BY <1>2 DEF Timeout, link, Stays
  <2>2. \/ client.stage = "poll status" /\ Moves([client EXCEPT !.stage = "poll"])
        \/ \E error : Rejects(error)
    BY <1>2, <2>1 DEF Timeout, Deadline, ReadStages
  <2>3. \/ from = <<>> /\ to = <<>>
        \/ client.phase # "erase" /\ Erasing
        \/ client.phase = "settle 2" => "late resync" \in Faults
    BY <1>2 DEF Timeout, Quiet, Fault, LateKind
  <2> QED BY <1>1, <2>1, <2>2, <2>3 DEF ReadStages
<1>3. CASE FailsClosed
  <2>1. from = <<>> /\ to = <<>> /\ closed /\ Stays /\ buf' = buf
    BY <1>3 DEF FailsClosed, Cut, link, Stays
  <2>2. \/ client.stage = "send" /\ client.step = "reboot" /\ Ends("flashed")
        \/ client.stage = "send" /\ client.step # "reboot" /\ Rejects("closed")
        \/ /\ client.stage \in ReadStages \ {"drain"} /\ Len(buf) < Needs(client.stage)
           /\ \/ client.stage = "poll status" /\ Moves([client EXCEPT !.stage = "poll"])
              \/ \E error : Rejects(error)
    BY <1>3 DEF FailsClosed, Deadline
  <2> QED BY <1>1, <2>1, <2>2 DEF ReadStages
<1> QED BY <1>2, <1>3

-----------------------------------------------------------------------------
(* Before flash(): the firmware on the board is the old one, and only the     *)
(* fields and acks of the commands that ask about it are under way.           *)

StaysButTo == UNCHANGED <<closed, from, board, setup>>

\* The client goes on asking.
LEMMA EarlyKeeps ==
  ASSUME FlashInv, client.phase \in Early, ClientType', result' = result,
         client'.phase \in Early, Where', buf' \in Seq(Bytes), to' \in Seq(Writes),
         StaysButTo, closed => to' = to,
         Sends(Asking)', OldBytes(buf)', OldBytes(client.word)', Settled'
  PROVE  FlashInv'
<1>1. TypeInv /\ Cut /\ Untouched /\ Ended
  BY DEF FlashInv
<1>2. TypeInv' /\ Cut'
  BY <1>1 DEF TypeInv, Cut, ClientType, StaysButTo
<1>3. OldBytes(from)'
  BY <1>1 DEF Untouched, OldBytes, StaysButTo
<1>4. Untouched'
  BY <1>1, <1>3 DEF Untouched, StaysButTo
<1>5. result' = "none"
  BY <1>1 DEF Ended, Early
<1> QED BY <1>2, <1>4, <1>5, BeEarly

\* An answer, a refusal and a silence lead to the next question.
LEMMA EarlyOutcome ==
  ASSUME FlashInv, ClientType, client.phase \in Early, client.stage # "none",
         Resolves \/ (\E error : Rejects(error))
  PROVE  \/ /\ ClientType' /\ result' = result /\ client'.phase \in Early /\ Where'
            /\ client'.word = client.word /\ client'.step # "resync"
         \/ client.phase = "settle 2" /\ Advances
         \/ client.phase = "compare" /\ Matching /\ Ends("skipped")
<1>1. Where
  BY DEF FlashInv
<1>2. client.phase \in {"identify", "settle 1", "compare", "settle 2"}
  BY <1>1 DEF Where, Early
<1>3. \/ Advances
      \/ client.phase = "identify" /\ client.step = "version" /\ Moves(ToStep(client, "drain"))
      \/ client.phase = "identify" /\ client.step = "sync" /\ Moves(ToStep(client, "info"))
      \/ client.phase = "identify" /\ client.step = "info" /\ Moves(ToStep(client, "version"))
      \/ client.phase = "compare" /\ Matching /\ Ends("skipped")
  <2>1. CASE Resolves
    BY <1>1, <1>2, <2>1, ResolvesIs DEF Where
  <2>2. CASE \E error : Rejects(error)
    <3>1. PICK error : Rejects(error)
      BY <2>2
    <3>2. client.step = "version" => client.phase = "identify"
      BY <1>1, <1>2 DEF Where
    <3> QED BY <1>1, <1>2, <3>1, <3>2, RejectsIs
  <2> QED BY <2>1, <2>2
<1>5. ASSUME NEW s \in {"drain", "info", "version"}, Moves(ToStep(client, s)),
             client.phase = "identify"
      PROVE  /\ ClientType' /\ result' = result /\ client'.phase \in Early /\ Where'
             /\ client'.word = client.word /\ client'.step # "resync"
  BY <1>5, StepMoves DEF Steps, Where, Exchange, Fetch, Early
<1>6. ASSUME NEW p \in {"settle 1", "compare", "settle 2"}, Moves(ToPhase(client, p))
      PROVE  /\ ClientType' /\ result' = result /\ client'.phase \in Early /\ Where'
             /\ client'.word = client.word /\ client'.step # "resync"
  <2>1. p \in Phases \ {"guard", "over"} /\ 1 \in {1, 2}
    BY DEF Phases
  <2>2. /\ ClientType' /\ result' = result /\ client'.phase = p /\ client'.step = First(p)
        /\ client'.stage = (IF p \in {"settle 1", "settle 2"} THEN "drain" ELSE "send")
        /\ client'.word = client.word
    BY <1>6, <2>1, PhaseMoves
  <2>3. client'.step = IF p = "compare" THEN "crc" ELSE "drain"
    BY <2>2, FirstIs
  <2>4. Where'
    BY <2>2, <2>3 DEF Where, Exchange, Fetch
  <2> QED BY <2>2, <2>3, <2>4 DEF Early
<1>7. CASE Advances
  BY <1>2, <1>6, <1>7, AdvancesIs
<1> QED BY <1>3, <1>5, <1>6, <1>7

\* What the bytes that are read and those that are left tell.
LEMMA OldTaken ==
  ASSUME TypeInv, OldBytes(buf), NEW n \in 1..4, Takes(n), setup' = setup
  PROVE  OldBytes(buf)' /\ OldBytes(SubSeq(buf, 1, n))
<1>1. /\ IsRest(buf', buf, n) /\ Len(buf) \in Nat /\ Len(buf) >= n
      /\ Len(SubSeq(buf, 1, n)) = n /\ \A i \in 1..n : SubSeq(buf, 1, n)[i] = buf[i]
  BY TakesBytes
<1>2. \A k \in 1..Len(buf) : buf[k].v \in {<<>>, setup.old}
  BY DEF OldBytes
<1>3. \A k \in 1..(Len(buf) - n) : buf'[k].v \in {<<>>, setup.old}
  <2> SUFFICES ASSUME NEW k \in 1..(Len(buf) - n) PROVE buf'[k].v \in {<<>>, setup.old}
    OBVIOUS
  <2>1. k + n \in 1..Len(buf) /\ buf'[k] = buf[k + n]
    BY <1>1 DEF IsRest
  <2> QED BY <1>2, <2>1
<1>4. Len(buf') = Len(buf) - n
  BY <1>1 DEF IsRest
<1>5. OldBytes(buf)'
  BY <1>3, <1>4 DEF OldBytes
<1>6. \A k \in 1..n : SubSeq(buf, 1, n)[k].v \in {<<>>, setup.old}
  <2> SUFFICES ASSUME NEW k \in 1..n PROVE SubSeq(buf, 1, n)[k].v \in {<<>>, setup.old}
    OBVIOUS
  <2>1. k \in 1..Len(buf)
    BY <1>1
  <2> QED BY <1>1, <1>2, <2>1
<1> DEFINE w == SubSeq(buf, 1, n)
<1>7. Len(w) = n /\ \A k \in 1..n : w[k].v \in {<<>>, setup.old}
  BY <1>1, <1>6
<1> HIDE DEF w
<1>8. OldBytes(w)
  BY <1>7 DEF OldBytes
<1> QED BY <1>5, <1>8 DEF w

\* An image is a sequence.
LEMMA Numbers ==
  ASSUME NEW n \in Nat
  PROVE  [k \in 1..n |-> k] \in Seq(Nat) /\ Len([k \in 1..n |-> k]) = n
<1> DEFINE f == [k \in 1..n |-> k]
<1>1. f \in [1..n -> Nat] /\ DOMAIN f = 1..n
  OBVIOUS
<1> HIDE DEF f
<1>2. f \in Seq(Nat)
  BY <1>1, SeqDef
<1>3. Len(f) = n
  BY <1>1, <1>2, LenProperties
<1> QED BY <1>2, <1>3 DEF f

\* No cells are the empty sequence.
LEMMA NoCells ==
  ASSUME NEW s \in Seq(Nat)
  PROVE  Cells(s, 1, 0) = <<>>
<1>1. Len(s) \in Nat /\ (Len(s) >= 0)
  BY LenProperties
<1>2. (IF 0 <= Len(s) THEN 0 ELSE Len(s)) = 0
  BY <1>1
<1>3. SubSeq(s, 1, 0) = <<>>
  BY SubSeqEmpty
<1> QED BY <1>2, <1>3 DEF Cells

\* All the cells of a sequence are the sequence.
LEMMA WholeImage ==
  ASSUME NEW s \in Seq(Nat)
  PROVE  Cells(s, 1, Len(s)) = s
<1>1. Len(s) \in Nat /\ \A i \in 1..Len(s) : s[i] \in Nat
  BY ElementOfSeq, LenProperties
<1>2. /\ SubSeq(s, 1, Len(s)) \in Seq(Nat)
      /\ Len(SubSeq(s, 1, Len(s))) = IF 1 <= Len(s) THEN Len(s) - 1 + 1 ELSE 0
      /\ \A i \in 1..Len(s) - 1 + 1 : SubSeq(s, 1, Len(s))[i] = s[1 + i - 1]
  BY <1>1, SubSeqProperties
<1> DEFINE t == SubSeq(s, 1, Len(s))
           n == Len(s)
<1>3. t \in Seq(Nat) /\ Len(t) = n /\ n \in Nat
  BY <1>1, <1>2
<1>4. \A i \in 1..n : t[i] = s[i]
  BY <1>1, <1>2
<1> HIDE DEF t
<1>5. t = s
  BY <1>3, <1>4, SeqEqual
<1>6. Cells(s, 1, Len(s)) = t
  BY <1>1 DEF Cells, t
<1> QED BY <1>5, <1>6

\* A CRC that matches is the old firmware's.
LEMMA OldMatches ==
  ASSUME FlashInv, client.phase = "compare", Matching
  PROVE  board.flash = Image /\ Holds(board.flash, Image) /\ Sends(Asking)
<1>1. /\ board.flash = setup.old /\ Sends(Asking) /\ OldBytes(client.word)
  BY DEF FlashInv, Untouched, Early
<1>2. client.step = "crc"
  BY DEF FlashInv, Where
<1>3. client.word = Field(Image)
  BY <1>2 DEF Matching, Expected
<1>4. Image \in Seq(Nat) /\ Len(Image) = Chunks /\ Image # <<>>
  BY SizesAssumption, Numbers, EmptySeq DEF Image
<1>5. Field(Image)[1] = [t |-> "DATA", v |-> Image] /\ Len(Field(Image)) = 4
  BY <1>4, ReplyBytes DEF Field
<1>6. client.word[1].v = Image
  BY <1>3, <1>5
<1>7. client.word[1].v \in {<<>>, setup.old}
  BY <1>1, <1>3, <1>5 DEF OldBytes
<1>8. board.flash = Image
  BY <1>1, <1>4, <1>6, <1>7
<1>9. Cells(Image, 1, Len(Image)) = Image
  BY <1>4, WholeImage
<1> QED BY <1>1, <1>8, <1>9 DEF Holds

\* An empty line, and what flash() begins with.
Clean == /\ Sends({"GET_SYNC"})' /\ Load' <= Slack
         /\ \A k \in 1..Len(Pipe') : Pipe'[k].t # "90%"

\* Facts of arithmetic, under names.
LEMMA FewerIs == \A n \in Nat : \A i \in 1..(n - 1) : i \in 1..n
OBVIOUS

\* A load within a bound that nothing is due to is within it still.
LEMMA PlusNone == \A l \in Int, s \in {0, 2}, d \in {0} : l <= s => l <= s + d
OBVIOUS

\* A count that is not positive is zero.
LEMMA NoneLess == \A n \in Nat : ~(n > 0) => n = 0
OBVIOUS

\* The external image is a sequence of as many chunks as it has.
LEMMA ExtImageIs ==
  ASSUME TypeInv
  PROVE  setup.ext \in Nat /\ ExtImage \in Seq(Nat) /\ Len(ExtImage) = setup.ext
<1>1. setup.ext \in Nat
  BY SizesAssumption DEF TypeInv
<1> QED BY <1>1, Numbers DEF ExtImage

\* flash() begins: at most the answer to the last GET_SYNC is under way.
LEMMA Begins ==
  ASSUME FlashInv, client.phase = "settle 2", Advances, buf' \in Seq(Bytes),
         Stays, Clean
  PROVE  FlashInv'
<1>1. TypeInv /\ Cut /\ Untouched /\ Ended
  BY DEF FlashInv
<1>2. ClientType /\ result = "none" /\ board.mode = "idle"
  BY <1>1 DEF TypeInv, ClientType, Ended, Untouched, Early
<1>3. CASE Ends("refused")
  BY <1>1, <1>3, Fails
<1>4. CASE Moves(ToPhase(client, IF setup.ext > 0 THEN "xerase" ELSE "erase"))
  <2> DEFINE p == IF setup.ext > 0 THEN "xerase" ELSE "erase"
  <2>1. p \in Phases \ {"guard", "over"} /\ 1 \in {1, 2} /\ p \in {"xerase", "erase"}
    BY DEF Phases
  <2>2. p = "xerase" <=> setup.ext > 0
    OBVIOUS
  <2>3. Moves(ToPhase(client, p))
    BY <1>4
  <2> HIDE DEF p
  <2>4. /\ ClientType' /\ result' = result /\ client'.phase = p /\ client'.step = First(p)
        /\ client'.stage = (IF p \in {"settle 1", "settle 2"} THEN "drain" ELSE "send")
    BY <1>2, <2>1, <2>3, PhaseMoves
  <2>5. client'.step = "erase" /\ client'.stage = "send"
    BY <2>1, <2>4, FirstIs
  <2>6. TypeInv' /\ Cut' /\ result' = "none"
    BY <1>1, <1>2, <2>4 DEF TypeInv, Cut, ClientType, Stays
  <2>7. Where'
    BY <2>1, <2>4, <2>5 DEF Where, Exchange, Fetch
  <2>8. Within'
    BY <2>1, <2>2, <2>4 DEF Within, Stays
  <2>9. ExtErase'
    <3> SUFFICES ASSUME p = "xerase" PROVE ExtErase'
      BY <2>4 DEF ExtErase
    <3>1. \A i \in 1..Len(to') : to'[i].op = "GET_SYNC"
      BY DEF Clean, Sends
    <3>2. \A i \in 1..(Len(to') - 1) : to'[i].op = "GET_SYNC"
      BY <1>1, <3>1, LinkType, FewerIs DEF Stays
    <3> QED BY <1>2, <2>5, <3>2 DEF ExtErase, Clean, Slack, Stays
  <2>10. Erase'
    <3>1. Sends({"GET_SYNC", "CHIP_ERASE"})'
      BY DEF Clean, Sends
    <3>2. Due' = 0
      BY <2>5 DEF Due
    <3>3. Load' \in Int /\ Slack \in {0, 2} /\ Slack' = Slack
      BY <1>1, LoadNext DEF TypeInv, Slack, Stays
    <3>5. Load' <= Slack
      BY DEF Clean
    <3>4. Load' <= Slack' + Due'
      BY <3>2, <3>3, <3>5, PlusNone
    <3> QED BY <1>2, <3>1, <3>4 DEF Erase, Stays
  <2>11. External'
    <3> SUFFICES ASSUME p = "erase" PROVE External'
      BY <2>1, <2>4 DEF External
    <3>1. setup.ext = 0
      BY <1>1, <2>2, ExtImageIs, NoneLess
    <3>2. Holds(board.ext, ExtImage)'
      <4>1. ExtImage \in Seq(Nat) /\ Len(ExtImage) = 0
        BY <1>1, <3>1, ExtImageIs
      <4>2. ExtImage = <<>> /\ ExtImage' = ExtImage
        BY <4>1, EmptySeq DEF ExtImage, Stays
      <4>3. Cells(board.ext, 1, 0) = <<>>
        BY <1>1, NoCells DEF TypeInv
      <4>4. Cells(board.ext, 1, Len(ExtImage)) = ExtImage
        BY <4>1, <4>2, <4>3
      <4> QED BY <4>2, <4>4 DEF Holds, Stays
    <3>3. Sends(Ops \ {"EXTF_ERASE", "EXTF_PROG_MULTI"})'
      BY DEF Clean, Sends, Ops, Short
    <3> QED BY <3>2, <3>3 DEF External
  <2>12. client'.phase \in {"xerase", "erase"}
    BY <2>1, <2>4
  <2> QED BY <2>6, <2>7, <2>8, <2>9, <2>10, <2>11, <2>12, BeErasing
<1> QED BY <1>3, <1>4, AdvancesIs

\* A session that skips the flash has the image on the board.
LEMMA Skips ==
  ASSUME FlashInv, client.phase = "compare", Matching, Ends("skipped"), buf' \in Seq(Bytes),
         Stays
  PROVE  FlashInv'
<1>1. TypeInv /\ Cut
  BY DEF FlashInv
<1>2. Holds(board.flash, Image) /\ Sends(Asking)
  BY OldMatches
<1>3. ClientType
  BY <1>1 DEF TypeInv, ClientType
<1>4. /\ ClientType' /\ client'.phase = "over" /\ client'.stage = "none" /\ result' = "skipped"
  BY <1>3 DEF ClientType, Ends, Phases, Stages
<1>5. TypeInv' /\ Cut'
  BY <1>1, <1>4 DEF TypeInv, Cut, ClientType, Stays
<1>6. Sends(Asking)' /\ Holds(board.flash, Image)'
  BY <1>2 DEF Sends, Holds, Image, Stays
<1>7. Ended'
  BY <1>4, <1>6 DEF Ended
<1> QED BY <1>4, <1>5, <1>7, BeOver

\* The three ways on from a question.
LEMMA EarlyEnds ==
  ASSUME FlashInv, client.phase \in Early, client.stage # "none",
         Resolves \/ (\E error : Rejects(error)), buf' \in Seq(Bytes),
         Stays, OldBytes(buf)',
         client.phase = "settle 2" => Clean
  PROVE  FlashInv'
<1>1. TypeInv /\ Untouched
  BY DEF FlashInv
<1>2. ClientType
  BY <1>1 DEF TypeInv, ClientType
<1>3. CASE /\ ClientType' /\ result' = result /\ client'.phase \in Early /\ Where'
           /\ client'.word = client.word /\ client'.step # "resync"
  <2>1. Sends(Asking)' /\ OldBytes(client.word)' /\ to' \in Seq(Writes)
    BY <1>1, <1>3 DEF Untouched, Sends, OldBytes, TypeInv, Stays
  <2>2. Settled'
    BY <1>3 DEF Settled
  <2>3. StaysButTo /\ to' = to
    BY DEF Stays, StaysButTo
  <2> QED BY <1>3, <2>1, <2>2, <2>3, EarlyKeeps
<1>4. CASE client.phase = "settle 2" /\ Advances
  BY <1>4, Begins
<1>5. CASE client.phase = "compare" /\ Matching /\ Ends("skipped")
  BY <1>5, Skips
<1> QED BY <1>2, <1>3, <1>4, <1>5, EarlyOutcome

-----------------------------------------------------------------------------
(* The first state, and what the client sends. *)

\* A session that has yet to begin.
LEMMA InitInv == Init => FlashInv
<1> SUFFICES ASSUME Init PROVE FlashInv
  OBVIOUS
<1>1. /\ setup \in [rev: Revisions, pairing: Pairings, old: {OldFirmware, Image}, ext: {0, ExtChunks}]
      /\ client = [phase |-> "guard", step |-> "none", stage |-> "none",
                   chunk |-> 1, attempt |-> 1, word |-> <<>>]
      /\ result = "none" /\ closed = FALSE /\ buf = <<>> /\ from = <<>> /\ to = <<>>
      /\ board = [mode |-> "idle", armed |-> FALSE, flash |-> setup.old,
                  ext |-> <<>>, cursor |-> 0]
  BY DEF Init
<1>2. setup.old \in Seq(Nat)
  <2>1. Chunks \in Nat /\ Damaged \in Nat
    BY SizesAssumption DEF Damaged
  <2>2. Image \in Seq(Nat)
    BY <2>1, Numbers DEF Image
  <2>3. OldFirmware \in Seq(Nat)
    BY <2>1 DEF OldFirmware
  <2> QED BY <1>1, <2>2, <2>3
<1>3. client.phase = "guard" /\ client.step = "none" /\ client.stage = "none" /\ client.word = <<>>
  BY <1>1
<1>4. TypeInv
  <2>1. client \in [phase : Phases, step : Steps, stage : Stages, chunk : Nat \ {0},
                    attempt : {1, 2}, word : Seq(Bytes)]
    BY <1>1 DEF Phases, Steps, Stages
  <2>2. setup \in [rev : 2..5, pairing : Pairings, old : Seq(Nat), ext : {0, ExtChunks}]
    BY <1>1, <1>2, RevisionsAssumption
  <2>3. board \in [mode : {"idle", "payload"}, armed : BOOLEAN, flash : Seq(Nat),
                   ext : Seq(Nat), cursor : Nat]
    BY <1>1, <1>2
  <2>4. closed \in BOOLEAN /\ result \in {"none", "refused", "skipped", "failed", "flashed"}
    BY <1>1
  <2>5. buf \in Seq(Bytes)
    BY <1>1
  <2>6. from \in Seq(Bytes) /\ to \in Seq(Writes)
    BY <1>1
  <2> QED BY <2>1, <2>2, <2>3, <2>4, <2>5, <2>6 DEF TypeInv
<1>5. Where /\ Within /\ Cut
  BY <1>1, <1>3 DEF Where, Within, Cut
<1>6. Untouched
  BY <1>1, <1>3 DEF Untouched, Sends, OldBytes
<1>7. Settled /\ ExtErase /\ Erase /\ Programming /\ Overtaken
  BY <1>3 DEF Settled, ExtErase, Erase, Programming, Overtaken
<1>8. Verifying /\ Answered /\ Reading /\ External
  BY <1>3 DEF Verifying, Answered, Reading, External
<1>9. Ended
  BY <1>1, <1>3 DEF Ended
<1> QED BY <1>4, <1>5, <1>6, <1>7, <1>8, <1>9 DEF FlashInv

\* What a step of the client alone does not change.
LEMMA Same ==
  ASSUME TypeInv, Cut, Stays, buf' \in Seq(Bytes), ClientType',
         result' \in {"none", "refused", "skipped", "failed", "flashed"}
  PROVE  /\ TypeInv' /\ Cut'
         /\ \A S : Sends(S)' <=> Sends(S)
         /\ \A op : Latest(op)' <=> Latest(op)
         /\ NoErase' <=> NoErase
         /\ Slack' = Slack /\ ExtImage' = ExtImage
         /\ to' = to /\ board' = board /\ setup' = setup /\ closed' = closed /\ from' = from
<1>1. to' = to /\ board' = board /\ setup' = setup /\ closed' = closed /\ from' = from
  BY DEF Stays
<1>2. TypeInv'
  BY <1>1 DEF TypeInv, ClientType
<1>3. Cut'
  BY <1>1 DEF Cut
<1>4. /\ \A S : Sends(S)' <=> Sends(S)
      /\ \A op : Latest(op)' <=> Latest(op)
      /\ NoErase' <=> NoErase
  BY <1>1 DEF Sends, NoErase, Latest
<1> QED BY <1>1, <1>2, <1>3, <1>4 DEF Slack, ExtImage

\* Nor, when it reads nothing, the bytes under way.
LEMMA SameLoad ==
  ASSUME Stays, buf' = buf
  PROVE  Pipe' = Pipe /\ Load' = Load
<1>1. to' = to /\ board' = board /\ from' = from
  BY DEF Stays
<1> QED BY <1>1 DEF Pipe, Load, Sends

\* The guards of flash(): a refusal ends the session before anything is sent.
LEMMA GuardStep ==
  ASSUME FlashInv, Guard
  PROVE  FlashInv'
<1>1. /\ client.phase = "guard" /\ Stays /\ buf' = buf
      /\ Moves(ToPhase(client, "identify")) \/ Ends("refused")
  BY DEF Guard, Stays, link
<1>2. TypeInv /\ Cut /\ Untouched /\ ClientType
  BY DEF FlashInv, TypeInv, ClientType
<1>3. buf' \in Seq(Bytes)
  BY <1>1, <1>2 DEF TypeInv
<1>4. CASE Ends("refused")
  BY <1>1, <1>2, <1>3, <1>4, Fails
<1>5. CASE Moves(ToPhase(client, "identify"))
  <2>1. "identify" \in Phases \ {"guard", "over"} /\ 1 \in {1, 2}
    BY DEF Phases
  <2>2. /\ ClientType' /\ result' = result /\ client'.phase = "identify"
        /\ client'.step = First("identify")
        /\ client'.stage = (IF "identify" \in {"settle 1", "settle 2"} THEN "drain" ELSE "send")
        /\ client'.word = client.word
    BY <1>2, <1>5, <2>1, PhaseMoves
  <2>3. client'.step = "sync" /\ client'.stage = "send"
    BY <2>2, FirstIs
  <2>4. Where' /\ Settled'
    BY <2>2, <2>3 DEF Where, Settled, Exchange, Fetch
  <2>5. to' = to /\ setup' = setup /\ StaysButTo
    BY <1>1 DEF Stays, StaysButTo
  <2>6. Sends(Asking)' /\ OldBytes(buf)' /\ OldBytes(client.word)' /\ to' \in Seq(Writes)
    BY <1>1, <1>2, <2>2, <2>5 DEF Untouched, Sends, OldBytes, TypeInv, Early
  <2> QED BY <1>1, <1>3, <2>2, <2>4, <2>5, <2>6, EarlyKeeps DEF Early
<1> QED BY <1>1, <1>4, <1>5

\* The command that a step sends.
LEMMA OpcodeIs ==
  /\ client.step \in {"sync", "resync"} => Opcode = "GET_SYNC"
  /\ client.step = "info" => Opcode = "GET_DEVICE"
  /\ client.step = "version" => Opcode = "GET_VERSION"
  /\ client.step = "crc" => Opcode = (IF client.phase = "xverify" THEN "EXTF_GET_CRC" ELSE "GET_CRC")
  /\ client.step = "erase" => Opcode = (IF client.phase = "xerase" THEN "EXTF_ERASE" ELSE "CHIP_ERASE")
  /\ client.step \in {"frame", "resend"} =>
       Opcode = (IF client.phase = "xprogram" THEN "EXTF_PROG_MULTI" ELSE "PROG_MULTI")
  /\ client.step = "filler" => Opcode = "FILLER"
  /\ client.step = "rewind" => Opcode = "CHIP_VERIFY"
  /\ client.step = "read" => Opcode = "READ_MULTI"
  /\ client.step = "reboot" => Opcode = "REBOOT"
<1>1. CASE client.step \in {"sync", "resync"}
  BY <1>1 DEF Opcode
<1>2. CASE client.step \in {"info", "version", "crc", "erase"}
  BY <1>2 DEF Opcode
<1>3. CASE client.step \in {"frame", "resend", "filler"}
  BY <1>3 DEF Opcode
<1>4. CASE client.step \in {"rewind", "read", "reboot"}
  BY <1>4 DEF Opcode
<1> QED BY <1>1, <1>2, <1>3, <1>4

\* The read that its reply starts with.
LEMMA FirstReadIs ==
  /\ client.step \in {"info", "crc", "read"} /\ client.phase # "erase" => FirstRead = "field"
  /\ client.step = "version" /\ client.phase # "erase" => FirstRead = "version"
  /\ client.step \notin {"info", "crc", "read", "version"} /\ client.phase = "erase" =>
       FirstRead = "poll"
  /\ client.step \notin {"info", "crc", "read", "version"} /\ client.phase # "erase" =>
       FirstRead = "head"
<1>1. CASE client.step \in {"info", "crc", "read"} /\ client.phase # "erase"
  BY <1>1 DEF FirstRead
<1>2. CASE client.step = "version" /\ client.phase # "erase"
  BY <1>2 DEF FirstRead
<1>3. CASE client.step \notin {"info", "crc", "read", "version"}
  <2>1. ~(client.step \in {"info", "crc", "read"}) /\ ~(client.step = "version")
    BY <1>3
  <2> HIDE <1>3
  <2>2. CASE client.phase = "erase"
    BY <2>1, <2>2 DEF FirstRead
  <2>3. CASE client.phase # "erase"
    BY <2>1, <2>3 DEF FirstRead
  <2> QED BY <2>2, <2>3
<1> QED BY <1>1, <1>2, <1>3

\* Nothing under way.
LEMMA NoneSent ==
  ASSUME Len(to) = 0
  PROVE  \A S : Sends(S)
BY DEF Sends

\* The first command of an idle link is the only one.
LEMMA OneMore == \A n, m \in Nat : m = n + 1 /\ n = 0 => m = 1
OBVIOUS

\* The only command handled leaves none.
LEMMA OneLess == \A n, m \in Nat : m = n + 1 /\ m = 1 => n = 0
OBVIOUS

\* Fewer than none is none.
LEMMA NoMore == \A n, m \in Nat : m <= n /\ n = 0 => m = 0
OBVIOUS

\* The value a frame carries is a chunk of the image.
LEMMA DataIs ==
  ASSUME TypeInv, Within
  PROVE  Data \in Nat
<1>1. client.chunk \in Nat \ {0} /\ setup.ext \in Nat /\ Chunks \in Nat
  BY ExtImageIs, SizesAssumption DEF TypeInv
<1>2. CASE client.phase = "program"
  BY <1>1, <1>2 DEF Within, Image, Data
<1>3. CASE client.phase = "xprogram"
  BY <1>1, <1>3 DEF Within, ExtImage, Data
<1>4. CASE client.phase # "program" /\ client.phase # "xprogram"
  BY <1>4 DEF Data
<1> QED BY <1>2, <1>3, <1>4

\* A client that can send is in a step that sends.
LEMMA SendingSteps ==
  ASSUME ClientType, Where, client.stage = "send"
  PROVE  client.phase \notin {"guard", "over"} /\ client.step \notin {"none", "drain"}
<1>1. client.phase \notin {"guard", "over"}
  BY DEF Where
<1> QED BY <1>1 DEF Where, ClientType, Phases

\* What it sends comes after what is under way; what it flushes is gone.
LEMMA SendIs ==
  ASSUME TypeInv, Where, Within, Send
  PROVE  /\ client.stage = "send" /\ ~closed /\ ClientType
         /\ StaysButTo
         /\ buf' \in Seq(Bytes)
         /\ buf' \in {<<>>, buf} /\ (Flushes => buf' = <<>>)
         /\ to' \in Seq(Writes) /\ Len(to') = Len(to) + 1 /\ Len(to) \in Nat
         /\ to'[Len(to) + 1].op = Opcode /\ Opcode \in Ops
         /\ \A i \in 1..Len(to) : to'[i] = to[i]
         /\ client.step = "reboot" => Ends("flashed")
         /\ client.step = "filler" => Moves(ToStep(client, "drain"))
         /\ client.step \notin {"reboot", "filler"} =>
              Moves([client EXCEPT !.stage = FirstRead])
<1>1. client.stage = "send" /\ ~closed /\ ClientType /\ StaysButTo
  BY DEF Send, TypeInv, ClientType, StaysButTo
<1>2. buf' \in {<<>>, buf} /\ (Flushes => buf' = <<>>)
  BY DEF Send
<1>3. buf' \in Seq(Bytes)
  <2>1. buf \in Seq(Bytes) /\ <<>> \in Seq(Bytes)
    BY DEF TypeInv
  <2>2. buf' = <<>> \/ buf' = buf
    BY <1>2
  <2> QED BY <2>1, <2>2
<1>4. Opcode \in Ops
  <2>1. client.step \in Steps \ {"none", "drain"}
    BY <1>1, SendingSteps DEF ClientType
  <2>2. client.step \in {"sync", "resync", "info", "version", "crc", "erase", "frame", "resend",
                         "filler", "rewind", "read", "reboot"}
    BY <2>1 DEF Steps
  <2> QED BY <2>2, OpcodeIs DEF Ops, Long, Fields, Short
<1> DEFINE w == [op |-> Opcode, data |-> Data]
<1>5. w \in Writes /\ w.op = Opcode
  BY <1>4, DataIs DEF Writes
<1>6. to' = Append(to, w)
  BY DEF Send
<1> HIDE DEF w
<1>7. to \in Seq(Writes) /\ Len(to) \in Nat
  BY LinkType DEF TypeInv
<1>8. /\ to' \in Seq(Writes) /\ Len(to') = Len(to) + 1 /\ to'[Len(to) + 1] = w
      /\ \A i \in 1..Len(to) : to'[i] = to[i]
  BY <1>5, <1>6, <1>7, AppendProperties
<1>9. /\ client.step = "reboot" => Ends("flashed")
      /\ client.step = "filler" => Moves(ToStep(client, "drain"))
      /\ client.step \notin {"reboot", "filler"} => Moves([client EXCEPT !.stage = FirstRead])
  BY DEF Send
<1> QED BY <1>1, <1>2, <1>3, <1>4, <1>5, <1>7, <1>8, <1>9

\* What is under way then.
LEMMA SentLink ==
  ASSUME TypeInv, Where, Within, Send
  PROVE  /\ \A S : Sends(S)' <=> Sends(S) /\ Opcode \in S
         /\ NoErase' <=> NoErase /\ Opcode # "CHIP_ERASE"
         /\ \A op : op = Opcode => Latest(op)'
         /\ to' # <<>>
         /\ Len(Pipe') \in Nat /\ Len(Pipe') <= Len(Pipe)
         /\ \A k \in 1..Len(Pipe') : \E j \in 1..Len(Pipe) : Pipe'[k] = Pipe[j]
         /\ Load' <= Load + 2
         /\ OldBytes(buf) => OldBytes(buf)'
         /\ Slack' = Slack /\ ExtImage' = ExtImage
<1>1. /\ StaysButTo
      /\ buf' \in Seq(Bytes) /\ buf' \in {<<>>, buf}
      /\ to' \in Seq(Writes) /\ Len(to') = Len(to) + 1 /\ Len(to) \in Nat
      /\ to'[Len(to) + 1].op = Opcode
      /\ \A i \in 1..Len(to) : to'[i] = to[i]
  BY SendIs
<1>2. from' = from /\ board' = board /\ setup' = setup
  BY <1>1 DEF StaysButTo
<1>3. \A i \in 1..Len(to') : i \in 1..Len(to) \/ i = Len(to) + 1
  BY <1>1
<1>4. 1..Len(to) \subseteq 1..Len(to') /\ Len(to) + 1 \in 1..Len(to')
  BY <1>1
<1>5. \A S : Sends(S)' <=> Sends(S) /\ Opcode \in S
  <2> SUFFICES ASSUME NEW S PROVE Sends(S)' <=> Sends(S) /\ Opcode \in S
    OBVIOUS
  <2> QED BY <1>1, <1>3, <1>4 DEF Sends
<1>6. NoErase' <=> NoErase /\ Opcode # "CHIP_ERASE"
  BY <1>1, <1>3, <1>4 DEF NoErase
<1>7. to' # <<>> /\ \A op : op = Opcode => Latest(op)'
  <2>1. Len(to') # 0
    BY <1>1
  <2>2. to' # <<>>
    BY <1>1, <2>1, EmptySeq
  <2>3. to'[Len(to')].op = Opcode
    <3>1. Len(to') = Len(to) + 1 /\ to'[Len(to) + 1].op = Opcode
      BY <1>1
    <3> QED BY <3>1, Zenon
  <2> QED BY <2>2, <2>3, Zenon DEF Latest
<1>8. /\ Len(buf) \in Nat /\ Len(from) \in Nat /\ Pipe \in Seq(Bytes)
      /\ Len(Pipe) = Len(buf) + Len(from)
      /\ \A k \in 1..Len(from) : Pipe[Len(buf) + k] = from[k]
  BY LinkType
<1>9. /\ Len(Pipe') \in Nat /\ Len(Pipe') <= Len(Pipe)
      /\ \A k \in 1..Len(Pipe') : \E j \in 1..Len(Pipe) : Pipe'[k] = Pipe[j]
      /\ OldBytes(buf) => OldBytes(buf)'
      /\ Len(buf') \in Nat /\ Len(buf') <= Len(buf)
  <2>1. CASE buf' = buf
    BY <1>2, <1>8, <2>1 DEF Pipe, OldBytes
  <2>2. CASE buf' = <<>>
    <3>1. Pipe' = Cat(<<>>, from)
      BY <1>2, <2>2 DEF Pipe
    <3>2. <<>> \in Seq(Bytes) /\ from \in Seq(Bytes)
      BY DEF TypeInv
    <3>3. Cat(<<>>, from) = from
      BY <3>2, ConcatEmptySeq DEF Cat
    <3>4. Pipe' = from
      BY <3>1, <3>3
    <3>5. ASSUME NEW k \in 1..Len(from) PROVE \E j \in 1..Len(Pipe) : from[k] = Pipe[j]
      BY <1>8
    <3>6. Len(from) \in Nat /\ Len(from) <= Len(Pipe)
      BY <1>8
    <3>7. Len(buf') \in Nat /\ Len(buf') <= Len(buf)
      BY <1>8, <2>2
    <3>8. OldBytes(buf)'
      BY <2>2 DEF OldBytes
    <3> QED BY <3>4, <3>5, <3>6, <3>7, <3>8
  <2> QED BY <1>1, <2>1, <2>2
<1>10. Load' <= Load + 2
  <2> DEFINE p == IF board.mode = "payload" THEN 2 ELSE 0
             f == IF Sends(Ops \ {"FILLER"}) THEN 0 ELSE 2
             g == IF Sends(Ops \ {"FILLER"})' THEN 0 ELSE 2
  <2>1. p \in {0, 2} /\ f \in {0, 2} /\ g \in {0, 2} /\ (f = 2 => g = 2)
    BY <1>5
  <2>2. Load = Len(buf) + Len(from) + 2 * Len(to) + p - f
    BY DEF Load
  <2>3. Load' = Len(buf') + Len(from) + 2 * Len(to') + p - g
    BY <1>2 DEF Load
  <2> HIDE DEF p, f, g
  <2>4. \A b, c, m, t, u \in Nat, x, y, z \in {0, 2} :
          c <= b /\ u = t + 1 /\ (y = 2 => z = 2) =>
            c + m + 2 * u + x - z <= b + m + 2 * t + x - y + 2
    OBVIOUS
  <2>5. Len(to') \in Nat
    BY <1>1
  <2> QED BY <1>1, <1>8, <1>9, <2>1, <2>2, <2>3, <2>4, <2>5
<1> QED BY <1>2, <1>5, <1>6, <1>7, <1>9, <1>10 DEF Slack, ExtImage

\* A question.
LEMMA SendEarly ==
  ASSUME FlashInv, Send, client.phase \in Early
  PROVE  FlashInv'
<1>1. TypeInv /\ Where /\ Within /\ Cut /\ Untouched /\ Settled
  BY DEF FlashInv
<1>2. /\ client.stage = "send" /\ ~closed /\ ClientType /\ StaysButTo
      /\ buf' \in Seq(Bytes) /\ to' \in Seq(Writes)
      /\ client.step \notin {"reboot", "filler"} => Moves([client EXCEPT !.stage = FirstRead])
  BY <1>1, SendIs
<1>3. client.phase \in {"identify", "settle 1", "compare", "settle 2"}
  BY <1>1, <1>2, SendingSteps DEF Early
<1>4. /\ client.step \in {"sync", "resync", "info", "version", "crc"}
      /\ client.step = "crc" => client.phase = "compare"
  BY <1>1, <1>2, <1>3 DEF Where
<1>5. Opcode \in Asking /\ (client.step = "resync" => Opcode = "GET_SYNC")
  BY <1>3, <1>4, OpcodeIs DEF Asking
<1>6. /\ client.step \in {"sync", "resync"} => FirstRead = "head"
      /\ client.step \in {"info", "crc"} => FirstRead = "field"
      /\ client.step = "version" => FirstRead = "version"
  BY <1>3, <1>4, FirstReadIs
<1> DEFINE g == FirstRead
<1>7. g \in Stages
  BY <1>4, <1>6 DEF Stages, ReadStages
<1> HIDE DEF g
<1>8. Moves([client EXCEPT !.stage = g])
  BY <1>2, <1>4 DEF g
<1>9. /\ ClientType' /\ result' = result
      /\ client'.phase = client.phase /\ client'.step = client.step /\ client'.stage = g
      /\ client'.word = client.word
  BY <1>2, <1>7, <1>8, StageMoves
<1>10. Where'
  <2>1. /\ client'.step \in {"sync", "resync"} => client'.stage = "head"
        /\ client'.step \in {"info", "crc"} => client'.stage = "field"
        /\ client'.step = "version" => client'.stage = "version"
    BY <1>6, <1>9 DEF g
  <2>2. /\ client'.phase \in {"identify", "settle 1", "compare", "settle 2"}
        /\ client'.step \in {"sync", "resync", "info", "version", "crc"}
        /\ client'.phase = "identify" => client'.step \in {"sync", "info", "version", "drain", "resync"}
        /\ client'.phase \in {"settle 1", "settle 2"} => client'.step \in {"drain", "resync"}
        /\ client'.phase = "compare" => client'.step = "crc"
    BY <1>1, <1>3, <1>4, <1>9 DEF Where
  <2> QED BY <2>1, <2>2 DEF Where, Exchange, Fetch
<1>11. \A S : Sends(S)' <=> Sends(S) /\ Opcode \in S
  BY <1>1, SentLink
<1>12. Sends(Asking)'
  BY <1>1, <1>5, <1>11 DEF Untouched
<1>13. OldBytes(buf)' /\ OldBytes(client.word)'
  BY <1>1, <1>2, <1>9, SentLink DEF Untouched, StaysButTo, OldBytes
<1>14. Settled'
  <2> SUFFICES ASSUME client.phase = "settle 2", client.step = "resync" PROVE Settled'
    BY <1>9 DEF Settled
  <2>1. client'.stage = "head" /\ client.stage = "send" /\ Opcode = "GET_SYNC"
    BY <1>2, <1>5, <1>6, <1>9 DEF g
  <2>2. to = <<>> /\ Pipe = <<>>
    BY <1>1, <2>1 DEF Settled
  <2>7. Len(to) = 0 /\ Len(to) \in Nat /\ Len(to') = Len(to) + 1 /\ Len(to') \in Nat
    BY <1>1, <1>2, <2>2, LinkType, SendIs, LenProperties
  <2>3. Sends({"GET_SYNC"})
    BY <2>7, NoneSent
  <2>4. Sends({"GET_SYNC"})'
    BY <1>11, <2>1, <2>3
  <2>5. Len(to') = 1
    BY <2>7, OneMore
  <2>6. Pipe' = <<>>
    <3>1. Len(Pipe) = 0 /\ Len(Pipe') \in Nat /\ Len(Pipe') <= Len(Pipe)
      BY <1>1, <2>2, LinkType, SentLink
    <3>5. Len(Pipe) \in Nat
      BY <1>1, LinkType, LenProperties
    <3>2. Len(Pipe') = 0
      BY <3>1, <3>5, NoMore
    <3>3. from' \in Seq(Bytes)
      BY <1>1, <1>2 DEF TypeInv, StaysButTo
    <3>4. Pipe' \in Seq(Bytes)
      BY <1>2, <3>3, Joined DEF Pipe
    <3> QED BY <3>2, <3>4, EmptySeq
  <2> QED BY <2>1, <2>4, <2>5, <2>6 DEF Settled
<1> QED BY <1>1, <1>2, <1>9, <1>10, <1>12, <1>13, <1>14, EarlyKeeps

\* The types after a command is sent.
LEMMA SentType ==
  ASSUME TypeInv, Cut, Where, Within, Send, ClientType',
         result' \in {"none", "refused", "skipped", "failed", "flashed"}
  PROVE  /\ TypeInv' /\ Cut'
         /\ board' = board /\ setup' = setup /\ closed' = closed /\ from' = from
<1>1. StaysButTo /\ buf' \in Seq(Bytes) /\ to' \in Seq(Writes) /\ ~closed
  BY SendIs
<1>2. board' = board /\ setup' = setup /\ closed' = closed /\ from' = from
  BY <1>1 DEF StaysButTo
<1>3. TypeInv'
  BY <1>1, <1>2 DEF TypeInv, ClientType
<1> QED BY <1>1, <1>2, <1>3 DEF Cut

\* An erase.
LEMMA SendErasing ==
  ASSUME FlashInv, Send, client.phase \in {"xerase", "erase"}
  PROVE  FlashInv'
<1>1. TypeInv /\ Where /\ Within /\ Cut /\ ExtErase /\ Erase /\ External /\ Ended
  BY DEF FlashInv
<1>2. client.stage = "send" /\ ClientType
  BY <1>1, SendIs
<1>3. client.step = "erase"
  BY <1>1 DEF Where
<1>4. Opcode = (IF client.phase = "xerase" THEN "EXTF_ERASE" ELSE "CHIP_ERASE")
  BY <1>3, OpcodeIs
<1>5. FirstRead = (IF client.phase = "xerase" THEN "head" ELSE "poll")
  BY <1>3, FirstReadIs
<1> DEFINE g == FirstRead
<1>6. g \in Stages
  BY <1>5 DEF Stages, ReadStages
<1>7. Moves([client EXCEPT !.stage = g])
  BY <1>1, <1>3, SendIs
<1> HIDE DEF g
<1>8. /\ ClientType' /\ result' = result
      /\ client'.phase = client.phase /\ client'.step = client.step /\ client'.stage = g
      /\ client'.chunk = client.chunk
  BY <1>2, <1>6, <1>7, StageMoves
<1>9. /\ client'.phase = "xerase" => client'.stage = "head"
      /\ client'.phase = "erase" => client'.stage = "poll"
  BY <1>5, <1>8 DEF g
<1>10. result' = "none"
  BY <1>1, <1>8 DEF Ended
<1>11. TypeInv' /\ Cut' /\ board' = board /\ setup' = setup
  BY <1>1, <1>8, <1>10, SentType
<1>12. Where' /\ Within'
  BY <1>1, <1>3, <1>8, <1>9, <1>11 DEF Where, Within, Exchange
<1>13. /\ \A S : Sends(S)' <=> Sends(S) /\ Opcode \in S
       /\ \A op : op = Opcode => Latest(op)'
       /\ \A k \in 1..Len(Pipe') : \E j \in 1..Len(Pipe) : Pipe'[k] = Pipe[j]
       /\ Load' <= Load + 2 /\ Slack' = Slack /\ ExtImage' = ExtImage
  BY <1>1, SentLink
<1>14. ExtErase'
  <2> SUFFICES ASSUME client.phase = "xerase" PROVE ExtErase'
    BY <1>8 DEF ExtErase
  <2>1. \A i \in 1..Len(to) : to[i].op = "GET_SYNC"
    BY <1>1, <1>2 DEF ExtErase, Sends
  <2>2. Len(to') = Len(to) + 1 /\ Len(to) \in Nat /\ \A i \in 1..Len(to) : to'[i] = to[i]
    BY <1>1, SendIs
  <2>3. \A i \in 1..(Len(to') - 1) : to'[i].op = "GET_SYNC"
    BY <2>1, <2>2
  <2>4. \A k \in 1..Len(Pipe) : Pipe[k].t # "90%"
    BY <1>1, <1>2 DEF ExtErase
  <2>5. \A k \in 1..Len(Pipe') : Pipe'[k].t # "90%"
    BY <1>13, <2>4
  <2>6. Latest("EXTF_ERASE")'
    BY <1>4, <1>13
  <2> QED BY <1>1, <1>9, <1>11, <2>3, <2>5, <2>6 DEF ExtErase
<1>15. Erase'
  <2> SUFFICES ASSUME client.phase = "erase" PROVE Erase'
    BY <1>8 DEF Erase
  <2>1. Sends({"GET_SYNC", "CHIP_ERASE"})'
    BY <1>1, <1>4, <1>13 DEF Erase
  <2>2. Due = 0 /\ Due' = 2
    BY <1>2, <1>8, <1>9 DEF Due
  <2>3. Load <= Slack + Due
    BY <1>1 DEF Erase
  <2>4. Load \in Nat /\ Slack \in {0, 2}
    BY <1>1, LoadBounds DEF Slack
  <2>5. Load' \in Int
    BY <1>11, LoadNext DEF TypeInv
  <2>6. Load' <= Slack' + Due'
    BY <1>13, <2>2, <2>3, <2>4, <2>5
  <2> QED BY <1>1, <1>11, <2>1, <2>6 DEF Erase
<1>16. External'
  <2> SUFFICES ASSUME client.phase = "erase" PROVE External'
    BY <1>8 DEF External
  <2>1. Opcode \in Ops \ {"EXTF_ERASE", "EXTF_PROG_MULTI"}
    BY <1>4 DEF Ops, Short
  <2> QED BY <1>1, <1>11, <1>13, <2>1 DEF External, Holds
<1> QED BY <1>8, <1>10, <1>11, <1>12, <1>14, <1>15, <1>16, BeErasing

\* A frame, the filler that ends one, or the GET_SYNC after it.
LEMMA SendProgramming ==
  ASSUME FlashInv, Send, client.phase \in {"xprogram", "program"}
  PROVE  FlashInv'
<1>1. TypeInv /\ Where /\ Within /\ Cut /\ Programming /\ Overtaken /\ External /\ Ended
  BY DEF FlashInv
<1>2. client.stage = "send" /\ ClientType
  BY <1>1, SendIs
<1>3. client.step \in {"frame", "filler", "resync", "resend"}
  BY <1>1, <1>2, SendingSteps DEF Where
<1>4. /\ client.step \in {"frame", "resend"} =>
           Opcode = (IF client.phase = "xprogram" THEN "EXTF_PROG_MULTI" ELSE "PROG_MULTI")
      /\ client.step = "filler" => Opcode = "FILLER"
      /\ client.step = "resync" => Opcode = "GET_SYNC"
  BY OpcodeIs
<1>5. FirstRead = "head"
  BY <1>3, FirstReadIs
<1>6. \/ client.step = "filler" /\ Moves(ToStep(client, "drain"))
      \/ client.step # "filler" /\ Moves([client EXCEPT !.stage = "head"])
  BY <1>1, <1>3, <1>5, SendIs
<1>7. /\ ClientType' /\ result' = result
      /\ client'.phase = client.phase /\ client'.chunk = client.chunk
      /\ \/ client.step = "filler" /\ client'.step = "drain" /\ client'.stage = "drain"
         \/ client.step # "filler" /\ client'.step = client.step /\ client'.stage = "head"
  <2>1. "drain" \in Steps /\ "head" \in Stages
    BY DEF Steps, Stages, ReadStages
  <2>2. CASE client.step = "filler" /\ Moves(ToStep(client, "drain"))
    BY <1>2, <2>1, <2>2, StepMoves
  <2>3. CASE client.step # "filler" /\ Moves([client EXCEPT !.stage = "head"])
    BY <1>2, <2>1, <2>3, StageMoves
  <2> QED BY <1>6, <2>2, <2>3
<1>8. result' = "none"
  BY <1>1, <1>7 DEF Ended
<1>9. TypeInv' /\ Cut' /\ board' = board /\ setup' = setup
  BY <1>1, <1>7, <1>8, SentType
<1>10. Within'
  BY <1>1, <1>7, <1>9 DEF Within
<1>11. Where'
  BY <1>3, <1>7 DEF Where, Exchange
<1>12. /\ \A S : Sends(S)' <=> Sends(S) /\ Opcode \in S
       /\ NoErase' <=> NoErase /\ Opcode # "CHIP_ERASE"
       /\ Load' <= Load + 2 /\ ExtImage' = ExtImage
  BY <1>1, SentLink
<1>13. Opcode \in Short /\ Opcode # "CHIP_ERASE" /\ (client.phase = "program" => Opcode # "EXTF_PROG_MULTI")
  BY <1>3, <1>4 DEF Short
<1>14. Programming'
  <2>1. Sends(Short)'
    BY <1>1, <1>12, <1>13 DEF Programming
  <2> SUFFICES ASSUME client'.stage # "drain"
               PROVE  Load' <= 4 + (IF client'.step = "filler" THEN 2 ELSE Due')
    BY <2>1 DEF Programming
  <2>2. client'.stage = "head" /\ client'.step # "filler" /\ client.step # "filler"
    BY <1>7
  <2>3. Due' = 2 /\ Due = 0
    BY <1>2, <2>2 DEF Due
  <2>4. Load <= 4 + 0
    BY <1>1, <1>2, <2>2, <2>3 DEF Programming
  <2>5. Load \in Nat /\ Load' \in Int
    BY <1>1, <1>9, LoadBounds, LoadNext DEF TypeInv
  <2>6. \A l, m \in Int : l <= 4 + 0 /\ m <= l + 2 => m <= 4 + 2
    OBVIOUS
  <2>7. Load' <= 4 + 2
    BY <1>12, <2>4, <2>5, <2>6
  <2> QED BY <2>2, <2>3, <2>7
<1>15. Overtaken'
  <2>1. CASE NoErase
    BY <1>12, <1>13, <2>1 DEF Overtaken
  <2>2. CASE /\ client.phase = "program" /\ "late resync" \in Faults
             /\ board.mode = "idle" /\ Pipe = <<>>
             /\ \A i \in 1..Len(to) : (i = 1) = (to[i].op = "CHIP_ERASE")
             /\ \/ client.step = "frame" /\ client.stage = "send" /\ Len(to) = 1
                \/ client.step = "filler" /\ Len(to) = 2
                \/ client.step = "resync" /\ client.stage = "send" /\ Len(to) = 3
                     /\ to[3].op = "FILLER"
    <3>1. /\ Len(to') = Len(to) + 1 /\ to'[Len(to) + 1].op = Opcode
          /\ \A i \in 1..Len(to) : to'[i] = to[i]
      BY <1>1, SendIs
    <3>2. Pipe' = <<>>
      <4>1. Len(Pipe) = 0 /\ Len(Pipe) \in Nat
        BY <1>1, <2>2, LinkType, LenProperties
      <4>2. Len(Pipe') \in Nat /\ Len(Pipe') <= Len(Pipe)
        BY <1>1, SentLink
      <4>3. Len(Pipe') = 0
        BY <4>1, <4>2, NoMore
      <4>4. Pipe' \in Seq(Bytes)
        BY <1>9, Joined DEF Pipe, TypeInv
      <4> QED BY <4>3, <4>4, EmptySeq
    <3>3. \A i \in 1..Len(to') : (i = 1) = (to'[i].op = "CHIP_ERASE")
      <4> SUFFICES ASSUME NEW i \in 1..Len(to') PROVE (i = 1) = (to'[i].op = "CHIP_ERASE")
        OBVIOUS
      <4>4. i \in 1..(Len(to) + 1)
        BY <3>1
      <4>5. Len(to) = 1 \/ Len(to) = 2 \/ Len(to) = 3
        BY <2>2, Zenon
      <4>6. \A n \in Nat : n = 1 \/ n = 2 \/ n = 3 => n \in 1..3
        OBVIOUS
      <4>7. Len(to) \in Nat
        BY <1>1, LinkType
      <4>1. Len(to) \in 1..3 /\ i \in 1..(Len(to) + 1)
        BY <4>4, <4>5, <4>6, <4>7
      <4>2. CASE i \in 1..Len(to)
        BY <2>2, <3>1, <4>2
      <4>3. CASE i = Len(to) + 1
        BY <1>13, <3>1, <4>1, <4>3
      <4> QED BY <4>1, <4>2, <4>3
    <3>4. CASE client.step = "frame" /\ client.stage = "send" /\ Len(to) = 1
      <4>1. Len(to') = 2 /\ client'.step = "frame" /\ client'.stage = "head"
        BY <1>7, <3>1, <3>4
      <4> QED BY <1>7, <1>9, <2>2, <3>2, <3>3, <4>1 DEF Overtaken
    <3>5. CASE client.step = "filler" /\ Len(to) = 2
      <4>1. Len(to') = 3 /\ to'[3].op = "FILLER" /\ client'.step = "drain"
        BY <1>4, <1>7, <3>1, <3>5
      <4> QED BY <1>7, <1>9, <2>2, <3>2, <3>3, <4>1 DEF Overtaken
    <3>6. CASE client.step = "resync" /\ client.stage = "send" /\ Len(to) = 3
                 /\ to[3].op = "FILLER"
      <4>1. Len(to') = 4 /\ to'[3].op = "FILLER" /\ client'.step = "resync"
            /\ client'.stage = "head"
        BY <1>7, <3>1, <3>6
      <4> QED BY <1>7, <1>9, <2>2, <3>2, <3>3, <4>1 DEF Overtaken
    <3> QED BY <2>2, <3>4, <3>5, <3>6
  <2> QED BY <1>1, <1>2, <1>3, <2>1, <2>2 DEF Overtaken
<1>16. External'
  <2> SUFFICES ASSUME client.phase = "program" PROVE External'
    BY <1>7 DEF External
  <2>1. Opcode \in Ops \ {"EXTF_ERASE", "EXTF_PROG_MULTI"}
    BY <1>13 DEF Ops, Short
  <2> QED BY <1>1, <1>9, <1>12, <2>1 DEF External, Holds
<1> QED BY <1>7, <1>8, <1>9, <1>10, <1>11, <1>14, <1>15, <1>16, BeProgramming

\* A request for a CRC, for the cells from the first, or for the next of them.
LEMMA SendVerifying ==
  ASSUME FlashInv, Send, client.phase \in {"xverify", "verify"}
  PROVE  FlashInv'
<1>1. TypeInv /\ Where /\ Within /\ Cut /\ Verifying /\ Reading /\ External /\ Ended
  BY DEF FlashInv
<1>2. client.stage = "send" /\ ClientType /\ ~closed
  BY <1>1, SendIs
<1>3. client.step \in {"crc", "rewind", "read"} /\ (client.phase = "xverify" => client.step = "crc")
  BY <1>1, <1>2 DEF Where
<1>4. Opcode = Asked /\ Opcode \in {"CHIP_VERIFY", "READ_MULTI", "EXTF_GET_CRC", "GET_CRC"}
      /\ (client.step = "rewind" => Opcode = "CHIP_VERIFY")
  BY <1>3, OpcodeIs DEF Asked
<1>5. FirstRead = (IF client.step = "rewind" THEN "head" ELSE "field")
  BY <1>3, FirstReadIs
<1> DEFINE g == FirstRead
<1>6. g \in Stages
  BY <1>5 DEF Stages, ReadStages
<1>7. Moves([client EXCEPT !.stage = g])
  BY <1>1, <1>3, SendIs
<1> HIDE DEF g
<1>8. /\ ClientType' /\ result' = result
      /\ client'.phase = client.phase /\ client'.step = client.step /\ client'.stage = g
      /\ client'.chunk = client.chunk /\ client'.word = client.word
  BY <1>2, <1>6, <1>7, StageMoves
<1>9. client'.stage = (IF client.step = "rewind" THEN "head" ELSE "field")
  BY <1>5, <1>8 DEF g
<1>10. result' = "none"
  BY <1>1, <1>8 DEF Ended
<1>11. TypeInv' /\ Cut' /\ board' = board /\ setup' = setup /\ closed' = closed
  BY <1>1, <1>8, <1>10, SentType
<1>12. Where'
  BY <1>1, <1>3, <1>8, <1>9 DEF Where, Exchange, Fetch
<1>13. /\ \A S : Sends(S)' <=> Sends(S) /\ Opcode \in S
       /\ NoErase' <=> NoErase /\ Opcode # "CHIP_ERASE"
       /\ \A op : op = Opcode => Latest(op)'
       /\ to' # <<>>
       /\ Load' <= Load + 2 /\ ExtImage' = ExtImage
  BY <1>1, SentLink
<1>14. /\ Len(to') = Len(to) + 1 /\ Len(to) \in Nat /\ to'[Len(to) + 1].op = Opcode
       /\ \A i \in 1..Len(to) : to'[i] = to[i]
  BY <1>1, SendIs
<1>15. Sends(Short) /\ NoErase /\ Load <= 4 + Due
  BY <1>1, <1>2 DEF Verifying
<1>16. Verifying'
  <2>1. NoErase'
    BY <1>4, <1>13, <1>15
  <2>2. \A i \in 1..(Len(to') - 1) : to'[i].op \in Short
    BY <1>14, <1>15 DEF Sends
  <2>3. Asked' = Asked
    BY <1>8 DEF Asked
  <2>4. Latest(Asked)'
    BY <1>4, <1>13, <2>3
  <2>5. Due = 0 /\ Due' = (IF client.step = "rewind" THEN 2 ELSE 6)
    BY <1>2, <1>9 DEF Due
  <2>6. Load \in Nat /\ Load' \in Int
    BY <1>1, <1>11, LoadBounds, LoadNext DEF TypeInv
  <2>7. \A l, m \in Int : l <= 4 + 0 /\ m <= l + 2 => m <= 4 + 2 /\ m <= 6
    OBVIOUS
  <2>8. Load' <= 4 + 2 /\ Load' <= 6
    BY <1>13, <1>15, <2>5, <2>6, <2>7
  <2>9. client.step = "rewind" => Sends(Short)' /\ Load' <= 4 + Due'
    BY <1>4, <1>13, <1>15, <2>5, <2>8 DEF Short
  <2>10. client.step # "rewind" => Load' <= Due'
    BY <2>5, <2>8
  <2>11. client'.stage # "send"
    BY <1>9
  <2> QED BY <1>8, <2>1, <2>2, <2>4, <2>9, <2>10, <2>11 DEF Verifying
<1>17. Answered'
  BY <1>13 DEF Answered
<1>18. Reading'
  <2> SUFFICES ASSUME client.phase = "verify", client.step \in {"rewind", "read"}
               PROVE  Reading'
    BY <1>8 DEF Reading
  <2>1. CASE client.step = "rewind"
    BY <1>1, <1>8, <1>13, <2>1 DEF Reading
  <2>2. CASE client.step = "read"
    <3>1. /\ \A j \in 1..(client.chunk - 1) : Cells(board.flash, j, j) = <<j>>
          /\ to # <<>> => client.chunk = 1 /\ to[Len(to)].op = "CHIP_VERIFY"
          /\ to = <<>> => board.mode = "payload" \/ board.cursor = client.chunk - 1
      BY <1>1, <1>2, <2>2 DEF Reading
    <3>2. /\ client'.stage = "field" /\ client'.step = "read" /\ client'.chunk = client.chunk
      BY <1>8, <1>9, <2>2
    <3>3. to = <<>> <=> Len(to) = 0
      BY <1>1, LinkType
    <3>4. \A j \in 1..(client'.chunk - 1) : Cells(board'.flash, j, j) = <<j>>
      BY <1>11, <3>1, <3>2
    <3>5. Len(to') >= 2 => client'.chunk = 1 /\ to'[Len(to') - 1].op = "CHIP_VERIFY"
      <4> SUFFICES ASSUME Len(to') >= 2
                   PROVE  client'.chunk = 1 /\ to'[Len(to') - 1].op = "CHIP_VERIFY"
        OBVIOUS
      <4>1. Len(to) >= 1 /\ Len(to') - 1 = Len(to)
        BY <1>14
      <4>2. Len(to) \in 1..Len(to) /\ Len(to) # 0
        BY <1>14, <4>1
      <4>3. to'[Len(to)] = to[Len(to)]
        BY <1>14, <4>2
      <4> QED BY <3>1, <3>2, <3>3, <4>1, <4>2, <4>3
    <3>6. Len(to') = 1 => board'.mode = "payload" \/ board'.cursor = client'.chunk - 1
      BY <1>11, <1>14, <3>1, <3>2, <3>3, OneLess
    <3>7. client'.phase = "verify"
      BY <1>8
    <3> QED BY <1>13, <3>2, <3>4, <3>5, <3>6, <3>7 DEF Reading
  <2> QED BY <2>1, <2>2
<1>19. External'
  <2> SUFFICES ASSUME client.phase = "verify" PROVE External'
    BY <1>8 DEF External
  <2>1. Opcode \in Ops \ {"EXTF_ERASE", "EXTF_PROG_MULTI"}
    BY <1>4 DEF Ops, Short, Long, Fields
  <2> QED BY <1>1, <1>11, <1>13, <2>1 DEF External, Holds
<1> QED BY <1>8, <1>10, <1>11, <1>12, <1>16, <1>17, <1>18, <1>19, BeVerifying

\* The reboot of a board whose flash was verified.
LEMMA SendReboot ==
  ASSUME FlashInv, Send, client.phase = "reboot"
  PROVE  FlashInv'
<1>1. TypeInv /\ Where /\ Within /\ Cut /\ External /\ Ended
  BY DEF FlashInv
<1>2. ClientType /\ client.step = "reboot" /\ Ends("flashed")
  BY <1>1, SendIs DEF Where
<1>3. ClientType' /\ client'.phase = "over" /\ client'.stage = "none" /\ result' = "flashed"
  BY <1>2 DEF ClientType, Ends, Phases, Stages
<1>4. TypeInv' /\ Cut' /\ board' = board /\ setup' = setup
  BY <1>1, <1>3, SentType
<1>5. /\ to = <<>> /\ Holds(board.flash, Image) /\ Holds(board.ext, ExtImage)
  BY <1>1 DEF Ended, External
<1>6. Sends({"REBOOT"})'
  <2>1. Sends({"REBOOT"})
    BY <1>1, <1>5, LinkType, NoneSent
  <2>2. Opcode = "REBOOT"
    BY <1>2, OpcodeIs
  <2> QED BY <1>1, <2>1, <2>2, SentLink
<1>7. Holds(board.flash, Image)' /\ Holds(board.ext, ExtImage)'
  BY <1>4, <1>5 DEF Holds, Image, ExtImage
<1> QED BY <1>3, <1>4, <1>6, <1>7, BeOver DEF Ended

\* A command sent by a session, whatever its phase, is within what may be under way.
LEMMA SendStep ==
  ASSUME FlashInv, Send
  PROVE  FlashInv'
<1>1. TypeInv /\ Where /\ Within
  BY DEF FlashInv
<1>2. client.phase \in Phases \ {"guard", "over"}
  BY <1>1, SendIs, SendingSteps DEF ClientType
<1> QED BY <1>2, SendEarly, SendErasing, SendProgramming, SendVerifying, SendReboot
        DEF Phases, Early

-----------------------------------------------------------------------------
(* A client that waits in vain. *)

\* A chip erase that is under way is the next command to be handled.
LEMMA ErasingIs ==
  ASSUME TypeInv, Erasing
  PROVE  ~NoErase /\ \A S : Sends(S) => "CHIP_ERASE" \in S
<1>1. to # <<>> /\ Head(to).op = "CHIP_ERASE" /\ to \in Seq(Writes)
  BY DEF Erasing, TypeInv
<1>2. Head(to) = to[1] /\ 1 \in 1..Len(to)
  BY <1>1, LinkType, HeadTailProperties
<1> QED BY <1>1, <1>2 DEF NoErase, Sends

\* A chunk that was refused or not answered is ended with a filler.
LEMMA FrameFails ==
  ASSUME FlashInv, client.step = "frame", Moves(ToStep(client, "filler")),
         client.stage \in Exchange, Stays, buf' \in Seq(Bytes), Load' <= Load,
         NoErase \/ (Pipe' = Pipe /\ client.stage # "send")
  PROVE  FlashInv'
<1>1. TypeInv /\ Where /\ Within /\ Cut /\ Programming /\ Overtaken /\ External /\ Ended
  BY DEF FlashInv
<1>2. ClientType
  BY <1>1 DEF TypeInv, ClientType
<1>3. client.phase \in {"xprogram", "program"} /\ client.stage # "drain"
  BY <1>1, <1>2 DEF Where, ClientType, Phases, Exchange
<1>4. "filler" \in Steps
  BY DEF Steps
<1>5. /\ ClientType' /\ result' = result
      /\ client'.phase = client.phase /\ client'.step = "filler" /\ client'.stage = "send"
      /\ client'.chunk = client.chunk
  BY <1>2, <1>4, StepMoves
<1>6. result' = "none"
  BY <1>1, <1>3, <1>5 DEF Ended
<1>7. /\ TypeInv' /\ Cut'
      /\ \A S : Sends(S)' <=> Sends(S)
      /\ NoErase' <=> NoErase
      /\ ExtImage' = ExtImage
      /\ to' = to /\ board' = board /\ setup' = setup
  BY <1>1, <1>5, <1>6, Same
<1>8. Where' /\ Within'
  BY <1>1, <1>3, <1>5, <1>7 DEF Where, Within
<1>9. Programming'
  <2>1. Sends(Short)'
    BY <1>1, <1>3, <1>7 DEF Programming
  <2>2. Due \in {0, 1, 2}
    BY DEF Due, Exchange
  <2>3. Load <= 4 + Due
    BY <1>1, <1>3 DEF Programming
  <2>4. Load \in Nat /\ Load' \in Int
    BY <1>1, <1>7, LoadBounds, LoadNext DEF TypeInv
  <2>5. \A l, m \in Int, d \in {0, 1, 2} : l <= 4 + d /\ m <= l => m <= 4 + 2
    OBVIOUS
  <2>6. Load' <= 4 + 2
    BY <2>2, <2>3, <2>4, <2>5
  <2> QED BY <1>5, <2>1, <2>6 DEF Programming
<1>10. Overtaken'
  <2>1. CASE NoErase
    BY <1>7, <2>1 DEF Overtaken
  <2>2. CASE ~NoErase
    BY <1>1, <1>3, <1>5, <1>7, <2>2 DEF Overtaken
  <2> QED BY <2>1, <2>2
<1>11. External'
  BY <1>1, <1>5, <1>7 DEF External, Holds
<1> QED BY <1>3, <1>5, <1>6, <1>7, <1>8, <1>9, <1>10, <1>11, BeProgramming

\* A count of two is not a count of one.
LEMMA TwoIsNotOne == 2 # 1
OBVIOUS

\* A poll that takes a byte, when it goes on to the status, leaves what may be under way.
LEMMA PollFits ==
  \A n \in {0, 1}, l \in Nat, s \in {0, 2}, d, e \in {1, 2} :
     (e = 1 => n = 1) => (l <= s + d => l - n <= s + e) /\ (l <= d => l - n <= e)
OBVIOUS

\* The polls of an erase.
LEMMA Polling ==
  ASSUME FlashInv, client.stage \in {"poll", "poll status"},
         NEW g \in {"poll", "poll status"}, Moves([client EXCEPT !.stage = g]),
         Stays, buf' \in Seq(Bytes), NEW n \in {0, 1},
         Load' = Load - n, Len(Pipe') = Len(Pipe) - n, g = "poll status" => n = 1
  PROVE  FlashInv'
<1>1. TypeInv /\ Where /\ Within /\ Cut /\ ExtErase /\ Erase /\ External /\ Ended
  BY DEF FlashInv
<1>2. ClientType
  BY <1>1 DEF TypeInv, ClientType
<1>3. client.phase \in {"xerase", "erase"} /\ client.step = "erase"
  BY <1>1, <1>2 DEF Where, ClientType, Phases, Steps, Exchange, Fetch
<1>4. g \in Stages
  BY DEF Stages, ReadStages
<1>5. /\ ClientType' /\ result' = result
      /\ client'.phase = client.phase /\ client'.step = client.step /\ client'.stage = g
      /\ client'.chunk = client.chunk
  BY <1>2, <1>4, StageMoves
<1>6. result' = "none"
  BY <1>1, <1>3, <1>5 DEF Ended
<1>7. /\ TypeInv' /\ Cut'
      /\ \A S : Sends(S)' <=> Sends(S)
      /\ Slack' = Slack /\ ExtImage' = ExtImage
      /\ to' = to /\ board' = board /\ setup' = setup
  BY <1>1, <1>5, <1>6, Same
<1>8. Where' /\ Within'
  BY <1>1, <1>3, <1>5, <1>7 DEF Where, Within
<1>9. Due \in {1, 2} /\ Due' \in {1, 2} /\ (Due' = 1 => n = 1)
  <2>1. Due \in {1, 2}
    BY DEF Due
  <2>2. CASE g = "poll"
    <3>1. Due' = 2
      BY <1>5, <2>2 DEF Due
    <3> QED BY <2>1, <3>1, TwoIsNotOne, Zenon
  <2>3. CASE g = "poll status"
    <3>1. Due' = 1
      BY <1>5, <2>3 DEF Due
    <3> QED BY <2>1, <2>3, <3>1, Zenon
  <2> QED BY <2>2, <2>3
<1>10. Load \in Nat /\ Slack \in {0, 2} /\ Len(Pipe) \in Nat
  BY <1>1, LinkType, LenProperties, LoadBounds DEF Slack
<1>13. ExtErase'
  <2> SUFFICES ASSUME client.phase = "xerase" PROVE ExtErase'
    BY <1>5 DEF ExtErase
  <2>1. to = <<>> /\ Len(Pipe) <= Due
    BY <1>1 DEF ExtErase
  <2>2. Len(Pipe') <= Due'
    BY <1>9, <1>10, <2>1, PollFits
  <2>3. /\ board.mode = "idle" /\ \A i \in 1..(Len(to) - 1) : to[i].op = "GET_SYNC"
    BY <1>1 DEF ExtErase
  <2> QED BY <1>5, <1>7, <2>1, <2>2, <2>3 DEF ExtErase
<1>14. Erase'
  <2> SUFFICES ASSUME client.phase = "erase" PROVE Erase'
    BY <1>5 DEF Erase
  <2>1. Load <= Slack + Due /\ board.mode = "idle" /\ Sends({"GET_SYNC", "CHIP_ERASE"})
    BY <1>1 DEF Erase
  <2>2. Load' <= Slack' + Due'
    BY <1>7, <1>9, <1>10, <2>1, PollFits
  <2> QED BY <1>7, <2>1, <2>2 DEF Erase
<1>15. External'
  BY <1>1, <1>5, <1>7 DEF External, Holds
<1> QED BY <1>3, <1>5, <1>6, <1>7, <1>8, <1>13, <1>14, <1>15, BeErasing

\* What is under way while the line is settled for flash().
Settling == client.phase = "settle 2" /\ client.step = "resync"

\* What the resync that settles the line for flash() can still read.
LEMMA SettledIs ==
  ASSUME TypeInv, Untouched, Settled, Settling
  PROVE  /\ Sends({"GET_SYNC"}) /\ Load \in 0..2 /\ Load = Len(Pipe) + 2 * Len(to)
         /\ \A k \in 1..Len(Pipe) : Pipe[k].t # "90%"
         /\ client.stage = "send" => Load = 0
         /\ client.stage # "head" => Load <= 1
         /\ client.stage = "head" /\ Len(Pipe) >= 1 => Pipe[1].t = "INSYNC"
<1>1. board.mode = "idle"
  BY DEF Untouched, Early, Settling
<1>2. /\ Len(to) \in Nat /\ Len(Pipe) = Len(buf) + Len(from) /\ Len(buf) \in Nat /\ Len(from) \in Nat
      /\ (to = <<>> <=> Len(to) = 0) /\ (Pipe = <<>> <=> Len(Pipe) = 0)
  BY LinkType
<1>3. Len(Pipe) \in Nat
  BY <1>2
<1>4. \/ client.stage = "send" /\ to = <<>> /\ Pipe = <<>>
      \/ client.stage = "head" /\ Sends({"GET_SYNC"}) /\ Len(to) = 1 /\ Pipe = <<>>
      \/ client.stage = "head" /\ to = <<>> /\ Pipe = Ack("OK")
      \/ client.stage = "head" /\ to = <<>> /\ Pipe = <<Byte("INSYNC")>>
      \/ client.stage = "head" /\ to = <<>> /\ Pipe = <<>>
      \/ client.stage \notin {"send", "head"} /\ to = <<>> /\ Pipe = <<Byte("OK")>>
      \/ client.stage \notin {"send", "head"} /\ to = <<>> /\ Pipe = <<>>
  <2>1. CASE client.stage = "send"
    BY <2>1 DEF Settled, Settling
  <2>2. CASE client.stage = "head"
    BY <2>2 DEF Settled, Settling
  <2>3. CASE client.stage \notin {"send", "head"}
    BY <2>3 DEF Settled, Settling
  <2> QED BY <2>1, <2>2, <2>3
<1>5. Sends({"GET_SYNC"})
  BY <1>2, <1>4, NoneSent
<1>6. /\ Len(Ack("OK")) = 2 /\ Len(<<Byte("INSYNC")>>) = 1 /\ Len(<<Byte("OK")>>) = 1
      /\ \A k \in 1..2 : Ack("OK")[k].t # "90%"
      /\ Ack("OK")[1].t = "INSYNC" /\ <<Byte("INSYNC")>>[1].t = "INSYNC"
      /\ \A k \in 1..1 : <<Byte("INSYNC")>>[k].t # "90%" /\ <<Byte("OK")>>[k].t # "90%"
  BY DEF Ack, Byte
<1>7. \A k \in 1..Len(Pipe) : Pipe[k].t # "90%"
  <2>1. CASE Len(Pipe) = 0
    BY <2>1
  <2>2. CASE Pipe = Ack("OK")
    BY <1>6, <2>2
  <2>3. CASE Pipe = <<Byte("INSYNC")>>
    BY <1>6, <2>3
  <2>4. CASE Pipe = <<Byte("OK")>>
    BY <1>6, <2>4
  <2> QED BY <1>2, <1>4, <2>1, <2>2, <2>3, <2>4
<1>8. client.stage = "head" /\ Len(Pipe) >= 1 => Pipe[1].t = "INSYNC"
  <2> SUFFICES ASSUME client.stage = "head", Len(Pipe) >= 1 PROVE Pipe[1].t = "INSYNC"
    OBVIOUS
  <2>1. Len(Pipe) # 0
    BY <1>3
  <2>2. Pipe = Ack("OK") \/ Pipe = <<Byte("INSYNC")>>
    BY <1>2, <1>4, <2>1
  <2> QED BY <1>6, <2>2
<1>9. \/ client.stage = "send" /\ Len(to) = 0 /\ Len(Pipe) = 0
      \/ client.stage = "head" /\ Len(to) = 1 /\ Len(Pipe) = 0
      \/ client.stage = "head" /\ Len(to) = 0 /\ Len(Pipe) \in 0..2
      \/ client.stage \notin {"send", "head"} /\ Len(to) = 0 /\ Len(Pipe) \in 0..1
  <2>1. 0 \in 0..2 /\ 1 \in 0..2 /\ 2 \in 0..2 /\ 0 \in 0..1 /\ 1 \in 0..1
    OBVIOUS
  <2> QED BY <1>2, <1>4, <1>6, <2>1
<1>10. Load = Len(Pipe) + 2 * Len(to)
  BY <1>1, <1>5, LoadBounds DEF Sends, Ops, Short
<1>11. \A l, p, t \in Int : l = p + 2 * t =>
         /\ t = 0 /\ p = 0 => l = 0 /\ l <= 1 /\ l \in 0..2
         /\ t = 1 /\ p = 0 => l = 2 /\ l \in 0..2
         /\ t = 0 /\ p \in 0..2 => l \in 0..2
         /\ t = 0 /\ p \in 0..1 => l <= 1 /\ l \in 0..2
  OBVIOUS
<1>12. Load \in Nat /\ Len(Pipe) \in Int /\ Len(to) \in Int
  BY <1>2, <1>3, LoadBounds
<1>13. /\ Load \in 0..2 /\ (client.stage = "send" => Load = 0)
       /\ (client.stage # "head" => Load <= 1)
  <2>1. Load \in Int
    BY <1>12
  <2>2. /\ Len(to) = 0 /\ Len(Pipe) = 0 => Load = 0 /\ Load <= 1 /\ Load \in 0..2
        /\ Len(to) = 1 /\ Len(Pipe) = 0 => Load = 2 /\ Load \in 0..2
        /\ Len(to) = 0 /\ Len(Pipe) \in 0..2 => Load \in 0..2
        /\ Len(to) = 0 /\ Len(Pipe) \in 0..1 => Load <= 1 /\ Load \in 0..2
    BY <1>10, <1>11, <1>12, <2>1
  <2>3. "send" # "head"
    OBVIOUS
  <2> QED BY <1>9, <2>2, <2>3, Zenon
<1> QED BY <1>5, <1>7, <1>8, <1>10, <1>13

\* The end of a drain.
LEMMA DrainStep ==
  ASSUME FlashInv, DrainEnds
  PROVE  FlashInv'
<1>1. /\ TypeInv /\ Where /\ Within /\ Cut /\ Untouched /\ Programming /\ Overtaken /\ External
      /\ Ended
  BY DEF FlashInv
<1>2. /\ client.stage = "drain" /\ Moves(ToStep(client, "resync")) /\ Stays /\ buf' = buf
      /\ buf = <<>> /\ ((from = <<>> /\ to = <<>>) \/ Erasing)
  BY <1>1 DEF DrainEnds, Silent, Quiet, Stays, link, Cut
<1>3. ClientType /\ buf' \in Seq(Bytes)
  BY <1>1, <1>2 DEF TypeInv, ClientType
<1>4. client.step = "drain" /\ client.phase \in {"identify", "settle 1", "settle 2", "xprogram", "program"}
  BY <1>1, <1>2, <1>3 DEF Where, ClientType, Phases, Steps, Exchange, Fetch
<1>5. "resync" \in Steps
  BY DEF Steps
<1>6. /\ ClientType' /\ result' = result
      /\ client'.phase = client.phase /\ client'.step = "resync" /\ client'.stage = "send"
      /\ client'.chunk = client.chunk /\ client'.word = client.word
  BY <1>2, <1>3, <1>5, StepMoves
<1>7. result' = "none"
  BY <1>1, <1>4, <1>6 DEF Ended
<1>8. /\ TypeInv' /\ Cut'
      /\ \A S : Sends(S)' <=> Sends(S)
      /\ NoErase' <=> NoErase
      /\ ExtImage' = ExtImage
      /\ to' = to /\ board' = board /\ setup' = setup
  BY <1>1, <1>2, <1>3, <1>6, <1>7, Same
<1>9. Pipe' = Pipe /\ Load' = Load
  BY <1>2, SameLoad
<1>10. Where'
  BY <1>4, <1>6 DEF Where, Exchange
<1>11. from = <<>> /\ to = <<>> => Pipe = <<>>
  BY <1>1, <1>2, LinkType
<1>12. Erasing => ~NoErase /\ ~Sends(Asking)
  BY <1>1, ErasingIs DEF Asking
<1>13. CASE client.phase \in {"identify", "settle 1", "settle 2"}
  <2>1. client.phase \in Early
    BY <1>13 DEF Early
  <2>2. Sends(Asking) /\ from = <<>> /\ to = <<>>
    BY <1>1, <1>2, <1>12, <2>1 DEF Untouched
  <2>3. Sends(Asking)' /\ OldBytes(buf)' /\ OldBytes(client.word)' /\ to' \in Seq(Writes)
    BY <1>1, <1>2, <1>6, <1>8, <2>1 DEF Untouched, OldBytes, TypeInv
  <2>4. Settled'
    BY <1>6, <1>8, <1>9, <1>11, <2>2 DEF Settled
  <2>5. StaysButTo /\ client'.phase \in Early
    BY <1>2, <1>6, <2>1 DEF Stays, StaysButTo
  <2> QED BY <1>3, <1>6, <1>8, <1>10, <2>1, <2>3, <2>4, <2>5, EarlyKeeps
<1>14. CASE client.phase \in {"xprogram", "program"}
  <2>1. Within'
    BY <1>1, <1>6, <1>8 DEF Within
  <2>2. External'
    BY <1>1, <1>6, <1>8 DEF External, Holds
  <2>3. \/ NoErase
        \/ /\ client.phase = "program" /\ "late resync" \in Faults
           /\ board.mode = "idle" /\ Pipe = <<>>
           /\ \A i \in 1..Len(to) : (i = 1) = (to[i].op = "CHIP_ERASE")
           /\ Len(to) = 3 /\ to[3].op = "FILLER"
    BY <1>1, <1>4, <1>14 DEF Overtaken
  <2>4. Overtaken'
    <3>1. CASE NoErase
      BY <1>8, <3>1 DEF Overtaken
    <3>2. CASE /\ client.phase = "program" /\ "late resync" \in Faults
               /\ board.mode = "idle" /\ Pipe = <<>>
               /\ \A i \in 1..Len(to) : (i = 1) = (to[i].op = "CHIP_ERASE")
               /\ Len(to) = 3 /\ to[3].op = "FILLER"
      BY <1>6, <1>8, <1>9, <3>2 DEF Overtaken
    <3> QED BY <2>3, <3>1, <3>2
  <2>5. Load <= 4
    <3>1. CASE from = <<>> /\ to = <<>>
      BY <1>1, <1>11, <3>1, LinkType, LoadBounds
    <3>2. CASE Erasing
      <4>1. /\ board.mode = "idle" /\ Pipe = <<>> /\ Len(to) = 3 /\ to[3].op = "FILLER"
        BY <1>12, <2>3, <3>2
      <4>2. ~Sends(Ops \ {"FILLER"})
        BY <4>1 DEF Sends
      <4>3. PICK p \in {0, 2}, f \in {0, 2} :
               /\ Load = Len(Pipe) + 2 * Len(to) + p - f
               /\ p = 0 <=> board.mode = "idle"
               /\ f = 0 <=> Sends(Ops \ {"FILLER"})
        BY <1>1, LoadIs
      <4>4. p = 0 /\ f = 2 /\ Len(Pipe) = 0
        BY <1>1, <4>1, <4>2, <4>3, LinkType
      <4>5. Load = 0 + 2 * 3 + 0 - 2
        BY <4>1, <4>3, <4>4
      <4> QED BY <4>5
    <3> QED BY <1>2, <3>1, <3>2
  <2>6. Programming'
    <3>1. Due' = 0 /\ Sends(Short)'
      BY <1>1, <1>6, <1>8, <1>14 DEF Due, Programming
    <3>2. Load' <= 4 + 0
      BY <1>9, <2>5
    <3> QED BY <1>6, <3>1, <3>2 DEF Programming
  <2> QED BY <1>6, <1>7, <1>8, <1>10, <1>14, <2>1, <2>2, <2>4, <2>6, BeProgramming
<1> QED BY <1>4, <1>13, <1>14

\* A step that ends without its answer.
LEMMA SilenceStep ==
  ASSUME FlashInv, Timeout \/ FailsClosed
  PROVE  FlashInv'
<1>1. TypeInv /\ Where /\ Cut /\ Untouched /\ Settled /\ Overtaken /\ External /\ Ended
  BY DEF FlashInv
<1>2. /\ ClientType /\ client.stage # "none" /\ Stays /\ buf' = buf
      /\ \/ closed /\ client.stage = "send" /\ client.step = "reboot" /\ Ends("flashed")
         \/ closed /\ client.stage = "send" /\ client.step # "reboot" /\ Rejects("closed")
         \/ /\ client.stage \in ReadStages \ {"drain"} /\ Len(buf) < Needs(client.stage)
            /\ \/ client.stage = "poll status" /\ Moves([client EXCEPT !.stage = "poll"])
               \/ \E error : Rejects(error)
      /\ \/ from = <<>> /\ to = <<>>
         \/ client.phase # "erase" /\ Erasing
         \/ client.phase = "settle 2" => "late resync" \in Faults
  BY <1>1, SilenceIs
<1>3. buf' \in Seq(Bytes) /\ Pipe' = Pipe /\ Load' = Load /\ Load \in Nat
  BY <1>1, <1>2, SameLoad, LoadBounds DEF TypeInv
<1>4. CASE closed /\ client.stage = "send" /\ client.step = "reboot" /\ Ends("flashed")
  <2>1. ClientType' /\ client'.phase = "over" /\ client'.stage = "none" /\ result' = "flashed"
    BY <1>2, <1>4 DEF ClientType, Ends, Phases, Stages
  <2>2. client.phase = "reboot"
    BY <1>1, <1>2, <1>4 DEF Where, ClientType, Phases
  <2>3. to = <<>> /\ Holds(board.flash, Image) /\ Holds(board.ext, ExtImage)
    BY <1>1, <2>2 DEF Ended, External
  <2>4. TypeInv' /\ Cut' /\ to' = to /\ board' = board /\ setup' = setup
    BY <1>1, <1>2, <1>3, <2>1, Same
  <2>5. Sends({"REBOOT"})'
    BY <1>1, <2>3, <2>4, LinkType, NoneSent DEF Sends
  <2>6. Holds(board.flash, Image)' /\ Holds(board.ext, ExtImage)'
    BY <2>3, <2>4 DEF Holds, Image, ExtImage
  <2>7. Ended'
    BY <2>1, <2>5, <2>6 DEF Ended
  <2> QED BY <2>1, <2>4, <2>7, BeOver
<1>5. CASE client.stage = "poll status" /\ Moves([client EXCEPT !.stage = "poll"])
  <2> DEFINE g == "poll"
             n == 0
  <2>1. g \in {"poll", "poll status"} /\ (g = "poll status" => n = 1) /\ n \in {0, 1}
        /\ Moves([client EXCEPT !.stage = g])
    BY <1>5
  <2>2. Len(Pipe) \in Nat
    BY <1>1, LinkType, LenProperties
  <2>3. Load' = Load - n /\ Len(Pipe') = Len(Pipe) - n
    BY <1>3, <2>2
  <2> HIDE DEF g, n
  <2> QED BY <1>2, <1>3, <1>5, <2>1, <2>3, Polling
<1>6. CASE /\ client.stage = "send" \/ client.stage \in ReadStages \ {"drain"}
           /\ client.stage = "send" => closed
           /\ client.stage # "send" => Len(buf) < Needs(client.stage)
           /\ \E error : Rejects(error)
  <2>1. PICK error : Rejects(error)
    BY <1>6
  <2>2. CASE client.phase \in Early
    <3>1. OldBytes(buf)'
      BY <1>1, <1>2, <2>2 DEF Untouched, OldBytes, Stays
    <3>2. ASSUME client.phase = "settle 2" PROVE Clean
      <4>1. client.step = "resync" /\ client.stage \in Exchange
        BY <1>1, <1>6, <3>2 DEF Where, ReadStages
      <4>2. /\ Sends({"GET_SYNC"}) /\ Load \in 0..2 /\ Load = Len(Pipe) + 2 * Len(to)
            /\ \A k \in 1..Len(Pipe) : Pipe[k].t # "90%"
            /\ client.stage = "send" => Load = 0
        BY <1>1, <3>2, <4>1, SettledIs DEF Settling
      <4>3. Sends({"GET_SYNC"})' /\ \A k \in 1..Len(Pipe') : Pipe'[k].t # "90%"
        BY <1>2, <1>3, <4>2 DEF Sends, Stays
      <4>4. Load <= Slack
        <5>1. CASE "late resync" \in Faults
          <6>1. Slack = 2
            BY <5>1 DEF Slack
          <6>2. \A l \in 0..2 : l <= 2
            OBVIOUS
          <6> QED BY <4>2, <6>1, <6>2
        <5>2. CASE "late resync" \notin Faults
          <6>1. Slack = 0
            BY <5>2 DEF Slack
          <6>2. Load = 0
            <7>1. CASE client.stage = "send"
              BY <4>2, <7>1
            <7>2. CASE client.stage # "send"
              <8>1. ~Erasing
                BY <1>1, <4>2, ErasingIs
              <8>2. from = <<>> /\ to = <<>>
                BY <1>2, <3>2, <5>2, <8>1
              <8>3. Needs(client.stage) = 1
                BY <4>1, <7>2 DEF Needs, Exchange
              <8>4. Len(buf) < 1
                BY <1>6, <7>2, <8>3
              <8>5. buf = <<>>
                BY <1>1, <8>4, LinkType
              <8>6. Len(Pipe) = 0 /\ Len(to) = 0
                BY <1>1, <8>2, <8>5, LinkType
              <8> QED BY <4>2, <8>6
            <7> QED BY <7>1, <7>2
          <6>3. 0 <= 0
            OBVIOUS
          <6> QED BY <6>1, <6>2, <6>3
        <5> QED BY <5>1, <5>2
      <4> QED BY <1>3, <4>3, <4>4 DEF Clean
    <3> QED BY <1>2, <1>3, <2>1, <2>2, <3>1, <3>2, EarlyEnds
  <2>3. CASE client.phase \notin Early
    <3>1. client.phase \notin {"identify", "settle 1", "settle 2", "compare"}
      BY <2>3 DEF Early
    <3>2. Ends("failed") \/ (client.step = "frame" /\ Moves(ToStep(client, "filler")))
      BY <1>1, <1>2, <2>1, <3>1, RejectsIs
    <3>3. CASE Ends("failed")
      BY <1>1, <1>2, <1>3, <3>3, Fails
    <3>4. CASE client.step = "frame" /\ Moves(ToStep(client, "filler"))
      <4>1. client.stage \in Exchange /\ client.phase \in {"xprogram", "program"}
        BY <1>1, <1>2, <3>4 DEF Where, ClientType, Phases
      <4>2. Load' <= Load
        BY <1>3
      <4>3. NoErase \/ (Pipe' = Pipe /\ client.stage # "send")
        <5>1. CASE client.stage = "send"
          BY <1>1, <1>6, <5>1, LinkType DEF Cut, NoErase
        <5>2. CASE client.stage # "send"
          BY <1>3, <5>2
        <5> QED BY <5>1, <5>2
      <4> QED BY <1>2, <1>3, <3>4, <4>1, <4>2, <4>3, FrameFails
    <3> QED BY <3>2, <3>3, <3>4
  <2> QED BY <2>2, <2>3
<1> QED BY <1>2, <1>4, <1>5, <1>6 DEF ReadStages

-----------------------------------------------------------------------------
(* A client that reads. *)

\* The byte that is read is the first under way.
LEMMA OneTaken ==
  ASSUME TypeInv, Takes(1)
  PROVE  /\ buf' \in Seq(Bytes)
         /\ Load \in Nat /\ Load' \in Int /\ Load' = Load - 1 /\ Load' <= Load
         /\ Len(Pipe) \in Nat /\ Len(Pipe) >= 1 /\ Len(Pipe') = Len(Pipe) - 1 /\ Len(Pipe') \in Nat
         /\ \A k \in 1..Len(Pipe') : Pipe'[k] = Pipe[k + 1]
         /\ Head(buf) = Pipe[1] /\ Pipe # <<>>
<1>1. 1 \in 1..4
  OBVIOUS
<1>2. /\ buf' \in Seq(Bytes) /\ Len(Pipe) >= 1 /\ Len(Pipe') = Len(Pipe) - 1
      /\ \A k \in 1..Len(Pipe') : Pipe'[k] = Pipe[k + 1]
      /\ Load' = Load - 1 /\ Head(buf) = Pipe[1]
  BY <1>1, TakesBytes
<1>3. Pipe \in Seq(Bytes) /\ (Pipe = <<>> <=> Len(Pipe) = 0) /\ Load \in Nat
  BY LinkType, LoadBounds
<1>4. Len(Pipe) \in Nat
  BY <1>3, LenProperties
<1>5. Load' <= Load /\ Load' \in Int
  BY <1>2, <1>3
<1>6. Len(Pipe') \in Nat
  BY <1>2, <1>4
<1>7. Pipe # <<>>
  BY <1>2, <1>3, <1>4
<1> QED BY <1>2, <1>3, <1>4, <1>5, <1>6, <1>7

\* The next read of a step, before flash().
LEMMA EarlyReads ==
  ASSUME FlashInv, client.phase \in Early, Stays, buf' \in Seq(Bytes), OldBytes(buf)',
         ClientType', result' = result,
         client'.phase = client.phase, client'.step = client.step,
         client'.stage \in ReadStages,
         OldBytes(client.word)', Where', Settled'
  PROVE  FlashInv'
<1>1. TypeInv /\ Untouched
  BY DEF FlashInv
<1>2. to' = to /\ StaysButTo
  BY DEF Stays, StaysButTo
<1>3. Sends(Asking)' /\ to' \in Seq(Writes)
  BY <1>1, <1>2 DEF Untouched, Sends, TypeInv
<1> QED BY <1>2, <1>3, EarlyKeeps

\* An OK that follows an INSYNC.
LEMMA LeavesOK ==
  ASSUME TypeInv, Takes(1), Pipe \in {Ack("OK"), <<Byte("INSYNC")>>, <<>>}
  PROVE  Pipe' \in {<<Byte("OK")>>, <<>>}
<1>1. /\ Len(Pipe) >= 1 /\ Len(Pipe') = Len(Pipe) - 1 /\ Pipe # <<>>
      /\ \A k \in 1..Len(Pipe') : Pipe'[k] = Pipe[k + 1]
      /\ buf' \in Seq(Bytes)
  BY OneTaken
<1>2. Pipe' \in Seq(Bytes)
  BY <1>1, Joined DEF Takes, TypeInv, Pipe
<1>3. CASE Pipe = Ack("OK")
  <2>1. Len(Ack("OK")) = 2 /\ Ack("OK")[2] = Byte("OK")
    BY DEF Ack
  <2>2. Len(Pipe) = 2 /\ Pipe[2] = Byte("OK")
    BY <1>3, <2>1
  <2>3. Len(Pipe') = 1
    BY <1>1, <2>2
  <2>4. Pipe'[1] = Byte("OK")
    BY <1>1, <2>2, <2>3
  <2>5. Len(<<Byte("OK")>>) = 1 /\ <<Byte("OK")>>[1] = Byte("OK") /\ <<Byte("OK")>> \in Seq(Bytes)
    BY DEF Bytes, Byte, Names
  <2>6. \A k \in 1..1 : Pipe'[k] = <<Byte("OK")>>[k]
    BY <2>4, <2>5
  <2>7. Pipe' = <<Byte("OK")>>
    BY <1>2, <2>3, <2>5, <2>6, SeqEqual
  <2> QED BY <2>7
<1>4. CASE Pipe = <<Byte("INSYNC")>>
  BY <1>1, <1>2, <1>4, EmptySeq
<1> QED BY <1>1, <1>3, <1>4

\* A read before flash() finds replies about the old firmware only.
LEMMA ReadEarly ==
  ASSUME FlashInv, Read, client.phase \in Early
  PROVE  FlashInv'
<1>1. TypeInv /\ Where /\ Cut /\ Untouched /\ Settled
  BY DEF FlashInv
<1>2. /\ client.stage \in ReadStages /\ client.stage # "none" /\ ClientType /\ Stays
      /\ buf' \in Seq(Bytes)
      /\ client.stage = "drain" => buf' = <<>> /\ Moves(client)
      /\ client.stage \in {"field", "rest"} => Takes(4)
      /\ client.stage \notin {"field", "rest", "drain"} => Takes(1)
      /\ client.stage = "field" =>
           Moves([client EXCEPT !.stage = "head", !.word = SubSeq(buf, 1, 4)])
      /\ client.stage = "version" => Moves([client EXCEPT !.stage = "refusal"])
                                       \/ Moves([client EXCEPT !.stage = "rest"])
      /\ client.stage = "rest" => Moves([client EXCEPT !.stage = "head"])
                                    \/ Moves(ToStep(client, "drain"))
      /\ client.stage = "refusal" => Resolves
      /\ client.stage = "head" => TakesHead(Head(buf))
      /\ client.stage = "status" => TakesStatus(Head(buf))
  BY <1>1, ReadIs
<1>3. client.phase \in {"identify", "settle 1", "compare", "settle 2"}
  BY <1>1, <1>2 DEF Where, Early
<1>4. /\ setup' = setup
      /\ OldBytes(buf) /\ OldBytes(client.word)
  BY <1>1, <1>2 DEF Untouched, Stays
<1>5. OldBytes(buf)'
  <2>1. CASE client.stage = "drain"
    BY <1>2, <2>1 DEF OldBytes
  <2>2. CASE client.stage \in {"field", "rest"}
    BY <1>1, <1>2, <1>4, <2>2, OldTaken
  <2>3. CASE client.stage \notin {"field", "rest", "drain"}
    BY <1>1, <1>2, <1>4, <2>3, OldTaken
  <2> QED BY <2>1, <2>2, <2>3
<1>6. CASE client.stage = "drain"
  <2>1. client' = client /\ result' = result
    BY <1>2, <1>6 DEF Moves
  <2>2. ClientType'
    BY <1>2, <2>1 DEF ClientType
  <2>3. Where'
    BY <1>1, <2>1, ZenonT(60) DEF Where
  <2>4. client.step # "resync"
    BY <1>1, <1>3, <1>6 DEF Where, Exchange
  <2>5. Settled'
    BY <2>1, <2>4 DEF Settled
  <2>6. OldBytes(client.word)'
    BY <1>4, <2>1 DEF OldBytes
  <2> QED BY <1>2, <1>5, <2>1, <2>2, <2>3, <2>5, <2>6, EarlyReads
<1>7. ASSUME NEW g \in {"refusal", "rest", "head", "status"}, Moves([client EXCEPT !.stage = g]),
             g = "status" => client.stage = "head",
             g # "status" => client.step = "version"
      PROVE  FlashInv'
  <2>1. g \in Stages /\ g \in ReadStages
    BY <1>7 DEF Stages, ReadStages
  <2>2. /\ ClientType' /\ result' = result
        /\ client'.phase = client.phase /\ client'.step = client.step /\ client'.stage = g
        /\ client'.word = client.word
    BY <1>2, <1>7, <2>1, StageMoves
  <2>3. OldBytes(client.word)'
    BY <1>4, <2>2 DEF OldBytes
  <2>4. CASE g # "status"
    <3>1. client.phase = "identify"
      BY <1>1, <1>3, <1>7, <2>4 DEF Where
    <3>2. Where'
      BY <1>7, <2>2, <2>4, <3>1 DEF Where, Exchange
    <3>3. Settled'
      BY <2>2, <3>1 DEF Settled
    <3> QED BY <1>2, <1>5, <2>1, <2>2, <2>3, <3>2, <3>3, EarlyReads
  <2>5. CASE g = "status"
    <3>1. client.stage = "head" /\ client.step # "drain"
      BY <1>1, <1>3, <1>7, <2>5 DEF Where
    <3>2. client.step \in {"sync", "info", "version", "resync", "crc"}
      BY <1>1, <1>3, <3>1 DEF Where
    <3>3. Where'
      <4>1. /\ client'.phase \in {"identify", "settle 1", "compare", "settle 2"}
            /\ client'.stage = "status" /\ client'.step # "drain"
            /\ client'.step \in {"sync", "info", "version", "resync", "crc"}
            /\ client'.phase = "identify" =>
                 client'.step \in {"sync", "info", "version", "drain", "resync"}
            /\ client'.phase \in {"settle 1", "settle 2"} => client'.step \in {"drain", "resync"}
            /\ client'.phase = "compare" => client'.step = "crc"
        BY <1>1, <1>3, <2>2, <2>5, <3>1, <3>2 DEF Where
      <4> QED BY <4>1 DEF Where, Exchange, Fetch
    <3>4. Settled'
      <4> SUFFICES ASSUME client.phase = "settle 2", client.step = "resync" PROVE Settled'
        BY <2>2 DEF Settled
      <4>1. \/ Sends({"GET_SYNC"}) /\ Len(to) = 1 /\ Pipe = <<>>
            \/ to = <<>> /\ Pipe \in {Ack("OK"), <<Byte("INSYNC")>>, <<>>}
        BY <1>1, <3>1 DEF Settled
      <4>2. Takes(1)
        BY <1>2, <3>1
      <4>3. Pipe # <<>>
        BY <1>1, <4>2, OneTaken
      <4>4. to = <<>> /\ Pipe \in {Ack("OK"), <<Byte("INSYNC")>>, <<>>}
        BY <4>1, <4>3
      <4>5. Pipe' \in {<<Byte("OK")>>, <<>>}
        BY <1>1, <4>2, <4>4, LeavesOK
      <4>6. to' = <<>> /\ client'.stage = "status"
        BY <1>2, <2>2, <2>5, <4>4 DEF Stays
      <4> QED BY <4>5, <4>6 DEF Settled
    <3> QED BY <1>2, <1>5, <2>1, <2>2, <2>3, <3>3, <3>4, EarlyReads
  <2> QED BY <2>4, <2>5
<1>8. CASE client.stage = "field"
  <2> DEFINE w == SubSeq(buf, 1, 4)
  <2>1. 4 \in 1..4 /\ Takes(4)
    BY <1>2, <1>8
  <2>2. w \in Seq(Bytes) /\ OldBytes(w)
    BY <1>1, <1>4, <2>1, TakesBytes, OldTaken
  <2>3. Moves([client EXCEPT !.stage = "head", !.word = w])
    BY <1>2, <1>8
  <2> HIDE DEF w
  <2>4. /\ ClientType' /\ result' = result
        /\ client'.phase = client.phase /\ client'.step = client.step /\ client'.stage = "head"
        /\ client'.word = w
    BY <1>2, <2>2, <2>3 DEF ClientType, Moves, Stages, ReadStages
  <2>5. client.step \in {"info", "crc"}
    BY <1>1, <1>3, <1>8 DEF Where, Exchange
  <2>6. Where' /\ Settled'
    BY <1>1, <1>3, <2>4, <2>5 DEF Where, Settled, Exchange, Fetch
  <2>7. OldBytes(client.word)'
    BY <1>4, <2>2, <2>4 DEF OldBytes
  <2>8. client'.stage \in ReadStages
    BY <2>4 DEF ReadStages
  <2> QED BY <1>2, <1>5, <2>4, <2>6, <2>7, <2>8, EarlyReads
<1>9. CASE client.stage \in {"version", "rest"}
  <2>1. client.step = "version" /\ client.phase = "identify"
    BY <1>1, <1>3, <1>9 DEF Where, Exchange, Fetch
  <2>2. CASE Moves(ToStep(client, "drain"))
    <3>1. "drain" \in Steps
      BY DEF Steps
    <3>2. /\ ClientType' /\ result' = result
          /\ client'.phase = client.phase /\ client'.step = "drain" /\ client'.stage = "drain"
          /\ client'.word = client.word
      BY <1>2, <2>2, <3>1, StepMoves
    <3>3. Where' /\ Settled'
      BY <2>1, <3>2 DEF Where, Settled
    <3>4. to' = to /\ StaysButTo
      BY <1>2 DEF Stays, StaysButTo
    <3>5. Sends(Asking)' /\ to' \in Seq(Writes) /\ OldBytes(client.word)' /\ client'.phase \in Early
      BY <1>1, <1>4, <3>2, <3>4 DEF Untouched, Sends, TypeInv, OldBytes
    <3> QED BY <1>2, <1>5, <3>2, <3>3, <3>4, <3>5, EarlyKeeps
  <2>3. CASE \E g \in {"refusal", "rest", "head"} : Moves([client EXCEPT !.stage = g])
    <3>1. PICK g \in {"refusal", "rest", "head"} : Moves([client EXCEPT !.stage = g])
      BY <2>3
    <3>2. g \in {"refusal", "rest", "head", "status"} /\ g # "status"
      OBVIOUS
    <3> QED BY <1>7, <2>1, <3>1, <3>2
  <2>4. Moves(ToStep(client, "drain"))
          \/ \E g \in {"refusal", "rest", "head"} : Moves([client EXCEPT !.stage = g])
    BY <1>2, <1>9
  <2> QED BY <2>2, <2>3, <2>4
<1>10. CASE client.stage \in {"refusal", "head", "status"}
  <2>1. Takes(1)
    BY <1>2, <1>10
  <2>2. \/ client.stage = "head" /\ Moves([client EXCEPT !.stage = "status"])
        \/ /\ Resolves \/ (\E error : Rejects(error))
           /\ client.stage = "head" => Head(buf).t # "INSYNC"
    <3>1. CASE client.stage = "refusal"
      BY <1>2, <3>1
    <3>2. CASE client.stage = "head"
      BY <1>2, <3>2 DEF TakesHead
    <3>3. CASE client.stage = "status"
      BY <1>2, <1>3, <3>3 DEF TakesStatus
    <3> QED BY <1>10, <3>1, <3>2, <3>3
  <2>3. CASE client.stage = "head" /\ Moves([client EXCEPT !.stage = "status"])
    <3> DEFINE g == "status"
    <3>1. g \in {"refusal", "rest", "head", "status"} /\ (g # "status" => client.step = "version")
          /\ Moves([client EXCEPT !.stage = g])
      BY <2>3
    <3> HIDE DEF g
    <3> QED BY <1>7, <2>3, <3>1
  <2>4. CASE /\ Resolves \/ (\E error : Rejects(error))
             /\ client.stage = "head" => Head(buf).t # "INSYNC"
    <3>1. ASSUME client.phase = "settle 2" PROVE Clean
      <4>1. client.step = "resync" /\ client.stage \in {"head", "status"}
        BY <1>1, <1>10, <3>1 DEF Where, Exchange
      <4>2. /\ Sends({"GET_SYNC"}) /\ Load \in 0..2
            /\ \A k \in 1..Len(Pipe) : Pipe[k].t # "90%"
            /\ client.stage # "head" => Load <= 1
            /\ client.stage = "head" /\ Len(Pipe) >= 1 => Pipe[1].t = "INSYNC"
        BY <1>1, <3>1, <4>1, SettledIs DEF Settling
      <4>3. /\ Load \in Nat /\ Load' = Load - 1
            /\ Len(Pipe) \in Nat /\ Len(Pipe) >= 1 /\ Len(Pipe') = Len(Pipe) - 1
            /\ \A k \in 1..Len(Pipe') : Pipe'[k] = Pipe[k + 1]
            /\ Head(buf) = Pipe[1]
        BY <1>1, <2>1, OneTaken
      <4>4. client.stage = "status"
        BY <2>4, <4>1, <4>2, <4>3
      <4>5. Load <= 1
        BY <4>2, <4>4
      <4>6. Load' <= Slack
        <5>1. \A l \in Nat, s \in {0, 2} : l <= 1 => l - 1 <= s
          OBVIOUS
        <5>2. Slack \in {0, 2}
          BY DEF Slack
        <5> QED BY <4>3, <4>5, <5>1, <5>2
      <4>7. \A k \in 1..Len(Pipe') : Pipe'[k].t # "90%"
        <5> SUFFICES ASSUME NEW k \in 1..Len(Pipe') PROVE Pipe'[k].t # "90%"
          OBVIOUS
        <5>1. k + 1 \in 1..Len(Pipe)
          BY <4>3
        <5> QED BY <4>2, <4>3, <5>1
      <4>8. Sends({"GET_SYNC"})'
        BY <1>2, <4>2 DEF Sends, Stays
      <4> QED BY <4>6, <4>7, <4>8 DEF Clean
    <3> QED BY <1>2, <1>5, <2>4, <3>1, EarlyEnds
  <2> QED BY <2>2, <2>3, <2>4
<1>11. client.stage \notin {"percent", "poll", "poll status"}
  <2>1. CASE client.step = "drain"
    BY <1>1, <1>3, <2>1 DEF Where
  <2>2. CASE client.step \in {"sync", "resync", "info", "crc", "version"}
    BY <1>1, <1>3, <2>2 DEF Where, Exchange, Fetch
  <2>3. client.step \in {"drain", "sync", "resync", "info", "crc", "version"}
    BY <1>1, <1>3 DEF Where
  <2> QED BY <2>1, <2>2, <2>3
<1> QED BY <1>2, <1>6, <1>8, <1>9, <1>10, <1>11 DEF ReadStages

\* The slack is an ack, and only where a reply can be late for the resync.
LEMMA SlackIs == Slack \in {0, 2} /\ (Slack = 2 => "late resync" \in Faults)
<1>1. 0 # 2
  OBVIOUS
<1>2. CASE "late resync" \in Faults
  BY <1>2 DEF Slack
<1>3. CASE "late resync" \notin Faults
  BY <1>1, <1>3 DEF Slack
<1> QED BY <1>2, <1>3

\* The first frame follows an erase; what is still under way with it is little.
Polled == client.stage = "poll status"

\* The end of an erase starts the programming, with at most a late ack under way.
LEMMA StartsProgram ==
  ASSUME FlashInv, client.phase \in {"xerase", "erase"}, Advances, Takes(1), Stays, Polled
  PROVE  FlashInv'
<1>1. TypeInv /\ Where /\ Within /\ Cut /\ ExtErase /\ Erase /\ External /\ Ended
  BY DEF FlashInv
<1>2. ClientType
  BY <1>1 DEF TypeInv, ClientType
<1>3. /\ buf' \in Seq(Bytes)
      /\ Load \in Nat /\ Load' \in Int /\ Load' = Load - 1
      /\ Len(Pipe) \in Nat /\ Len(Pipe') = Len(Pipe) - 1 /\ Len(Pipe') \in Nat
  BY <1>1, OneTaken
<1> DEFINE p == IF client.phase = "xerase" THEN "xprogram" ELSE "program"
<1>4. p \in Phases \ {"guard", "over"} /\ p \in {"xprogram", "program"} /\ 1 \in {1, 2}
      /\ (p = "xprogram" <=> client.phase = "xerase")
  BY DEF Phases
<1>5. Moves(ToPhase(client, p))
  BY AdvancesIs
<1> HIDE DEF p
<1>6. /\ ClientType' /\ result' = result /\ client'.phase = p /\ client'.step = First(p)
      /\ client'.stage = (IF p \in {"settle 1", "settle 2"} THEN "drain" ELSE "send")
      /\ client'.chunk = 1
  BY <1>2, <1>4, <1>5, PhaseMoves
<1>7. client'.step = "frame" /\ client'.stage = "send" /\ client'.phase \in {"xprogram", "program"}
  BY <1>4, <1>6, FirstIs
<1>8. result' = "none"
  BY <1>1, <1>6 DEF Ended
<1>9. /\ TypeInv' /\ Cut'
      /\ \A S : Sends(S)' <=> Sends(S)
      /\ NoErase' <=> NoErase
      /\ ExtImage' = ExtImage
      /\ to' = to /\ board' = board /\ setup' = setup
  BY <1>1, <1>3, <1>6, <1>8, Same
<1>10. Where'
  BY <1>7 DEF Where, Exchange
<1>11. Within'
  <2>1. CASE client.phase = "xerase"
    BY <1>1, <1>4, <1>6, <1>9, <2>1, ExtImageIs DEF Within
  <2>2. CASE client.phase = "erase"
    <3>1. \A n \in Nat \ {0} : 1 <= n
      OBVIOUS
    <3>2. 1 <= Chunks /\ p = "program"
      BY <1>4, <2>2, <3>1, SizesAssumption
    <3> QED BY <1>6, <3>2 DEF Within
  <2> QED BY <2>1, <2>2
<1>12. Due = 1
  BY DEF Due, Polled
<1>13. Sends(Short) /\ Load' <= 4
  <2>1. CASE client.phase = "xerase"
    <3>1. to = <<>> /\ Len(Pipe) <= Due
      BY <1>1, <2>1 DEF ExtErase, Polled
    <3>2. Sends(Short)
      BY <1>1, <3>1, LinkType, NoneSent
    <3>3. Load <= Len(Pipe) + 2
      BY <1>1, <3>1, LoadBounds
    <3>4. \A l, n \in Nat : l <= n + 2 /\ n <= 1 => l - 1 <= 4
      OBVIOUS
    <3> QED BY <1>3, <1>12, <3>1, <3>2, <3>3, <3>4
  <2>2. CASE client.phase = "erase"
    <3>1. Sends({"GET_SYNC", "CHIP_ERASE"}) /\ Load <= Slack + Due
      BY <1>1, <2>2 DEF Erase
    <3>2. Sends(Short)
      BY <3>1 DEF Sends, Short
    <3>3. Slack \in {0, 2}
      BY DEF Slack
    <3>4. \A l \in Nat, s \in {0, 2} : l <= s + 1 => l - 1 <= 4
      OBVIOUS
    <3> QED BY <1>3, <1>12, <3>1, <3>2, <3>3, <3>4
  <2> QED BY <2>1, <2>2
<1>14. Programming'
  BY <1>3, <1>7, <1>9, <1>13 DEF Due, Programming
<1>15. Overtaken'
  <2>1. CASE NoErase
    BY <1>9, <2>1 DEF Overtaken
  <2>2. CASE ~NoErase
    <3>1. PICK i \in 1..Len(to) : to[i].op = "CHIP_ERASE"
      BY <2>2 DEF NoErase
    <3>2. Len(to) \in Nat /\ (to = <<>> <=> Len(to) = 0)
      BY <1>1, LinkType
    <3>3. to # <<>>
      BY <3>1, <3>2
    <3>4. client.phase = "erase"
      BY <1>1, <3>3 DEF ExtErase, Polled
    <3>5. board.mode = "idle" /\ Sends({"GET_SYNC", "CHIP_ERASE"}) /\ Load <= Slack + Due
      BY <1>1, <3>4 DEF Erase
    <3>6. Sends(Ops \ {"FILLER"})
      BY <3>5 DEF Sends, Ops, Short
    <3>7. Load = Len(Pipe) + 2 * Len(to)
      BY <1>1, <3>5, <3>6, LoadBounds
    <3>8. Slack \in {0, 2} /\ (Slack = 2 => "late resync" \in Faults)
      BY SlackIs
    <3>9. Len(Pipe) >= 1 /\ Len(to) # 0
      BY <1>1, <3>2, <3>3, OneTaken
    <3>10. \A n, t \in Nat, s \in {0, 2} :
              n >= 1 /\ t # 0 /\ n + 2 * t <= s + 1 => s = 2 /\ t = 1 /\ n = 1 /\ n - 1 = 0
      OBVIOUS
    <3>11. Slack = 2 /\ Len(to) = 1 /\ Len(Pipe) - 1 = 0
      BY <1>3, <1>12, <3>2, <3>5, <3>7, <3>8, <3>9, <3>10
    <3>12. Pipe' = <<>>
      BY <1>3, <1>9, <3>11, Joined, EmptySeq DEF TypeInv, Pipe
    <3>13. to[1].op = "CHIP_ERASE"
      BY <3>1, <3>11
    <3>14. \A j \in 1..Len(to) : (j = 1) = (to[j].op = "CHIP_ERASE")
      BY <3>11, <3>13
    <3>15. client'.phase = "program"
      BY <1>4, <1>6, <3>4
    <3> QED BY <1>7, <1>9, <3>5, <3>8, <3>11, <3>12, <3>14, <3>15 DEF Overtaken
  <2> QED BY <2>1, <2>2
<1>16. External'
  <2> SUFFICES ASSUME client.phase = "erase" PROVE External'
    BY <1>4, <1>6 DEF External
  <2> QED BY <1>1, <1>9 DEF External, Holds
<1> QED BY <1>7, <1>8, <1>9, <1>10, <1>11, <1>14, <1>15, <1>16, BeProgramming

\* The acks of the external flash's erase.
LEMMA ExtProgress ==
  ASSUME FlashInv, client.phase = "xerase", Takes(1), Stays,
         NEW g \in {"status", "percent", "poll"}, Moves([client EXCEPT !.stage = g]),
         client.stage \in {"head", "status", "percent"},
         g = "poll" => Head(buf).t = "90%"
  PROVE  FlashInv'
<1>1. TypeInv /\ Where /\ Within /\ Cut /\ ExtErase /\ Ended
  BY DEF FlashInv
<1>2. ClientType
  BY <1>1 DEF TypeInv, ClientType
<1>3. /\ buf' \in Seq(Bytes)
      /\ Len(Pipe) \in Nat /\ Len(Pipe) >= 1 /\ Len(Pipe') = Len(Pipe) - 1 /\ Len(Pipe') \in Nat
      /\ \A k \in 1..Len(Pipe') : Pipe'[k] = Pipe[k + 1]
      /\ Head(buf) = Pipe[1]
  BY <1>1, OneTaken
<1>4. g \in Stages /\ client.step = "erase"
  BY <1>1 DEF Stages, ReadStages, Where
<1>5. /\ ClientType' /\ result' = result
      /\ client'.phase = client.phase /\ client'.step = client.step /\ client'.stage = g
  BY <1>2, <1>4, StageMoves
<1>6. result' = "none"
  BY <1>1, <1>5 DEF Ended
<1>7. /\ TypeInv' /\ Cut'
      /\ \A op : Latest(op)' <=> Latest(op)
      /\ to' = to /\ board' = board /\ setup' = setup
  BY <1>1, <1>3, <1>5, <1>6, Same
<1>8. Where' /\ Within'
  BY <1>1, <1>4, <1>5, <1>7 DEF Where, Within, Exchange
<1>9. /\ board.mode = "idle" /\ \A i \in 1..(Len(to) - 1) : to[i].op = "GET_SYNC"
      /\ Latest("EXTF_ERASE")
      /\ \A k \in 1..Len(Pipe) : Pipe[k].t = "90%" => to = <<>> /\ Len(Pipe) <= k + 2
  BY <1>1 DEF ExtErase
<1>10. ASSUME NEW k \in 1..Len(Pipe'), Pipe'[k].t = "90%"
       PROVE  to = <<>> /\ Len(Pipe') <= k + 2
  BY <1>3, <1>9, <1>10
<1>11. g = "poll" => to = <<>> /\ Len(Pipe') <= 2
  <2> SUFFICES ASSUME g = "poll" PROVE to = <<>> /\ Len(Pipe') <= 2
    OBVIOUS
  <2>1. 1 \in 1..Len(Pipe) /\ Pipe[1].t = "90%"
    BY <1>3
  <2>2. to = <<>> /\ Len(Pipe) <= 1 + 2
    BY <1>9, <2>1
  <2>3. \A n \in Nat : n <= 1 + 2 => n - 1 <= 2
    OBVIOUS
  <2> QED BY <1>3, <2>2, <2>3
<1>12. ExtErase'
  <2>1. CASE g = "poll"
    BY <1>5, <1>7, <1>9, <1>11, <2>1 DEF Due, ExtErase
  <2>2. CASE g # "poll"
    BY <1>5, <1>7, <1>9, <1>10, <2>2 DEF ExtErase
  <2> QED BY <2>1, <2>2
<1>13. Erase' /\ External'
  BY <1>5 DEF Erase, External
<1>14. client'.phase \in {"xerase", "erase"}
  BY <1>5
<1> QED BY <1>6, <1>7, <1>8, <1>12, <1>13, <1>14, BeErasing

\* A read in the course of an erase.
LEMMA ReadErasing ==
  ASSUME FlashInv, Read, client.phase \in {"xerase", "erase"}
  PROVE  FlashInv'
<1>1. TypeInv /\ Where /\ Cut
  BY DEF FlashInv
<1>2. /\ client.stage \in ReadStages /\ client.stage # "none" /\ ClientType /\ Stays
      /\ buf' \in Seq(Bytes)
      /\ client.stage \notin {"field", "rest", "drain"} => Takes(1)
      /\ client.stage = "head" => TakesHead(Head(buf))
      /\ client.stage = "status" => TakesStatus(Head(buf))
      /\ client.stage = "percent" =>
           \/ Head(buf).t = "90%" /\ Moves([client EXCEPT !.stage = "poll"])
           \/ Head(buf).t # "90%" /\ Moves([client EXCEPT !.stage = "percent"])
      /\ client.stage = "poll" => Moves([client EXCEPT !.stage = "poll status"])
                                    \/ Moves([client EXCEPT !.stage = "poll"])
      /\ client.stage = "poll status" => PollsStatus(Head(buf))
  BY <1>1, ReadIs
<1>3. /\ client.step = "erase"
      /\ client.stage \in {"head", "status", "percent", "poll", "poll status"}
      /\ client.phase = "erase" => client.stage \in {"poll", "poll status"}
  BY <1>1, <1>2 DEF Where, Exchange, ReadStages
<1>4. Takes(1)
  BY <1>2, <1>3
<1>5. ASSUME NEW error, Rejects(error) PROVE FlashInv'
  BY <1>1, <1>2, <1>3, <1>5, RejectsIs, Fails
<1>6. ASSUME NEW g \in {"poll", "poll status"}, Moves([client EXCEPT !.stage = g]),
             client.stage \in {"poll", "poll status"}
      PROVE  FlashInv'
  <2> DEFINE n == 1
  <2>1. n \in {0, 1} /\ (g = "poll status" => n = 1) /\ n = 1
    OBVIOUS
  <2> HIDE DEF n
  <2>2. Load' = Load - n /\ Len(Pipe') = Len(Pipe) - n
    BY <1>1, <1>4, <2>1, OneTaken
  <2> QED BY <1>2, <1>6, <2>1, <2>2, Polling
<1>7. CASE client.stage = "head"
  <2>1. CASE Moves([client EXCEPT !.stage = "status"])
    <3> DEFINE g == "status"
    <3>1. g \in {"status", "percent", "poll"} /\ (g = "poll" => Head(buf).t = "90%")
          /\ Moves([client EXCEPT !.stage = g])
      BY <2>1
    <3> HIDE DEF g
    <3>2. client.phase = "xerase" /\ client.stage \in {"head", "status", "percent"}
      BY <1>3, <1>7
    <3> QED BY <1>2, <1>4, <3>1, <3>2, ExtProgress
  <2> QED BY <1>2, <1>5, <1>7, <2>1 DEF TakesHead
<1>8. CASE client.stage = "status"
  <2>1. CASE Moves([client EXCEPT !.stage = "percent"])
    <3> DEFINE g == "percent"
    <3>1. g \in {"status", "percent", "poll"} /\ (g = "poll" => Head(buf).t = "90%")
          /\ Moves([client EXCEPT !.stage = g])
      BY <2>1
    <3> HIDE DEF g
    <3>2. client.phase = "xerase" /\ client.stage \in {"head", "status", "percent"}
      BY <1>3, <1>8
    <3> QED BY <1>2, <1>4, <3>1, <3>2, ExtProgress
  <2>2. client.phase = "xerase"
    BY <1>3, <1>8
  <2>3. TakesStatus(Head(buf))
    BY <1>2, <1>8
  <2>4. Moves([client EXCEPT !.stage = "percent"]) \/ Rejects(Head(buf).t)
    BY <2>2, <2>3 DEF TakesStatus
  <2> QED BY <1>5, <2>1, <2>4
<1>9. CASE client.stage = "percent"
  <2>1. PICK g \in {"percent", "poll"} : /\ Moves([client EXCEPT !.stage = g])
                                         /\ g = "poll" => Head(buf).t = "90%"
    BY <1>2, <1>9
  <2>2. client.phase = "xerase" /\ client.stage \in {"head", "status", "percent"}
        /\ g \in {"status", "percent", "poll"}
    BY <1>3, <1>9
  <2> QED BY <1>2, <1>4, <2>1, <2>2, ExtProgress
<1>10. CASE client.stage = "poll"
  <2>1. PICK g \in {"poll", "poll status"} : Moves([client EXCEPT !.stage = g])
    BY <1>2, <1>10
  <2> QED BY <1>6, <1>10, <2>1
<1>11. CASE client.stage = "poll status"
  <2>1. PollsStatus(Head(buf))
    BY <1>2, <1>11
  <2>2. Resolves \/ Rejects(Head(buf).t) \/ Moves([client EXCEPT !.stage = "poll"])
    BY <2>1 DEF PollsStatus
  <2>3. CASE Resolves
    <3>1. Advances
      BY <1>1, <1>2, <1>3, <2>3, ResolvesIs
    <3> QED BY <1>2, <1>4, <1>11, <3>1, StartsProgram DEF Polled
  <2>4. CASE Moves([client EXCEPT !.stage = "poll"])
    <3> DEFINE g == "poll"
    <3>1. g \in {"poll", "poll status"} /\ Moves([client EXCEPT !.stage = g])
      BY <2>4
    <3> HIDE DEF g
    <3>2. client.stage \in {"poll", "poll status"}
      BY <1>11
    <3> QED BY <1>6, <3>1, <3>2
  <2> QED BY <1>5, <2>2, <2>3, <2>4
<1> QED BY <1>3, <1>7, <1>8, <1>9, <1>10, <1>11

Confirmed == client.stage = "status"

\* The image is written: what was written is verified.
LEMMA StartsVerify ==
  ASSUME FlashInv, client.phase \in {"xprogram", "program"}, Advances, Takes(1), Stays,
         NoErase, Confirmed
  PROVE  FlashInv'
<1>1. TypeInv /\ Where /\ Cut /\ Programming /\ External /\ Ended
  BY DEF FlashInv
<1>2. ClientType
  BY <1>1 DEF TypeInv, ClientType
<1>3. /\ buf' \in Seq(Bytes) /\ Load \in Nat /\ Load' \in Int /\ Load' = Load - 1
  BY <1>1, OneTaken
<1> DEFINE p == IF client.phase = "xprogram" THEN "xverify" ELSE "verify"
<1>4. p \in Phases \ {"guard", "over"} /\ p \in {"xverify", "verify"} /\ 1 \in {1, 2}
      /\ (p = "xverify" <=> client.phase = "xprogram")
  BY DEF Phases
<1>5. Moves(ToPhase(client, p))
  BY AdvancesIs
<1> HIDE DEF p
<1>6. /\ ClientType' /\ result' = result /\ client'.phase = p /\ client'.step = First(p)
      /\ client'.stage = (IF p \in {"settle 1", "settle 2"} THEN "drain" ELSE "send")
      /\ client'.chunk = 1
  BY <1>2, <1>4, <1>5, PhaseMoves
<1>7. /\ client'.stage = "send" /\ client'.phase \in {"xverify", "verify"}
      /\ client'.phase = "xverify" => client'.step = "crc"
      /\ client'.step \in {"crc", "rewind"}
  BY <1>4, <1>6, FirstIs
<1>8. result' = "none"
  BY <1>1, <1>6 DEF Ended
<1>9. /\ TypeInv' /\ Cut'
      /\ \A S : Sends(S)' <=> Sends(S)
      /\ NoErase' <=> NoErase
      /\ ExtImage' = ExtImage
      /\ to' = to /\ board' = board /\ setup' = setup
  BY <1>1, <1>3, <1>6, <1>8, Same
<1>10. Where'
  BY <1>7 DEF Where, Exchange, Fetch
<1>11. Sends(Short) /\ Load <= 4 + 1
  BY <1>1 DEF Due, Confirmed, Where, Programming
<1>12. Verifying'
  <2>1. Sends(Short)' /\ NoErase'
    BY <1>9, <1>11
  <2>2. \A i \in 1..(Len(to') - 1) : to'[i].op \in Short
    BY <1>1, <1>9, <2>1, LinkType, FewerIs DEF Sends
  <2>3. Due' = 0
    BY <1>7 DEF Due
  <2>4. \A l \in Nat : l <= 4 + 1 => l - 1 <= 4 + 0
    OBVIOUS
  <2>5. Load' <= 4 + Due'
    BY <1>3, <1>11, <2>3, <2>4
  <2> QED BY <1>7, <2>1, <2>2, <2>5 DEF Verifying
<1>13. Answered'
  BY <1>7 DEF Answered
<1>14. Reading'
  <2> SUFFICES ASSUME client'.step = "rewind" PROVE Reading'
    BY <1>7 DEF Reading
  <2> QED BY <1>6, <1>7 DEF Reading
<1>15. External'
  <2> SUFFICES ASSUME client.phase = "program" PROVE External'
    BY <1>4, <1>6 DEF External
  <2> QED BY <1>1, <1>9 DEF External, Holds
<1> QED BY <1>7, <1>8, <1>9, <1>10, <1>12, <1>13, <1>14, <1>15, BeVerifying

\* On with the frames.
LEMMA NextFrame ==
  ASSUME FlashInv, client.phase \in {"xprogram", "program"}, Stays, buf' \in Seq(Bytes),
         NoErase, Load' \in Int,
         ClientType', result' = result, client'.phase = client.phase,
         client'.step \in {"frame", "drain", "resync", "resend"},
         Where', Within',
         client'.stage # "drain" => Load' <= 4 + Due'
  PROVE  FlashInv'
<1>1. TypeInv /\ Cut /\ Programming /\ External /\ Ended
  BY DEF FlashInv
<1>2. result' = "none"
  BY <1>1 DEF Ended
<1>3. /\ TypeInv' /\ Cut'
      /\ \A S : Sends(S)' <=> Sends(S)
      /\ NoErase' <=> NoErase
      /\ ExtImage' = ExtImage
      /\ to' = to /\ board' = board /\ setup' = setup
  BY <1>1, <1>2, Same
<1>4. Programming'
  BY <1>1, <1>3 DEF Programming
<1>5. Overtaken'
  BY <1>3 DEF Overtaken
<1>6. External'
  BY <1>1, <1>3 DEF External, Holds
<1> QED BY <1>2, <1>3, <1>4, <1>5, <1>6, BeProgramming

\* A read in the course of a programming.
LEMMA ReadProgramming ==
  ASSUME FlashInv, Read, client.phase \in {"xprogram", "program"}
  PROVE  FlashInv'
<1>1. TypeInv /\ Where /\ Within /\ Cut /\ Programming /\ Overtaken
  BY DEF FlashInv
<1>2. /\ client.stage \in ReadStages /\ client.stage # "none" /\ ClientType /\ Stays
      /\ buf' \in Seq(Bytes) /\ buf # <<>>
      /\ client.stage = "drain" => buf' = <<>> /\ Moves(client)
      /\ client.stage \notin {"field", "rest", "drain"} => Takes(1)
      /\ client.stage = "head" => TakesHead(Head(buf))
      /\ client.stage = "status" => TakesStatus(Head(buf))
  BY <1>1, ReadIs
<1>3. NoErase
  BY <1>1, <1>2, LinkType DEF Overtaken
<1>4. client.stage \in {"drain", "head", "status"}
  <2>1. CASE client.step \in {"frame", "resync", "resend"}
    BY <1>1, <1>2, <2>1 DEF Where, Exchange, ReadStages
  <2>2. CASE client.step \in {"filler", "drain"}
    BY <1>1, <1>2, <2>2 DEF Where, ReadStages
  <2>3. client.step \in {"frame", "filler", "drain", "resync", "resend"}
    BY <1>1 DEF Where
  <2> QED BY <2>1, <2>2, <2>3
<1>5. setup' = setup
  BY <1>2 DEF Stays
<1>6. CASE client.stage = "drain"
  <2>1. client' = client /\ result' = result
    BY <1>2, <1>6 DEF Moves
  <2>2. ClientType'
    BY <1>2, <2>1 DEF ClientType
  <2>3. Where'
    BY <1>1, <2>1, ZenonT(60) DEF Where
  <2>4. Within'
    BY <1>1, <1>5, <2>1 DEF Within
  <2>5. client.step = "drain"
    BY <1>1, <1>6 DEF Where, Exchange
  <2>6. Load' \in Int
    BY <1>1, <1>2, LoadNext DEF Stays, TypeInv
  <2> QED BY <1>2, <1>3, <1>6, <2>1, <2>2, <2>3, <2>4, <2>5, <2>6, NextFrame
<1>7. CASE client.stage \in {"head", "status"}
  <2>1. Takes(1)
    BY <1>2, <1>7
  <2>2. /\ Load \in Nat /\ Load' \in Int /\ Load' = Load - 1 /\ Load' <= Load
    BY <1>1, <2>1, OneTaken
  <2>3. client.step \in {"frame", "resync", "resend"}
    BY <1>1, <1>7 DEF Where
  <2>4. Load <= 4 + Due
    BY <1>1, <1>7, <2>3 DEF Programming
  <2>5. ASSUME NEW error, Rejects(error) PROVE FlashInv'
    <3>1. client.phase \notin {"identify", "settle 1", "settle 2", "compare"}
      OBVIOUS
    <3>2. Ends("failed") \/ (client.step = "frame" /\ Moves(ToStep(client, "filler")))
      BY <1>1, <1>2, <2>5, <3>1, RejectsIs
    <3>3. CASE Ends("failed")
      BY <1>1, <1>2, <3>3, Fails
    <3>4. CASE client.step = "frame" /\ Moves(ToStep(client, "filler"))
      BY <1>2, <1>3, <1>7, <2>2, <3>4, FrameFails DEF Exchange
    <3> QED BY <3>2, <3>3, <3>4
  <2>6. CASE client.stage = "head"
    <3>1. Moves([client EXCEPT !.stage = "status"]) \/ Rejects("no sync")
      BY <1>2, <2>6 DEF TakesHead
    <3>2. CASE Moves([client EXCEPT !.stage = "status"])
      <4>1. "status" \in Stages
        BY DEF Stages, ReadStages
      <4>2. /\ ClientType' /\ result' = result /\ client'.phase = client.phase
            /\ client'.step = client.step /\ client'.stage = "status"
            /\ client'.chunk = client.chunk
        BY <1>2, <3>2, <4>1, StageMoves
      <4>3. Where' /\ Within'
        BY <1>1, <1>5, <2>3, <4>2 DEF Where, Within, Exchange
      <4>4. Load' <= 4 + Due'
        BY <2>2, <2>4, <2>6, <4>2 DEF Due
      <4> QED BY <1>2, <1>3, <2>2, <2>3, <4>2, <4>3, <4>4, NextFrame
    <3> QED BY <2>5, <3>1, <3>2
  <2>7. CASE client.stage = "status"
    <3>1. Resolves \/ Rejects(Head(buf).t)
      BY <1>2, <2>7 DEF TakesStatus
    <3>2. Load' <= 4 + 0
      BY <2>2, <2>4, <2>7 DEF Due
    <3>3. ASSUME client'.stage = "send" PROVE Load' <= 4 + Due'
      BY <3>2, <3>3 DEF Due
    <3>4. CASE Resolves
      <4>1. \/ client.step = "resync" /\ Moves(ToStep(client, "resend"))
            \/ client.step # "resync" /\ NextChunk("frame")
        BY <1>1, <1>2, <2>3, <3>4, ResolvesIs
      <4>2. CASE Moves(ToStep(client, "resend"))
        <5>1. "resend" \in Steps
          BY DEF Steps
        <5>2. /\ ClientType' /\ result' = result /\ client'.phase = client.phase
              /\ client'.step = "resend" /\ client'.stage = "send"
              /\ client'.chunk = client.chunk
          BY <1>2, <4>2, <5>1, StepMoves
        <5>3. Where' /\ Within'
          BY <1>1, <1>5, <5>2 DEF Where, Within, Exchange
        <5> QED BY <1>2, <1>3, <2>2, <3>3, <5>2, <5>3, NextFrame
      <4>3. CASE NextChunk("frame")
        <5>1. CASE client.chunk < Total /\ Moves([ToStep(client, "frame") EXCEPT !.chunk = @ + 1])
          <6>1. client.chunk \in Nat \ {0}
            BY <1>2 DEF ClientType
          <6>2. client.chunk + 1 \in Nat \ {0}
            BY <6>1
          <6>3. /\ ClientType' /\ result' = result /\ client'.phase = client.phase
                /\ client'.step = "frame" /\ client'.stage = "send"
                /\ client'.chunk = client.chunk + 1
            BY <1>2, <5>1, <6>2 DEF ClientType, Moves, ToStep, Steps, Stages
          <6>4. Where'
            BY <6>3 DEF Where, Exchange
          <6>5. Within'
            <7>1. Total \in Nat /\ Total = (IF client.phase = "xprogram" THEN setup.ext ELSE Chunks)
              BY <1>1, ExtImageIs, SizesAssumption DEF Total
            <7>2. \A c, t \in Nat : c < t => c + 1 <= t
              OBVIOUS
            <7>3. client.chunk + 1 <= Total
              BY <5>1, <6>1, <7>1, <7>2
            <7>4. client.phase = "xprogram" => client'.chunk <= setup.ext
              BY <6>3, <7>1, <7>3
            <7>5. client.phase = "program" => client'.chunk <= Chunks
              BY <6>3, <7>1, <7>3
            <7> QED BY <1>5, <6>3, <7>4, <7>5 DEF Within
          <6> QED BY <1>2, <1>3, <2>2, <3>3, <6>3, <6>4, <6>5, NextFrame
        <5>2. CASE Advances
          BY <1>2, <1>3, <2>1, <2>7, <5>2, StartsVerify DEF Confirmed
        <5> QED BY <4>3, <5>1, <5>2 DEF NextChunk
      <4> QED BY <4>1, <4>2, <4>3
    <3> QED BY <2>5, <3>1, <3>4
  <2> QED BY <1>7, <2>6, <2>7
<1> QED BY <1>4, <1>6, <1>7

\* A cell that is read back tells a chunk of the image.
LEMMA CellIs ==
  ASSUME NEW s \in Seq(Nat), NEW j \in Nat \ {0}, Cells(s, j, j) = <<j>>
  PROVE  j <= Len(s) /\ s[j] = j
<1>1. Len(s) \in Nat /\ \A i \in 1..Len(s) : s[i] \in Nat
  BY ElementOfSeq, LenProperties
<1>2. CASE j <= Len(s)
  <2>1. \A i \in j..j : s[i] \in Nat
    BY <1>1, <1>2
  <2>2. Cells(s, j, j) = SubSeq(s, j, j)
    BY <1>2 DEF Cells
  <2>3. \A i \in 1..(j - j + 1) : SubSeq(s, j, j)[i] = s[j + i - 1]
    BY <2>1, SubSeqProperties
  <2>4. 1 \in 1..(j - j + 1) /\ j + 1 - 1 = j
    OBVIOUS
  <2>5. SubSeq(s, j, j)[1] = s[j]
    BY <2>3, <2>4
  <2>6. <<j>>[1] = j
    OBVIOUS
  <2> QED BY <1>2, <2>2, <2>5, <2>6
<1>3. CASE ~(j <= Len(s))
  <2>1. Cells(s, j, j) = SubSeq(s, j, Len(s))
    BY <1>3 DEF Cells
  <2>2. j > Len(s)
    BY <1>1, <1>3
  <2>3. SubSeq(s, j, Len(s)) = <<>>
    BY <1>1, <2>2, SubSeqEmpty
  <2>4. <<j>> # <<>>
    OBVIOUS
  <2> QED BY <2>1, <2>3, <2>4
<1> QED BY <1>2, <1>3

\* Cells that were read back one by one are the image.
LEMMA ImageIs ==
  ASSUME NEW s \in Seq(Nat), NEW n \in Nat \ {0}, \A j \in 1..n : Cells(s, j, j) = <<j>>
  PROVE  Cells(s, 1, n) = [k \in 1..n |-> k]
<1>1. \A j \in 1..n : j <= Len(s) /\ s[j] = j
  <2> SUFFICES ASSUME NEW j \in 1..n PROVE j <= Len(s) /\ s[j] = j
    OBVIOUS
  <2>1. j \in Nat \ {0} /\ Cells(s, j, j) = <<j>>
    OBVIOUS
  <2> QED BY <2>1, CellIs
<1>2. n \in 1..n /\ n <= Len(s)
  BY <1>1
<1>3. Cells(s, 1, n) = SubSeq(s, 1, n)
  BY <1>2 DEF Cells
<1>4. \A i \in 1..n : s[i] \in Nat
  BY <1>1
<1>5. /\ SubSeq(s, 1, n) \in Seq(Nat)
      /\ Len(SubSeq(s, 1, n)) = IF 1 <= n THEN n - 1 + 1 ELSE 0
      /\ \A i \in 1..(n - 1 + 1) : SubSeq(s, 1, n)[i] = s[1 + i - 1]
  BY <1>4, SubSeqProperties
<1> DEFINE t == SubSeq(s, 1, n)
           m == [k \in 1..n |-> k]
<1>6. t \in Seq(Nat) /\ Len(t) = n
  BY <1>5
<1>7. \A i \in 1..n : t[i] = i
  <2> SUFFICES ASSUME NEW i \in 1..n PROVE t[i] = i
    OBVIOUS
  <2>1. i \in 1..(n - 1 + 1) /\ 1 + i - 1 = i
    OBVIOUS
  <2> QED BY <1>1, <1>5, <2>1
<1>8. m \in Seq(Nat) /\ Len(m) = n
  BY Numbers
<1>9. \A i \in 1..n : m[i] = i
  OBVIOUS
<1> HIDE DEF t, m
<1>10. t = m
  BY <1>6, <1>7, <1>8, <1>9, SeqEqual
<1> QED BY <1>3, <1>10 DEF t, m

\* A field tells one value.
LEMMA FieldTells ==
  ASSUME NEW v, NEW w, Field(v) = Field(w)
  PROVE  v = w
<1>1. Field(v)[1] = [t |-> "DATA", v |-> v] /\ Field(w)[1] = [t |-> "DATA", v |-> w]
  BY DEF Field
<1>2. [t |-> "DATA", v |-> v].v = [t |-> "DATA", v |-> w].v
  BY <1>1
<1> QED BY <1>2

\* On with the verify.
LEMMA VerifyOn ==
  ASSUME FlashInv, client.phase \in {"xverify", "verify"}, Stays, buf' \in Seq(Bytes),
         ClientType', result' = result, client'.phase = client.phase,
         Where', Verifying', Answered', Reading'
  PROVE  FlashInv'
<1>1. TypeInv /\ Cut /\ External /\ Ended
  BY DEF FlashInv
<1>2. result' = "none"
  BY <1>1 DEF Ended
<1>3. TypeInv' /\ Cut' /\ ExtImage' = ExtImage /\ to' = to /\ board' = board
  BY <1>1, <1>2, Same
<1>4. External'
  BY <1>1, <1>3 DEF External, Holds, Sends
<1> QED BY <1>2, <1>3, <1>4, BeVerifying

NothingSent == to = <<>> /\ board.mode = "idle"

\* The board is erased, for the first time or again.
LEMMA StartsErase ==
  ASSUME FlashInv, client.phase \in {"xverify", "verify"}, Stays, buf' \in Seq(Bytes),
         \/ Moves(ToPhase(client, "erase"))
         \/ Moves([ToPhase(client, "erase") EXCEPT !.attempt = 2]),
         NothingSent, Load' = 0, Holds(board.ext, ExtImage)
  PROVE  FlashInv'
<1>1. TypeInv /\ Cut /\ Ended
  BY DEF FlashInv
<1>2. ClientType
  BY <1>1 DEF TypeInv, ClientType
<1>3. "erase" \in Phases \ {"guard", "over"} /\ 2 \in {1, 2}
  BY DEF Phases
<1>4. /\ ClientType' /\ result' = result /\ client'.phase = "erase"
      /\ client'.step = First("erase")
      /\ client'.stage = (IF "erase" \in {"settle 1", "settle 2"} THEN "drain" ELSE "send")
  BY <1>2, <1>3, PhaseMoves
<1>5. client'.step = "erase" /\ client'.stage = "send"
  BY <1>4, FirstIs
<1>6. result' = "none"
  BY <1>1, <1>4 DEF Ended
<1>7. /\ TypeInv' /\ Cut' /\ ExtImage' = ExtImage /\ Slack' = Slack
      /\ to' = to /\ board' = board
      /\ \A S : Sends(S)' <=> Sends(S)
  BY <1>1, <1>4, <1>6, Same
<1>8. Where' /\ Within'
  BY <1>4, <1>5 DEF Where, Within
<1>9. \A S : Sends(S)'
  BY <1>1, <1>7, LinkType, NoneSent DEF NothingSent
<1>10. Erase'
  <2>1. Due' = 0
    BY <1>5 DEF Due
  <2>2. \A s \in {0, 2} : 0 <= s + 0
    OBVIOUS
  <2>3. Load' <= Slack' + Due'
    BY <1>7, <2>1, <2>2, SlackIs
  <2>4. board'.mode = "idle"
    BY <1>7 DEF NothingSent
  <2> QED BY <1>9, <2>3, <2>4 DEF Erase
<1>11. ExtErase'
  BY <1>4 DEF ExtErase
<1>12. External'
  BY <1>4, <1>7, <1>9 DEF External, Holds
<1> QED BY <1>4, <1>6, <1>7, <1>8, <1>10, <1>11, <1>12, BeErasing

\* The image is on the board.
LEMMA StartsReboot ==
  ASSUME FlashInv, client.phase = "verify", Stays, buf' \in Seq(Bytes),
         Moves(ToPhase(client, "reboot")), to = <<>>, Holds(board.flash, Image)
  PROVE  FlashInv'
<1>1. TypeInv /\ Cut /\ External /\ Ended
  BY DEF FlashInv
<1>2. ClientType
  BY <1>1 DEF TypeInv, ClientType
<1>3. "reboot" \in Phases \ {"guard", "over"} /\ 1 \in {1, 2}
  BY DEF Phases
<1>4. /\ ClientType' /\ result' = result /\ client'.phase = "reboot"
      /\ client'.step = First("reboot")
      /\ client'.stage = (IF "reboot" \in {"settle 1", "settle 2"} THEN "drain" ELSE "send")
  BY <1>2, <1>3, PhaseMoves
<1>5. client'.step = "reboot" /\ client'.stage = "send"
  BY <1>4, FirstIs
<1>6. result' = "none"
  BY <1>1, <1>4 DEF Ended
<1>7. /\ TypeInv' /\ Cut' /\ ExtImage' = ExtImage /\ to' = to /\ board' = board
  BY <1>1, <1>4, <1>6, Same
<1>8. Where'
  BY <1>4, <1>5 DEF Where
<1>9. External'
  BY <1>1, <1>4, <1>7 DEF External, Holds, Sends
<1>10. Ended'
  BY <1>4, <1>6, <1>7 DEF Ended, Holds, Image
<1> QED BY <1>4, <1>6, <1>7, <1>8, <1>9, <1>10, BeReboot

\* A status that confirms a field confirms the right one.
LEMMA ConfirmedIs ==
  ASSUME FlashInv, client.phase \in {"xverify", "verify"}, Confirmed, client.step # "rewind",
         Takes(1), Head(buf).t = "OK"
  PROVE  NothingSent /\ Load' = 0 /\ client.word = Field(Truth)
<1>1. TypeInv /\ Verifying /\ Answered
  BY DEF FlashInv
<1>2. /\ Load \in Nat /\ Load' = Load - 1
      /\ Len(Pipe) \in Nat /\ Len(Pipe) >= 1 /\ Head(buf) = Pipe[1]
  BY <1>1, OneTaken
<1>3. Due = 1 /\ client.stage # "send" /\ client.stage # "field"
  BY DEF Due, Confirmed
<1>4. to = <<>>
  <2> SUFFICES ASSUME to # <<>> PROVE FALSE
    OBVIOUS
  <2>1. Load <= Due /\ Latest(Asked)
    BY <1>1, <1>3 DEF Verifying
  <2>2. to[Len(to)].op # "FILLER"
    BY <2>1 DEF Latest, Asked
  <2>3. Load >= Len(Pipe) + 2
    BY <1>1, <2>2, LatestLoads
  <2>4. \A l, n \in Nat : l <= 1 /\ l >= n + 2 => FALSE
    OBVIOUS
  <2> QED BY <1>2, <1>3, <2>1, <2>3, <2>4
<1>5. Pipe[Due].t = "OK" /\ Len(Pipe) >= Due
  BY <1>2, <1>3
<1>6. Len(Pipe) = Due /\ board.mode = "idle" /\ client.word = Field(Truth)
  BY <1>1, <1>3, <1>4, <1>5 DEF Answered
<1>7. Load' = 0
  <2>1. Sends(Ops \ {"FILLER"}) /\ Len(to) = 0
    BY <1>1, <1>4, LinkType, NoneSent
  <2>2. Load = Len(Pipe) + 2 * Len(to)
    BY <1>1, <1>6, <2>1, LoadBounds
  <2>3. Len(Pipe) = 1
    BY <1>3, <1>6
  <2>4. \A l, n, t \in Nat : l = n + 2 * t /\ n = 1 /\ t = 0 => l - 1 = 0
    OBVIOUS
  <2>5. Len(to) \in Nat
    BY <1>1, LinkType
  <2> QED BY <1>2, <2>1, <2>2, <2>3, <2>4, <2>5
<1> QED BY <1>4, <1>6, <1>7 DEF NothingSent

\* What the fields of a step tell does not change while they are read.
LEMMA SameTruth ==
  ASSUME client'.phase = client.phase, client'.step = client.step,
         client'.chunk = client.chunk, board' = board, setup' = setup
  PROVE  Truth' = Truth /\ Asked' = Asked
BY DEF Truth, Asked

Fielding == client.stage = "field"
Heading == client.stage = "head"

\* A field is read; then its ack.
LEMMA VerifyField ==
  ASSUME FlashInv, client.phase \in {"xverify", "verify"}, Stays, Takes(4),
         Fielding, Moves([client EXCEPT !.stage = "head", !.word = SubSeq(buf, 1, 4)])
  PROVE  FlashInv'
<1>1. TypeInv /\ Where /\ Cut /\ Verifying /\ Answered /\ Reading /\ Ended
  BY DEF FlashInv
<1>2. ClientType
  BY <1>1 DEF TypeInv, ClientType
<1> DEFINE w == SubSeq(buf, 1, 4)
<1>3. /\ buf' \in Seq(Bytes) /\ w \in Seq(Bytes) /\ w = SubSeq(Pipe, 1, 4)
      /\ Len(Pipe) >= 4 /\ Len(Pipe') = Len(Pipe) - 4
      /\ \A k \in 1..Len(Pipe') : Pipe'[k] = Pipe[k + 4]
      /\ Load' = Load - 4
  BY <1>1, TakesBytes
<1>4. Moves([client EXCEPT !.stage = "head", !.word = w])
  OBVIOUS
<1> HIDE DEF w
<1>5. Load \in Nat /\ Len(Pipe) \in Nat
  BY <1>1, LinkType, LenProperties, LoadBounds
<1>6. /\ ClientType' /\ result' = result
      /\ client'.phase = client.phase /\ client'.step = client.step
      /\ client'.stage = "head" /\ client'.chunk = client.chunk /\ client'.word = w
  BY <1>2, <1>3, <1>4 DEF ClientType, Moves, Stages, ReadStages
<1>7. result' = "none"
  BY <1>1, <1>6 DEF Ended
<1>8. /\ \A S : Sends(S)' <=> Sends(S)
      /\ \A op : Latest(op)' <=> Latest(op)
      /\ NoErase' <=> NoErase
      /\ to' = to /\ board' = board /\ setup' = setup /\ closed' = closed
  BY <1>1, <1>3, <1>6, <1>7, Same
<1>9. client.step \in {"crc", "read"} /\ client.stage = "field"
  BY <1>1 DEF Where, Exchange, Fielding
<1>10. Where'
  BY <1>1, <1>6, <1>9 DEF Where, Exchange, Fetch
<1>11. Truth' = Truth /\ Asked' = Asked
  BY <1>6, <1>8, SameTruth
<1>12. Due = 6 /\ Due' = 2
  BY <1>6, <1>9 DEF Due
<1>13. Verifying'
  <2>1. NoErase' /\ \A i \in 1..(Len(to') - 1) : to'[i].op \in Short
    BY <1>1, <1>8 DEF Verifying
  <2>2. Latest(Asked)'
    BY <1>1, <1>8, <1>9, <1>11 DEF Verifying
  <2>3. to' # <<>> => Load' <= Due'
    <3> SUFFICES ASSUME to' # <<>> PROVE Load' <= Due'
      OBVIOUS
    <3>1. Load <= Due
      BY <1>1, <1>8, <1>9 DEF Verifying
    <3>2. \A l \in Nat : l <= 6 => l - 4 <= 2
      OBVIOUS
    <3> QED BY <1>3, <1>5, <1>12, <3>1, <3>2
  <2>4. client'.stage # "send" /\ client'.step # "rewind"
    BY <1>6, <1>9
  <2> QED BY <2>1, <2>2, <2>3, <2>4 DEF Verifying
<1>14. Answered'
  <2> SUFFICES ASSUME to' = <<>>, Len(Pipe') >= Due', Pipe'[Due'].t = "OK"
               PROVE  /\ Len(Pipe') = Due' /\ board'.mode = "idle"
                      /\ (IF client'.stage = "field" THEN SubSeq(Pipe', 1, 4) ELSE client'.word)
                           = Field(Truth')
    BY DEF Answered
  <2>1. \A n \in Nat : n - 4 >= 2 => n >= 6 /\ 2 \in 1..(n - 4) /\ 2 + 4 = 6
    OBVIOUS
  <2>2. Len(Pipe) >= 6 /\ 2 \in 1..Len(Pipe') /\ 2 + 4 = 6
    BY <1>3, <1>5, <1>12, <2>1
  <2>3. Pipe[6].t = "OK"
    BY <1>3, <1>12, <2>2
  <2>4. /\ Len(Pipe) = Due /\ board.mode = "idle"
        /\ (IF client.stage = "field" THEN SubSeq(Pipe, 1, 4) ELSE client.word) = Field(Truth)
    BY <1>1, <1>8, <1>9, <1>12, <2>2, <2>3 DEF Answered
  <2>5. w = Field(Truth)
    BY <1>3, <1>9, <2>4
  <2>6. Len(Pipe') = Due'
    BY <1>3, <1>5, <1>12, <2>4
  <2>7. client'.stage # "field"
    BY <1>6
  <2> QED BY <1>6, <1>8, <1>11, <2>4, <2>5, <2>6, <2>7
<1>15. Reading'
  <2> SUFFICES ASSUME client.phase = "verify", client.step = "read" PROVE Reading'
    BY <1>6, <1>9 DEF Reading
  <2>1. /\ \A j \in 1..(client.chunk - 1) : Cells(board.flash, j, j) = <<j>>
        /\ Len(to) >= 2 => client.chunk = 1 /\ to[Len(to) - 1].op = "CHIP_VERIFY"
        /\ Len(to) = 1 => board.mode = "payload" \/ board.cursor = client.chunk - 1
        /\ to = <<>> /\ ~closed => board.mode = "payload" \/ board.cursor = client.chunk
    BY <1>1, <1>9 DEF Reading
  <2> QED BY <1>6, <1>8, <2>1 DEF Reading
<1> QED BY <1>3, <1>6, <1>10, <1>13, <1>14, <1>15, VerifyOn

\* The ack's first byte is read.
LEMMA VerifyHead ==
  ASSUME FlashInv, client.phase \in {"xverify", "verify"}, Stays, Takes(1),
         Heading, Moves([client EXCEPT !.stage = "status"])
  PROVE  FlashInv'
<1>1. TypeInv /\ Where /\ Cut /\ Verifying /\ Answered /\ Reading /\ Ended
  BY DEF FlashInv
<1>2. ClientType /\ "status" \in Stages /\ client.stage = "head"
  BY <1>1 DEF TypeInv, ClientType, Stages, ReadStages, Heading
<1>3. /\ buf' \in Seq(Bytes)
      /\ Len(Pipe) \in Nat /\ Len(Pipe) >= 1 /\ Len(Pipe') = Len(Pipe) - 1
      /\ \A k \in 1..Len(Pipe') : Pipe'[k] = Pipe[k + 1]
      /\ Load \in Nat /\ Load' = Load - 1
  BY <1>1, OneTaken
<1>4. /\ ClientType' /\ result' = result
      /\ client'.phase = client.phase /\ client'.step = client.step
      /\ client'.stage = "status" /\ client'.chunk = client.chunk /\ client'.word = client.word
  BY <1>2, StageMoves
<1>5. result' = "none"
  BY <1>1, <1>4 DEF Ended
<1>6. /\ \A S : Sends(S)' <=> Sends(S)
      /\ \A op : Latest(op)' <=> Latest(op)
      /\ NoErase' <=> NoErase
      /\ to' = to /\ board' = board /\ setup' = setup /\ closed' = closed
  BY <1>1, <1>3, <1>4, <1>5, Same
<1>7. client.step \in {"crc", "rewind", "read"}
  BY <1>1 DEF Where
<1>8. Where'
  BY <1>1, <1>4, <1>7 DEF Where, Exchange, Fetch
<1>9. Truth' = Truth /\ Asked' = Asked
  BY <1>4, <1>6, SameTruth
<1>10. Due = 2 /\ Due' = 1
  BY <1>2, <1>4 DEF Due
<1>11. Verifying'
  <2>1. NoErase' /\ \A i \in 1..(Len(to') - 1) : to'[i].op \in Short
    BY <1>1, <1>6 DEF Verifying
  <2>2. Latest(Asked)'
    BY <1>1, <1>2, <1>6, <1>9 DEF Verifying
  <2>3. client'.step # "rewind" /\ to' # <<>> => Load' <= Due'
    <3> SUFFICES ASSUME client'.step # "rewind", to' # <<>> PROVE Load' <= Due'
      OBVIOUS
    <3>1. Load <= Due
      BY <1>1, <1>2, <1>4, <1>6 DEF Verifying
    <3>2. \A l \in Nat : l <= 2 => l - 1 <= 1
      OBVIOUS
    <3> QED BY <1>3, <1>10, <3>1, <3>2
  <2>4. client'.step = "rewind" => Sends(Short)' /\ Load' <= 4 + Due'
    <3> SUFFICES ASSUME client'.step = "rewind" PROVE Sends(Short)' /\ Load' <= 4 + Due'
      OBVIOUS
    <3>1. Sends(Short) /\ Load <= 4 + Due
      BY <1>1, <1>4 DEF Verifying
    <3>2. \A l \in Nat : l <= 4 + 2 => l - 1 <= 4 + 1
      OBVIOUS
    <3> QED BY <1>3, <1>6, <1>10, <3>1, <3>2
  <2>5. client'.stage # "send"
    BY <1>4
  <2> QED BY <2>1, <2>2, <2>3, <2>4, <2>5 DEF Verifying
<1>12. Answered'
  <2> SUFFICES ASSUME client'.step # "rewind", to' = <<>>, Len(Pipe') >= Due', Pipe'[Due'].t = "OK"
               PROVE  /\ Len(Pipe') = Due' /\ board'.mode = "idle"
                      /\ (IF client'.stage = "field" THEN SubSeq(Pipe', 1, 4) ELSE client'.word)
                           = Field(Truth')
    BY DEF Answered
  <2>1. \A n \in Nat : n - 1 >= 1 => n >= 2 /\ 1 \in 1..(n - 1) /\ 1 + 1 = 2
    OBVIOUS
  <2>2. Len(Pipe) >= 2 /\ 1 \in 1..Len(Pipe') /\ 1 + 1 = 2
    BY <1>3, <1>10, <2>1
  <2>3. Pipe[2].t = "OK"
    BY <1>3, <1>10, <2>2
  <2>4. /\ Len(Pipe) = Due /\ board.mode = "idle"
        /\ (IF client.stage = "field" THEN SubSeq(Pipe, 1, 4) ELSE client.word) = Field(Truth)
    <3>1. to = <<>> /\ Len(Pipe) >= Due /\ Pipe[Due].t = "OK"
      BY <1>6, <1>10, <2>2, <2>3
    <3>2. client.step # "rewind" /\ client.stage # "send"
      BY <1>2, <1>4
    <3> QED BY <1>1, <3>1, <3>2 DEF Answered
  <2>5. client.word = Field(Truth)
    BY <1>2, <2>4
  <2>6. Len(Pipe') = Due'
    BY <1>3, <1>10, <2>4
  <2>7. client'.stage # "field"
    BY <1>4
  <2> QED BY <1>4, <1>6, <1>9, <2>4, <2>5, <2>6, <2>7
<1>13. Reading'
  <2> SUFFICES ASSUME client.phase = "verify", client.step \in {"rewind", "read"} PROVE Reading'
    BY <1>4 DEF Reading
  <2>1. CASE client.step = "read"
    BY <1>1, <1>2, <1>4, <1>6, <2>1 DEF Reading
  <2>2. CASE client.step = "rewind"
    BY <1>1, <1>2, <1>4, <1>6, <2>2 DEF Reading
  <2> QED BY <2>1, <2>2
<1> QED BY <1>3, <1>4, <1>8, <1>11, <1>12, <1>13, VerifyOn

\* A head taken leaves what its status may leave.
LEMMA AckTaken == \A l, m, d, e \in Int : l <= 4 + d /\ m = l - 1 /\ d = 1 /\ e = 0 => m <= 4 + e
OBVIOUS

\* Before the first chunk nothing is read back.
LEMMA FirstChunk == \A c \in Nat : c = 1 => c - 1 = 0 /\ \A j \in 1..(c - 1) : FALSE
OBVIOUS

\* After a chunk, those before the next are those before it and itself.
LEMMA AfterChunk ==
  \A c \in Nat \ {0} : /\ c + 1 \in Nat \ {0} /\ (c + 1) - 1 = c
                       /\ \A j \in 1..c : j \in 1..(c - 1) \/ j = c
OBVIOUS

\* With the last chunk all are read back.
LEMMA UpToChunk ==
  \A c \in Nat \ {0}, n \in Nat : ~(c < n) => \A j \in 1..n : j \in 1..(c - 1) \/ j = c
OBVIOUS

\* An idle link is within every bound.
LEMMA NoLoad == \A l, d \in Int : l = 0 /\ d = 0 => l <= 4 + d
OBVIOUS

\* The cells are read from the first.
LEMMA Rewound ==
  ASSUME FlashInv, client.phase = "verify", Stays, Takes(1), Confirmed, client.step = "rewind",
         Moves(ToStep(client, "read"))
  PROVE  FlashInv'
<1>1. TypeInv /\ Cut /\ Verifying /\ Reading /\ Ended
  BY DEF FlashInv
<1>2. ClientType /\ "read" \in Steps /\ client.stage = "status"
  BY <1>1 DEF TypeInv, ClientType, Steps, Confirmed
<1>3. buf' \in Seq(Bytes) /\ Load \in Nat /\ Load' = Load - 1
  BY <1>1, OneTaken
<1>4. /\ ClientType' /\ result' = result
      /\ client'.phase = client.phase /\ client'.step = "read"
      /\ client'.stage = "send" /\ client'.chunk = client.chunk
  BY <1>2, StepMoves
<1>5. result' = "none"
  BY <1>1, <1>4 DEF Ended
<1>6. /\ \A S : Sends(S)' <=> Sends(S)
      /\ NoErase' <=> NoErase
      /\ to' = to /\ board' = board /\ setup' = setup /\ closed' = closed
  BY <1>1, <1>3, <1>4, <1>5, Same
<1>7. Where'
  BY <1>4 DEF Where, Fetch, Exchange
<1>8. NoErase /\ Sends(Short) /\ Load <= 4 + Due /\ Latest(Asked)
      /\ \A i \in 1..(Len(to) - 1) : to[i].op \in Short
  BY <1>1, <1>2 DEF Verifying
<1>9. Due = 1 /\ Due' = 0 /\ Asked = "CHIP_VERIFY"
  BY <1>2, <1>4 DEF Due, Asked
<1>10. Verifying'
  BY <1>3, <1>4, <1>6, <1>8, <1>9, AckTaken DEF Verifying
<1>11. Answered'
  BY <1>4 DEF Answered
<1>12. Reading'
  <2>1. /\ client.chunk = 1
        /\ to = <<>> /\ ~closed => board.mode = "payload" \/ board.cursor = 0
    BY <1>1, <1>2 DEF Reading
  <2>2. to # <<>> => to[Len(to)].op = "CHIP_VERIFY"
    BY <1>8, <1>9 DEF Latest
  <2>3. client'.chunk = 1 /\ client'.chunk - 1 = 0 /\ \A j \in 1..(client'.chunk - 1) : FALSE
    BY <1>4, <2>1, FirstChunk
  <2>4. to' # <<>> => client'.chunk = 1 /\ to'[Len(to')].op = "CHIP_VERIFY"
    BY <1>6, <2>2, <2>3
  <2>5. to' = <<>> /\ ~closed' => board'.mode = "payload" \/ board'.cursor = client'.chunk - 1
    BY <1>6, <2>1, <2>3
  <2>6. \A j \in 1..(client'.chunk - 1) : Cells(board'.flash, j, j) = <<j>>
    BY <2>3
  <2>7. client'.step = "read" /\ client'.stage = "send"
    BY <1>4
  <2> QED BY <2>4, <2>5, <2>6, <2>7 DEF Reading
<1>13. client.phase \in {"xverify", "verify"}
  OBVIOUS
<1> QED BY <1>3, <1>4, <1>7, <1>10, <1>11, <1>12, <1>13, VerifyOn

\* A chunk is verified, and the next is read.
LEMMA NextCell ==
  ASSUME FlashInv, client.phase = "verify", Stays, Confirmed, client.step = "read",
         buf' \in Seq(Bytes), NothingSent, Load' = 0,
         Cells(board.flash, client.chunk, client.chunk) = <<client.chunk>>,
         Moves([ToStep(client, "read") EXCEPT !.chunk = @ + 1])
  PROVE  FlashInv'
<1>1. TypeInv /\ Cut /\ Reading /\ Ended
  BY DEF FlashInv
<1>2. ClientType /\ client.stage = "status" /\ client.chunk \in Nat \ {0}
  BY <1>1 DEF TypeInv, ClientType, Confirmed
<1>3. client.chunk + 1 \in Nat \ {0} /\ (client.chunk + 1) - 1 = client.chunk
      /\ \A j \in 1..client.chunk : j \in 1..(client.chunk - 1) \/ j = client.chunk
  BY <1>2, AfterChunk
<1>4. /\ ClientType' /\ result' = result
      /\ client'.phase = client.phase /\ client'.step = "read"
      /\ client'.stage = "send" /\ client'.chunk = client.chunk + 1
  BY <1>2, <1>3 DEF ClientType, Moves, ToStep, Steps, Stages
<1>5. result' = "none"
  BY <1>1, <1>4 DEF Ended
<1>6. /\ \A S : Sends(S)' <=> Sends(S)
      /\ NoErase' <=> NoErase
      /\ to' = to /\ board' = board /\ setup' = setup /\ closed' = closed
  BY <1>1, <1>4, <1>5, Same
<1>7. Where'
  BY <1>4 DEF Where, Fetch, Exchange
<1>8. to = <<>> /\ to' = <<>> /\ \A S : Sends(S)'
  BY <1>1, <1>6, LinkType, NoneSent DEF NothingSent
<1>9. Verifying'
  <2>1. Sends(Short)' /\ NoErase'
    BY <1>8 DEF Asking, Sends, NoErase
  <2>2. \A i \in 1..(Len(to') - 1) : to'[i].op \in Short
    BY <1>1, <1>6, <2>1, LinkType, FewerIs DEF Sends
  <2>3. Due' = 0
    BY <1>4 DEF Due
  <2>4. Load' <= 4 + Due'
    BY <2>3, NoLoad
  <2> QED BY <1>4, <2>1, <2>2, <2>4 DEF Verifying
<1>10. Answered'
  BY <1>4 DEF Answered
<1>11. Reading'
  <2>1. /\ \A j \in 1..(client.chunk - 1) : Cells(board.flash, j, j) = <<j>>
        /\ to = <<>> /\ ~closed => board.mode = "payload" \/ board.cursor = client.chunk
    BY <1>1, <1>2 DEF Reading
  <2>2. \A j \in 1..client.chunk : Cells(board.flash, j, j) = <<j>>
    BY <1>3, <2>1
  <2>3. client'.chunk - 1 = client.chunk
    BY <1>3, <1>4
  <2>4. \A j \in 1..(client'.chunk - 1) : Cells(board'.flash, j, j) = <<j>>
    BY <1>6, <2>2, <2>3
  <2>5. to' = <<>> /\ ~closed' => board'.mode = "payload" \/ board'.cursor = client'.chunk - 1
    BY <1>6, <2>1, <2>3
  <2>6. client'.step = "read" /\ client'.stage = "send"
    BY <1>4
  <2> QED BY <1>8, <2>4, <2>5, <2>6 DEF Reading
<1>12. client.phase \in {"xverify", "verify"}
  OBVIOUS
<1> QED BY <1>4, <1>7, <1>9, <1>10, <1>11, <1>12, VerifyOn

\* A field that matches tells what was to be verified.
LEMMA MatchingIs ==
  ASSUME TypeInv, client.word = Field(Truth), Matching
  PROVE  /\ client.phase = "xverify" /\ client.step = "crc" =>
              Cells(board.ext, 1, setup.ext) = ExtImage
         /\ client.phase = "verify" /\ client.step = "crc" => board.flash = Image
         /\ client.phase = "verify" /\ client.step = "read" =>
              Cells(board.flash, client.chunk, client.chunk) = <<client.chunk>>
<1>1. Truth = Expected
  BY FieldTells DEF Matching
<1>2. CASE client.phase = "xverify" /\ client.step = "crc"
  BY <1>1, <1>2 DEF Expected, Truth
<1>3. CASE client.phase = "verify" /\ client.step = "crc"
  BY <1>1, <1>3 DEF Expected, Truth
<1>4. CASE client.phase = "verify" /\ client.step = "read"
  BY <1>1, <1>4 DEF Expected, Truth
<1> QED BY <1>2, <1>3, <1>4

\* A field that was confirmed leads on, back to the erase, or to the end.
LEMMA VerifyStatus ==
  ASSUME FlashInv, client.phase \in {"xverify", "verify"}, Stays, Takes(1), Confirmed,
         Head(buf).t = "OK", Resolves
  PROVE  FlashInv'
<1>1. TypeInv /\ Where /\ Cut /\ External /\ Reading
  BY DEF FlashInv
<1>2. ClientType /\ client.stage # "none" /\ buf' \in Seq(Bytes)
  BY <1>1, OneTaken DEF TypeInv, ClientType, Confirmed
<1>3. client.step \in {"crc", "rewind", "read"} /\ (client.phase = "xverify" => client.step = "crc")
  BY <1>1 DEF Where
<1>4. CASE client.step = "rewind"
  BY <1>1, <1>2, <1>3, <1>4, ResolvesIs, Rewound
<1>5. CASE client.step # "rewind"
  <2>1. NothingSent /\ Load' = 0 /\ client.word = Field(Truth)
    BY <1>5, ConfirmedIs
  <2>2. \/ client.phase = "xverify" /\ client.step = "crc" /\ Matching /\ Advances
        \/ client.phase = "verify" /\ client.step = "crc" /\ Matching /\ Advances
        \/ client.phase = "verify" /\ client.step = "read" /\ Matching /\ NextChunk("read")
        \/ client.phase = "verify" /\ Mismatches
        \/ Ends("failed")
    BY <1>1, <1>2, <1>3, <1>5, ResolvesIs
  <2>3. CASE client.phase = "xverify" /\ client.step = "crc" /\ Matching /\ Advances
    <3>1. Cells(board.ext, 1, setup.ext) = ExtImage
      BY <1>1, <2>1, <2>3, MatchingIs
    <3>2. Holds(board.ext, ExtImage)
      BY <1>1, <3>1, ExtImageIs DEF Holds
    <3>3. Moves(ToPhase(client, "erase"))
      BY <2>3, AdvancesIs
    <3> QED BY <1>2, <2>1, <3>2, <3>3, StartsErase
  <2>4. CASE client.phase = "verify" /\ client.step = "crc" /\ Matching /\ Advances
    <3>1. board.flash = Image
      BY <1>1, <2>1, <2>4, MatchingIs
    <3>2. Holds(board.flash, Image)
      BY <1>1, <3>1, WholeImage DEF TypeInv, Holds
    <3>3. Moves(ToPhase(client, "reboot"))
      BY <2>4, AdvancesIs
    <3>4. to = <<>> /\ client.phase = "verify"
      BY <2>1, <2>4 DEF NothingSent
    <3> QED BY <1>2, <3>2, <3>3, <3>4, StartsReboot
  <2>5. CASE client.phase = "verify" /\ client.step = "read" /\ Matching /\ NextChunk("read")
    <3>1. Cells(board.flash, client.chunk, client.chunk) = <<client.chunk>>
      BY <1>1, <2>1, <2>5, MatchingIs
    <3>2. CASE client.chunk < Total /\ Moves([ToStep(client, "read") EXCEPT !.chunk = @ + 1])
      BY <1>2, <2>1, <2>5, <3>1, <3>2, NextCell
    <3>3. CASE ~(client.chunk < Total) /\ Advances
      <4>1. Total = Chunks /\ Chunks \in Nat \ {0}
        BY <2>5, SizesAssumption DEF Total
      <4>2. client.chunk \in Nat \ {0}
        BY <1>2 DEF ClientType
      <4>3. \A j \in 1..(client.chunk - 1) : Cells(board.flash, j, j) = <<j>>
        BY <1>1, <2>5 DEF Reading
      <4>4. \A j \in 1..Chunks : j \in 1..(client.chunk - 1) \/ j = client.chunk
        BY <3>3, <4>1, <4>2, UpToChunk
      <4>5. \A j \in 1..Chunks : Cells(board.flash, j, j) = <<j>>
        BY <3>1, <4>3, <4>4
      <4>6. board.flash \in Seq(Nat)
        BY <1>1 DEF TypeInv
      <4>7. Cells(board.flash, 1, Chunks) = Image
        BY <4>1, <4>5, <4>6, ImageIs DEF Image
      <4>8. Len(Image) = Chunks
        BY <4>1, Numbers DEF Image
      <4>9. Holds(board.flash, Image)
        BY <4>7, <4>8 DEF Holds
      <4>10. Moves(ToPhase(client, "reboot")) /\ client.phase = "verify" /\ to = <<>>
        BY <2>1, <2>5, <3>3, AdvancesIs DEF NothingSent
      <4> QED BY <1>2, <4>9, <4>10, StartsReboot
    <3> QED BY <2>5, <3>2, <3>3 DEF NextChunk
  <2>6. CASE client.phase = "verify" /\ Mismatches
    <3>1. Ends("failed") \/ Moves([ToPhase(client, "erase") EXCEPT !.attempt = 2])
      BY <2>6 DEF Mismatches
    <3>2. CASE Moves([ToPhase(client, "erase") EXCEPT !.attempt = 2])
      BY <1>1, <1>2, <2>1, <2>6, <3>2, StartsErase DEF External
    <3>3. CASE Ends("failed")
      BY <1>1, <1>2, <3>3, Fails
    <3> QED BY <3>1, <3>2, <3>3
  <2>7. CASE Ends("failed")
    BY <1>1, <1>2, <2>7, Fails
  <2> QED BY <2>2, <2>3, <2>4, <2>5, <2>6, <2>7
<1> QED BY <1>4, <1>5

\* A read in the course of a verify: what it confirms is the answer it asked for.
LEMMA ReadVerifying ==
  ASSUME FlashInv, Read, client.phase \in {"xverify", "verify"}
  PROVE  FlashInv'
<1>1. TypeInv /\ Where /\ Cut
  BY DEF FlashInv
<1>2. /\ client.stage \in ReadStages /\ client.stage # "none" /\ ClientType /\ Stays
      /\ buf' \in Seq(Bytes)
      /\ client.stage \in {"field", "rest"} => Takes(4)
      /\ client.stage \notin {"field", "rest", "drain"} => Takes(1)
      /\ client.stage = "field" =>
           Moves([client EXCEPT !.stage = "head", !.word = SubSeq(buf, 1, 4)])
      /\ client.stage = "head" => TakesHead(Head(buf))
      /\ client.stage = "status" => TakesStatus(Head(buf))
  BY <1>1, ReadIs
<1>3. client.step \in {"crc", "rewind", "read"} /\ client.stage \in {"field", "head", "status"}
  BY <1>1, <1>2 DEF Where, Exchange, Fetch, ReadStages
<1>4. ASSUME NEW error, Rejects(error) PROVE FlashInv'
  BY <1>1, <1>2, <1>3, <1>4, RejectsIs, Fails
<1>5. CASE client.stage = "field"
  BY <1>2, <1>5, VerifyField DEF Fielding
<1>6. CASE client.stage = "head"
  <2>1. Moves([client EXCEPT !.stage = "status"]) \/ Rejects("no sync")
    BY <1>2, <1>6 DEF TakesHead
  <2>2. CASE Moves([client EXCEPT !.stage = "status"])
    BY <1>2, <1>6, <2>2, VerifyHead DEF Heading
  <2> QED BY <1>4, <2>1, <2>2
<1>7. CASE client.stage = "status"
  <2>1. (Head(buf).t = "OK" /\ Resolves) \/ Rejects(Head(buf).t)
    BY <1>2, <1>7 DEF TakesStatus
  <2>2. CASE Head(buf).t = "OK" /\ Resolves
    BY <1>2, <1>7, <2>2, VerifyStatus DEF Confirmed
  <2> QED BY <1>4, <2>1, <2>2
<1> QED BY <1>3, <1>5, <1>6, <1>7

\* A read by the session, whatever its phase, keeps the invariant.
LEMMA ReadStep ==
  ASSUME FlashInv, Read
  PROVE  FlashInv'
<1>1. TypeInv /\ Where /\ Cut
  BY DEF FlashInv
<1>2. client.stage \in ReadStages /\ ClientType
  BY <1>1, ReadIs
<1>3. client.phase \in Phases \ {"over"}
  BY <1>1, <1>2 DEF Where, ClientType, ReadStages
<1>4. CASE client.phase = "reboot"
  BY <1>1, <1>2, <1>4 DEF Where, ReadStages
<1> QED BY <1>3, <1>4, ReadEarly, ReadErasing, ReadProgramming, ReadVerifying DEF Phases, Early

-----------------------------------------------------------------------------
(* The theorems. *)

\* Every step keeps the invariant.
LEMMA NextInv ==
  ASSUME FlashInv, [Next]_vars
  PROVE  FlashInv'
<1>1. CASE Guard \/ Send \/ Read
  BY <1>1, GuardStep, SendStep, ReadStep
<1>2. CASE Timeout \/ FailsClosed \/ DrainEnds
  BY <1>2, SilenceStep, DrainStep
<1>3. CASE Arrive \/ Unplug \/ Handle
  BY <1>3, ArriveStep, UnplugStep, HandleStep
<1>4. CASE UNCHANGED vars
  <2>1. /\ client' = client /\ result' = result /\ closed' = closed /\ buf' = buf
        /\ from' = from /\ to' = to /\ board' = board /\ setup' = setup
    BY <1>4 DEF vars, link
  <2>2. TypeInv' /\ Where' /\ Within' /\ Cut'
    <3>1. TypeInv /\ Where /\ Within /\ Cut
      BY DEF FlashInv
    <3>2. Where'
      BY <2>1, <3>1, ZenonT(60) DEF Where
    <3> QED BY <2>1, <3>1, <3>2 DEF TypeInv, Within, Cut
  <2>3. /\ Due' = Due /\ Truth' = Truth /\ Asked' = Asked /\ Slack' = Slack
        /\ Pipe' = Pipe /\ ExtImage' = ExtImage
        /\ \A S : Sends(S)' <=> Sends(S)
    BY <2>1 DEF Due, Truth, Asked, Slack, Pipe, ExtImage, Sends
  <2>4. Load' = Load
    BY <2>1, <2>3 DEF Load, Sends
  <2>5. Untouched'
    BY <2>1, <2>3 DEF FlashInv, Untouched, OldBytes
  <2>6. Settled'
    BY <2>1, <2>3 DEF FlashInv, Settled
  <2>7. ExtErase'
    BY <2>1, <2>3, <2>4 DEF FlashInv, ExtErase, Latest
  <2>8. Erase' /\ Programming'
    BY <2>1, <2>3, <2>4 DEF FlashInv, Erase, Programming
  <2>9. Overtaken'
    BY <2>1, <2>3 DEF FlashInv, Overtaken, NoErase
  <2>10. Verifying'
    BY <2>1, <2>3, <2>4 DEF FlashInv, Verifying, NoErase, Latest
  <2>11. Answered'
    BY <2>1, <2>3 DEF FlashInv, Answered
  <2>12. Reading'
    BY <2>1 DEF FlashInv, Reading
  <2>13. External' /\ Ended'
    BY <2>1, <2>3 DEF FlashInv, External, Ended, Holds, Image
  <2> QED BY <2>2, <2>5, <2>6, <2>7, <2>8, <2>9, <2>10, <2>11, <2>12, <2>13 DEF FlashInv
<1> QED BY <1>1, <1>2, <1>3, <1>4 DEF Next

\* The inductive invariant holds always: whatever is late, lost or damaged, no
\* more bytes are under way than the reads of the next step can tell apart.
THEOREM FlashInvAlways == Spec => []FlashInv
BY InitInv, NextInv, PTL DEF Spec

\* A session that reports the firmware flashed, or current, leaves the image in
\* the flash and, where there is one, in the external flash: the verify of
\* bootloader.ts cannot take the bytes of an earlier command for its CRC or for
\* the chunk it reads back.
THEOREM FlashedIsImageAlways == Spec => []FlashedIsImage
<1>1. FlashInv => FlashedIsImage
  BY DEF FlashInv, Ended, FlashedIsImage
<1> QED BY <1>1, FlashInvAlways, PTL

\* Where no reply comes as late as the resync that precedes flash(), no chunk
\* is written to a chip that is still being erased.
THEOREM ErasedBeforeWrittenUnlessLate ==
  "late resync" \notin Faults => (Spec => []ErasedBeforeWritten)
<1> SUFFICES ASSUME "late resync" \notin Faults PROVE Spec => []ErasedBeforeWritten
  OBVIOUS
<1>1. FlashInv => ErasedBeforeWritten
  <2> SUFFICES ASSUME FlashInv PROVE ErasedBeforeWritten
    OBVIOUS
  <2>1. client.phase = "program" \/ client.phase = "verify" => NoErase
    BY DEF FlashInv, Overtaken, Verifying
  <2>2. client.phase = "reboot" => NoErase
    <3> SUFFICES ASSUME client.phase = "reboot" PROVE NoErase
      OBVIOUS
    <3>1. Len(to) = 0
      BY LinkType DEF FlashInv, Ended
    <3>2. Sends(Asking)
      BY <3>1, NoneSent
    <3> QED BY <3>2 DEF Sends, NoErase, Asking
  <2> QED BY <2>1, <2>2 DEF ErasedBeforeWritten, NoErase
<1> QED BY <1>1, FlashInvAlways, PTL

-----------------------------------------------------------------------------
(* One mishap. *)

Mishaps == [kind : FaultKinds, phase : Phases]

\* No mishap but one that the session survives.
Tame == faults = <<>> \/ (Len(faults) = 1 /\ Survivable(faults[1]))

Spent(phase) == faults # <<>> /\ faults[1].phase = phase
Of(kinds) == faults # <<>> /\ faults[1].kind \in kinds

\* The first image was damaged on its way, or a chunk of it written twice.
Dirty == client.attempt = 1 /\ Spent("program") /\ Of({"corrupt", "ack lost", "late"})
Twice == IF Of({"ack lost", "late"}) THEN 1 ELSE 0

Clear == to = <<>> /\ Pipe = <<>>
Going(op) == Len(to) = 1 /\ to[1].op = op /\ Pipe = <<>>
Came(bytes) == to = <<>> /\ Pipe = bytes

\* A command that is answered by an ack, from its write to the last byte.
Acking(op) ==
  /\ client.stage = "send" => Clear
  /\ client.stage = "head" => Going(op) \/ Came(Ack("OK"))
  /\ client.stage = "status" => Came(<<Byte("OK")>>)

\* The mishap belongs to a phase, and is not forgotten by the next attempt.
History ==
  /\ client.phase \in Early \cup {"xerase"} => faults = <<>>
  /\ client.attempt = 2 => Spent("program")
  /\ Spent("program") =>
       client.phase \in {"program", "verify", "reboot", "over"} \/ client.attempt = 2
  /\ client.phase \in {"xprogram", "program"} /\ client.step \in {"filler", "drain", "resync", "resend"} =>
       Spent(client.phase)
  /\ client.phase \notin {"guard", "over"} => Chunks <= FlashChunks

\* The board has been asked for its device before flash() begins.
Known ==
  /\ client.phase = "guard" => Clear
  /\ client.phase = "identify" /\ client.step = "sync" => Acking("GET_SYNC")
  /\ client.phase = "identify" /\ client.step = "info" =>
       /\ client.stage = "send" => Clear
       /\ client.stage = "field" => Going("GET_DEVICE") \/ (to = <<>> /\ board.armed)
       /\ client.stage \in {"head", "status"} => board.armed
  /\ client.phase \notin {"guard", "over"}
       /\ ~(client.phase = "identify" /\ client.step \in {"sync", "info"}) => board.armed

\* The erases, byte by byte of their replies.
ExtErasing ==
  client.phase = "xerase" =>
    /\ client.stage = "send" => Clear
    /\ client.stage = "head" => Going("EXTF_ERASE") \/ (Came(EraseReply) /\ board.ext = <<>>)
    /\ client.stage = "status" => Came(Rest(EraseReply, 1)) /\ board.ext = <<>>
    /\ client.stage = "percent" =>
         (Came(Rest(EraseReply, 2)) \/ Came(Rest(EraseReply, 3))) /\ board.ext = <<>>
    /\ client.stage = "poll" => Came(Rest(EraseReply, 4)) /\ board.ext = <<>>
    /\ client.stage = "poll status" => Came(Rest(EraseReply, 5)) /\ board.ext = <<>>

ChipErasing ==
  client.phase = "erase" =>
    /\ client.stage = "send" => Clear
    /\ client.stage = "poll" => Going("CHIP_ERASE") \/ (Came(Ack("OK")) /\ board.flash = <<>>)
    /\ client.stage = "poll status" => Came(<<Byte("OK")>>) /\ board.flash = <<>>

Numbered(n) == [k \in 1..n |-> k]
FrameOp == IF client.phase = "xprogram" THEN "EXTF_PROG_MULTI" ELSE "PROG_MULTI"
Chunk == [op |-> FrameOp, data |-> client.chunk]

\* The memory holds the first n chunks, or no more than there is room for.
Holding(n) ==
  IF client.phase = "xprogram" THEN board.ext = Numbered(n)
  ELSE IF Dirty THEN Len(board.flash) <= n + Twice
  ELSE board.flash = Numbered(n)

\* A chunk whose answer is late may still be on its way.
Overdue ==
  /\ client.phase = "program" /\ Dirty /\ Twice = 1 /\ board.mode = "idle"
  /\ Len(board.flash) <= client.chunk - 1

Writing ==
  client.phase \in {"xprogram", "program"} =>
    /\ client.step \in {"frame", "resync", "resend"} /\ client.stage = "send" =>
         Clear /\ board.mode = "idle" /\ Holding(client.chunk - 1)
    /\ client.step \in {"frame", "resend"} /\ client.stage = "head" =>
         \/ to = <<Chunk>> /\ Pipe = <<>> /\ board.mode = "idle" /\ Holding(client.chunk - 1)
         \/ Came(Ack("OK")) /\ board.mode = "idle" /\ Holding(client.chunk)
         \/ /\ client.step = "frame" /\ Spent(client.phase) /\ Holding(client.chunk - 1)
            /\ Clear \/ (Came(Ack("INVALID")) /\ board.mode = "idle")
    /\ client.step \in {"frame", "resend"} /\ client.stage = "status" =>
         /\ board.mode = "idle"
         /\ \/ Came(<<Byte("OK")>>) /\ Holding(client.chunk)
            \/ /\ client.step = "frame" /\ Spent(client.phase) /\ Holding(client.chunk - 1)
               /\ Came(<<Byte("INVALID")>>)
    /\ client.step = "resync" =>
         board.mode = "idle" /\ Acking("GET_SYNC") /\ Holding(client.chunk - 1)
    /\ client.step = "filler" =>
         \/ to = <<>> /\ Holding(client.chunk - 1)
         \/ to = <<Chunk>> /\ Overdue
    /\ client.step = "drain" =>
         \/ to = <<>> /\ board.mode = "idle" /\ Holding(client.chunk - 1)
         \/ Len(to) = 1 /\ to[1].op = "FILLER" /\ Holding(client.chunk - 1)
         \/ Len(to) = 2 /\ to[1] = Chunk /\ to[2].op = "FILLER" /\ Overdue

\* A verify reads what the memory holds: the image, if nothing has damaged it.
Checking ==
  client.phase \in {"xverify", "verify"} =>
    /\ board.mode = "idle"
    /\ client.phase = "xverify" => board.ext = ExtImage
    /\ client.phase = "verify" => Dirty \/ board.flash = Image
    /\ client.stage = "send" => Clear
    /\ client.step = "rewind" =>
         /\ client.chunk = 1 /\ Acking("CHIP_VERIFY")
         /\ client.stage # "send" /\ to = <<>> => board.cursor = 0
    /\ client.step = "crc" /\ client.phase = "verify" => setup.rev > 2
    /\ client.step = "read" =>
         /\ client.chunk <= Chunks
         /\ board.cursor = IF client.stage = "send" \/ to # <<>> THEN client.chunk - 1
                                                                   ELSE client.chunk
    /\ client.step \in {"crc", "read"} =>
         /\ client.stage = "field" => Going(Asked) \/ Came(FieldReply(Truth))
         /\ client.stage = "head" => Came(Ack("OK")) /\ client.word = Field(Truth)
         /\ client.stage = "status" => Came(<<Byte("OK")>>) /\ client.word = Field(Truth)

Calm ==
  /\ ~closed /\ result # "failed"
  /\ History /\ Known /\ ExtErasing /\ ChipErasing /\ Writing /\ Checking
MishapInv == faults \in Seq(Mishaps) /\ (Tame => Calm)

-----------------------------------------------------------------------------
(* The mishap. *)

\* A step meets no mishap, or one.
LEMMA FaultIs ==
  ASSUME TypeInv, faults \in Seq(Mishaps), NEW k, Fault(k)
  PROVE  /\ faults' \in Seq(Mishaps)
         /\ Tame' => /\ faults = <<>> /\ faults' # <<>>
                     /\ faults'[1].kind = k /\ faults'[1].phase = client.phase
                     /\ Survivable(faults'[1])
<1> DEFINE f == [kind |-> k, phase |-> client.phase]
<1>1. k \in FaultKinds /\ client.phase \in Phases /\ faults' = Append(faults, f)
  BY FaultsAssumption DEF Fault, TypeInv
<1>2. f \in Mishaps /\ f.kind = k /\ f.phase = client.phase
  BY <1>1 DEF Mishaps
<1> HIDE DEF f
<1>3. /\ faults' \in Seq(Mishaps) /\ Len(faults') = Len(faults) + 1
      /\ faults'[Len(faults) + 1] = f /\ Len(faults) \in Nat
  BY <1>1, <1>2, AppendProperties, LenProperties
<1>4. faults' # <<>>
  BY <1>3, EmptySeq
<1>5. ASSUME Tame' PROVE faults = <<>> /\ faults'[1] = f /\ Survivable(faults'[1])
  <2>1. Len(faults') = 1 /\ Survivable(faults'[1])
    BY <1>4, <1>5 DEF Tame, Survivable
  <2>2. Len(faults) = 0
    BY <1>3, <2>1
  <2> QED BY <1>3, <2>1, <2>2, EmptySeq
<1> QED BY <1>2, <1>3, <1>4, <1>5

\* Where it may happen.
LEMMA SurvivableIs ==
  ASSUME NEW f, Survivable(f)
  PROVE  /\ f.phase \in {"program", "xprogram"} /\ f.kind \notin {"failed", "unplugged", "late resync"}
         /\ f.phase = "xprogram" => f.kind \in {"refused", "cut"}
         /\ f.kind \in {"late", "ack lost"} => Chunks < FlashChunks
BY DEF Survivable

\* What is known of the mishap does not change without another.
LEMMA SameFaults ==
  ASSUME faults' = faults
  PROVE  /\ Tame' <=> Tame
         /\ \A p : Spent(p)' <=> Spent(p)
         /\ \A K : Of(K)' <=> Of(K)
         /\ Twice' = Twice
         /\ client'.attempt = client.attempt => (Dirty' <=> Dirty)
BY DEF Tame, Survivable, Spent, Of, Twice, Dirty

\* A session that nothing has befallen is not dirty.
LEMMA Spotless ==
  /\ faults = <<>> => ~Dirty /\ \A p : ~Spent(p)
  /\ History /\ client.attempt = 2 => ~Dirty
<1>1. faults = <<>> => \A p : ~Spent(p)
  BY DEF Spent
<1>2. client.attempt = 2 => client.attempt # 1
  OBVIOUS
<1> QED BY <1>1, <1>2 DEF Dirty

\* The moves of the client keep or set the attempt.
LEMMA StepKeeps ==
  ASSUME ClientType, NEW s, Moves(ToStep(client, s))
  PROVE  client'.attempt = client.attempt
BY DEF ClientType, Moves, ToStep

\* A stage is left in the same attempt.
LEMMA StageKeeps ==
  ASSUME ClientType, NEW g, Moves([client EXCEPT !.stage = g])
  PROVE  client'.attempt = client.attempt
BY DEF ClientType, Moves

\* A phase that is through is followed by the next in the same attempt.
LEMMA PhaseKeeps ==
  ASSUME ClientType, NEW p, Moves(ToPhase(client, p))
  PROVE  client'.attempt = client.attempt
<1> DEFINE c == [client EXCEPT !.phase = p, !.chunk = 1]
<1>1. c.attempt = client.attempt
  BY DEF ClientType
<1>2. \A s : ToStep(c, s).attempt = c.attempt
  BY DEF ToStep, ClientType
<1>3. client' = ToStep(c, First(p))
  BY DEF Moves, ToPhase
<1> QED BY <1>1, <1>2, <1>3

\* A mismatch of the first attempt begins the second.
LEMMA PhaseSets ==
  ASSUME ClientType, NEW p, Moves([ToPhase(client, p) EXCEPT !.attempt = 2])
  PROVE  client'.attempt = 2
<1> DEFINE c == [client EXCEPT !.phase = p, !.chunk = 1]
<1>1. \A s : "attempt" \in DOMAIN ToStep(c, s)
  BY DEF ToStep, ClientType
<1>2. client' = [ToStep(c, First(p)) EXCEPT !.attempt = 2]
  BY DEF Moves, ToPhase
<1> QED BY <1>1, <1>2

\* The invariant in each phase.
LEMMA CalmOver ==
  ASSUME client'.phase = "over", ~closed', result' # "failed", History'
  PROVE  Calm'
<1>1. Known' /\ ExtErasing' /\ ChipErasing'
  BY DEF Known, ExtErasing, ChipErasing
<1>2. Writing' /\ Checking'
  BY DEF Writing, Checking
<1> QED BY <1>1, <1>2 DEF Calm

\* Before flash().
LEMMA CalmEarly ==
  ASSUME client'.phase \in Early, ~closed', result' = "none", History', Known'
  PROVE  Calm'
<1>1. client'.phase \notin {"xerase", "erase", "xprogram", "program", "xverify", "verify"}
  BY DEF Early
<1>2. ExtErasing' /\ ChipErasing'
  BY <1>1 DEF ExtErasing, ChipErasing
<1>3. Writing' /\ Checking'
  BY <1>1 DEF Writing, Checking
<1> QED BY <1>2, <1>3 DEF Calm

\* In flash().
LEMMA CalmLate ==
  ASSUME client'.phase \in {"xerase", "erase", "xprogram", "program", "xverify", "verify", "reboot"},
         ~closed', result' = "none", History', board'.armed,
         client'.phase = "xerase" => ExtErasing',
         client'.phase = "erase" => ChipErasing',
         client'.phase \in {"xprogram", "program"} => Writing',
         client'.phase \in {"xverify", "verify"} => Checking'
  PROVE  Calm'
<1>1. Known'
  BY DEF Known
<1>2. ExtErasing' /\ ChipErasing'
  BY DEF ExtErasing, ChipErasing
<1>3. Writing' /\ Checking'
  BY DEF Writing, Checking
<1> QED BY <1>1, <1>2, <1>3 DEF Calm

\* The history of a session goes on in the same phase.
LEMMA HistoryOn ==
  ASSUME History, faults' = faults, client'.attempt = client.attempt,
         client'.phase = client.phase,
         client.phase \in {"xprogram", "program"} =>
            client'.step \in {"frame", client.step} \/ Spent(client.phase)
  PROVE  History'
BY SameFaults DEF History

\* And in the next.
LEMMA HistoryNext ==
  ASSUME History, faults' = faults, client'.attempt = client.attempt,
         client'.phase \in Early \cup {"xerase"} => client.phase \in Early \ {"guard"},
         client'.phase \in {"xprogram", "program"} => client'.step = "frame",
         client.phase \in {"program", "verify", "reboot"} =>
           client'.phase \in {"verify", "reboot", "over"},
         client.phase \notin {"guard", "over"}
  PROVE  History'
<1>1. /\ \A p : Spent(p)' <=> Spent(p)
      /\ client.phase \in Early \cup {"xerase"} => faults = <<>>
      /\ client.attempt = 2 => Spent("program")
      /\ Spent("program") =>
           client.phase \in {"program", "verify", "reboot", "over"} \/ client.attempt = 2
      /\ client.phase \notin {"guard", "over"} => Chunks <= FlashChunks
  BY SameFaults DEF History
<1>2. client.phase \in Early \cup {"xerase"} => \A p : ~Spent(p)
  BY <1>1, Spotless
<1>3. client'.phase \in Early \cup {"xerase"} => faults' = <<>>
  BY <1>1
<1>4. Spent("program") =>
        client'.phase \in {"program", "verify", "reboot", "over"} \/ client.attempt = 2
  BY <1>1
<1> QED BY <1>1, <1>3, <1>4 DEF History

-----------------------------------------------------------------------------
(* A silent link, a command, its reply. *)

\* What is left when bytes are read.
LEMMA LeavesRest ==
  ASSUME TypeInv, NEW n \in 1..4, Takes(n)
  PROVE  /\ Pipe' = Rest(Pipe, n) /\ Head(buf) = Pipe[1]
         /\ SubSeq(buf, 1, n) = SubSeq(Pipe, 1, n)
<1>1. /\ buf' \in Seq(Bytes) /\ Len(Pipe) >= n /\ Len(Pipe') = Len(Pipe) - n
      /\ \A k \in 1..Len(Pipe') : Pipe'[k] = Pipe[k + n]
      /\ Head(buf) = Pipe[1] /\ SubSeq(buf, 1, n) = SubSeq(Pipe, 1, n)
  BY TakesBytes
<1>2. Pipe \in Seq(Bytes) /\ n \in Nat /\ n <= Len(Pipe)
  BY <1>1, LinkType
<1>3. Rest(Pipe, n) \in Seq(Bytes) /\ IsRest(Rest(Pipe, n), Pipe, n)
  BY <1>2, DropsFront
<1>4. Pipe' \in Seq(Bytes)
  BY <1>1, Joined DEF Takes, TypeInv, Pipe
<1>5. Pipe' = Rest(Pipe, n)
  BY <1>1, <1>3, <1>4, SeqEqual DEF IsRest
<1>6. Head(buf) = Pipe[1] /\ SubSeq(buf, 1, n) = SubSeq(Pipe, 1, n)
  BY TakesBytes
<1> QED BY <1>5, <1>6

\* What is left of a sequence that is written out.
LEMMA RestElements ==
  ASSUME NEW s \in Seq(Bytes), NEW r \in Seq(Bytes), NEW n \in Nat, n <= Len(s),
         Len(r) = Len(s) - n, \A i \in 1..(Len(s) - n) : r[i] = s[i + n]
  PROVE  Rest(s, n) = r
<1>1. Rest(s, n) \in Seq(Bytes) /\ IsRest(Rest(s, n), s, n)
  BY DropsFront
<1>2. Len(Rest(s, n)) = Len(r) /\ \A i \in 1..Len(r) : Rest(s, n)[i] = r[i]
  BY <1>1 DEF IsRest
<1> QED BY <1>1, <1>2, SeqEqual

\* An ack, after its first byte and after its last.
LEMMA RestOfAck ==
  ASSUME NEW x \in Names
  PROVE  /\ Rest(Ack(x), 1) = <<Byte(x)>> /\ Rest(<<Byte(x)>>, 1) = <<>>
         /\ Ack(x)[1] = Byte("INSYNC") /\ <<Byte(x)>>[1] = Byte(x)
         /\ Len(Ack(x)) = 2 /\ Len(<<Byte(x)>>) = 1
<1>1. /\ Ack(x) \in Seq(Bytes) /\ Len(Ack(x)) = 2
      /\ Ack(x)[1] = Byte("INSYNC") /\ Ack(x)[2] = Byte(x)
  BY ReplyBytes
<1> DEFINE b == Byte(x)
<1>2. b \in Bytes
  BY DEF Byte, Bytes
<1> HIDE DEF b
<1>3. /\ <<b>> \in Seq(Bytes) /\ Len(<<b>>) = 1 /\ <<b>>[1] = b
      /\ <<>> \in Seq(Bytes) /\ Len(<<>>) = 0
  BY <1>2
<1>4. Rest(Ack(x), 1) = <<b>>
  <2>1. 1 \in Nat /\ 1 <= Len(Ack(x)) /\ Len(<<b>>) = Len(Ack(x)) - 1
    BY <1>1, <1>3
  <2>2. \A i \in 1..(Len(Ack(x)) - 1) : <<b>>[i] = Ack(x)[i + 1]
    BY <1>1, <1>3 DEF b
  <2> QED BY <1>1, <1>3, <2>1, <2>2, RestElements
<1>5. Rest(<<b>>, 1) = <<>>
  <2>1. 1 \in Nat /\ 1 <= Len(<<b>>) /\ Len(<<>>) = Len(<<b>>) - 1
    BY <1>3
  <2>2. \A i \in 1..(Len(<<b>>) - 1) : <<>>[i] = <<b>>[i + 1]
    BY <1>3
  <2> QED BY <1>3, <2>1, <2>2, RestElements
<1> QED BY <1>1, <1>3, <1>4, <1>5 DEF b

\* A field, after its value.
LEMMA RestOfField ==
  ASSUME NEW v \in Seq(Nat)
  PROVE  /\ Rest(FieldReply(v), 4) = Ack("OK") /\ Len(FieldReply(v)) = 6
         /\ SubSeq(FieldReply(v), 1, 4) = Field(v)
<1>1. /\ FieldReply(v) \in Seq(Bytes) /\ Len(FieldReply(v)) = 6
      /\ FieldReply(v)[5] = Byte("INSYNC") /\ FieldReply(v)[6] = Byte("OK")
      /\ SubSeq(FieldReply(v), 1, 4) = Field(v)
  BY ReplyBytes
<1>2. Rest(FieldReply(v), 4) \in Seq(Bytes) /\ IsRest(Rest(FieldReply(v), 4), FieldReply(v), 4)
  <2>1. 4 \in Nat /\ 4 <= Len(FieldReply(v))
    BY <1>1
  <2> QED BY <1>1, <2>1, DropsFront
<1>3. Len(Rest(FieldReply(v), 4)) = 2
  BY <1>1, <1>2 DEF IsRest
<1>4. /\ Rest(FieldReply(v), 4)[1] = FieldReply(v)[1 + 4]
      /\ Rest(FieldReply(v), 4)[2] = FieldReply(v)[2 + 4]
  BY <1>1, <1>2 DEF IsRest
<1>5. /\ Ack("OK") \in Seq(Bytes) /\ Len(Ack("OK")) = 2
      /\ Ack("OK")[1] = Byte("INSYNC") /\ Ack("OK")[2] = Byte("OK")
  BY ReplyBytes DEF Names
<1>6. \A k \in 1..2 : Rest(FieldReply(v), 4)[k] = Ack("OK")[k]
  BY <1>1, <1>4, <1>5
<1> QED BY <1>1, <1>2, <1>3, <1>5, <1>6, SeqEqual

\* The reply to the erase of the external flash, byte by byte.
LEMMA RestOfErase ==
  /\ Rest(EraseReply, 0) = EraseReply
  /\ Rest(Rest(EraseReply, 0), 1) = Rest(EraseReply, 1)
  /\ Rest(Rest(EraseReply, 1), 1) = Rest(EraseReply, 2)
  /\ Rest(Rest(EraseReply, 2), 1) = Rest(EraseReply, 3)
  /\ Rest(Rest(EraseReply, 3), 1) = Rest(EraseReply, 4)
  /\ Rest(Rest(EraseReply, 4), 1) = Rest(EraseReply, 5)
  /\ Rest(Rest(EraseReply, 5), 1) = <<>>
  /\ Rest(EraseReply, 0)[1] = Byte("INSYNC") /\ Rest(EraseReply, 1)[1] = Byte("OK")
  /\ Rest(EraseReply, 2)[1] = Byte("50%") /\ Rest(EraseReply, 3)[1] = Byte("90%")
  /\ Rest(EraseReply, 4)[1] = Byte("INSYNC") /\ Rest(EraseReply, 5)[1] = Byte("OK")
  /\ \A k \in 0..5 : Len(Rest(EraseReply, k)) >= 1
<1> DEFINE R == EraseReply
<1>1. /\ R \in Seq(Bytes) /\ Len(R) = 6
      /\ R[1] = Byte("INSYNC") /\ R[2] = Byte("OK") /\ R[3] = Byte("50%") /\ R[4] = Byte("90%")
      /\ R[5] = Byte("INSYNC") /\ R[6] = Byte("OK")
  <2>1. R \in Seq(Bytes) /\ Len(R) = 6
    BY ReplyBytes
  <2> DEFINE q == <<Byte("50%"), Byte("90%")>>
             a == Ack("OK")
             c == Cat(a, q)
             d == Cat(c, a)
  <2>2. a \in Seq(Bytes) /\ Len(a) = 2 /\ a[1] = Byte("INSYNC") /\ a[2] = Byte("OK")
    BY ReplyBytes DEF Names
  <2>3. q \in Seq(Bytes) /\ Len(q) = 2 /\ q[1] = Byte("50%") /\ q[2] = Byte("90%")
    BY DEF Byte, Bytes, Names
  <2>4. R = d
    BY DEF EraseReply, Cat
  <2> HIDE DEF q, a
  <2>5. c \in Seq(Bytes) /\ Len(c) = Len(a) + Len(q)
    BY <2>2, <2>3, Joined
  <2>6. \A i \in Int : i >= 1 /\ i <= Len(a) => c[i] = a[i]
    BY <2>2, <2>3, JoinedBefore
  <2>7. \A i \in Int : i >= 1 /\ i <= Len(q) => c[Len(a) + i] = q[i]
    <3> SUFFICES ASSUME NEW i \in Int, i >= 1, i <= Len(q) PROVE Cat(a, q)[Len(a) + i] = q[i]
      OBVIOUS
    <3> QED BY <2>2, <2>3, JoinedAfter
  <2> HIDE DEF c
  <2>8. \A i \in Int : i >= 1 /\ i <= Len(c) => d[i] = c[i]
    BY <2>2, <2>5, JoinedBefore
  <2>9. \A i \in Int : i >= 1 /\ i <= Len(a) => d[Len(c) + i] = a[i]
    BY <2>2, <2>5, JoinedAfter
  <2> HIDE DEF d
  <2>10. c[1] = a[1] /\ c[2] = a[2] /\ c[2 + 1] = q[1] /\ c[2 + 2] = q[2] /\ Len(c) = 4
    BY <2>2, <2>3, <2>5, <2>6, <2>7
  <2>11. d[1] = c[1] /\ d[2] = c[2] /\ d[3] = c[3] /\ d[4] = c[4] /\ d[4 + 1] = a[1] /\ d[4 + 2] = a[2]
    BY <2>2, <2>8, <2>9, <2>10
  <2> QED BY <2>1, <2>2, <2>3, <2>4, <2>10, <2>11
<1> HIDE DEF R
<1>2. ASSUME NEW k \in 0..5
      PROVE  /\ Rest(R, k) \in Seq(Bytes) /\ Len(Rest(R, k)) = 6 - k
             /\ \A i \in 1..(6 - k) : Rest(R, k)[i] = R[i + k]
  <2>1. k \in Nat /\ k <= Len(R)
    BY <1>1
  <2>2. Rest(R, k) \in Seq(Bytes) /\ IsRest(Rest(R, k), R, k)
    BY <1>1, <2>1, DropsFront
  <2> QED BY <1>1, <2>2 DEF IsRest
<1>3. ASSUME NEW k \in 0..4 PROVE Rest(Rest(R, k), 1) = Rest(R, k + 1)
  <2>1. k \in 0..5 /\ k + 1 \in 0..5
    OBVIOUS
  <2> DEFINE s == Rest(R, k)
             r == Rest(R, k + 1)
  <2>2. s \in Seq(Bytes) /\ Len(s) = 6 - k /\ \A i \in 1..(6 - k) : s[i] = R[i + k]
    BY <1>2, <2>1
  <2>3. r \in Seq(Bytes) /\ Len(r) = 6 - (k + 1) /\ \A i \in 1..(6 - (k + 1)) : r[i] = R[i + (k + 1)]
    BY <1>2, <2>1
  <2> HIDE DEF s, r
  <2>4. 1 \in Nat /\ 1 <= Len(s) /\ Len(r) = Len(s) - 1
    BY <2>2, <2>3
  <2>5. \A i \in 1..(Len(s) - 1) : r[i] = s[i + 1]
    <3> SUFFICES ASSUME NEW i \in 1..(Len(s) - 1) PROVE r[i] = s[i + 1]
      OBVIOUS
    <3>1. i \in 1..(6 - (k + 1)) /\ i + 1 \in 1..(6 - k) /\ i + (k + 1) = (i + 1) + k
      BY <2>2
    <3> QED BY <2>2, <2>3, <3>1
  <2>6. Rest(s, 1) = r
    BY <2>2, <2>3, <2>4, <2>5, RestElements
  <2> QED BY <2>6 DEF s, r
<1>4. Rest(Rest(R, 5), 1) = <<>>
  <2> DEFINE s == Rest(R, 5)
  <2>1. s \in Seq(Bytes) /\ Len(s) = 1
    <3>1. 5 \in 0..5 /\ 6 - 5 = 1
      OBVIOUS
    <3> QED BY <1>2, <3>1
  <2> HIDE DEF s
  <2>2. <<>> \in Seq(Bytes) /\ Len(<<>>) = 0
    OBVIOUS
  <2>3. 1 \in Nat /\ 1 <= Len(s) /\ Len(<<>>) = Len(s) - 1 /\ \A i \in 1..(Len(s) - 1) : <<>>[i] = s[i + 1]
    BY <2>1, <2>2
  <2>4. Rest(s, 1) = <<>>
    BY <2>1, <2>2, <2>3, RestElements
  <2> QED BY <2>4 DEF s
<1>5. Rest(R, 0) = R
  <2>1. 0 \in Nat /\ 0 <= Len(R) /\ Len(R) = Len(R) - 0 /\ \A i \in 1..(Len(R) - 0) : R[i] = R[i + 0]
    BY <1>1
  <2> QED BY <1>1, <2>1, RestElements
<1>6. \A k \in 0..5 : Len(Rest(R, k)) >= 1 /\ Rest(R, k)[1] = R[1 + k]
  BY <1>2
<1>7. /\ Rest(R, 0)[1] = R[1] /\ Rest(R, 1)[1] = R[2] /\ Rest(R, 2)[1] = R[3]
      /\ Rest(R, 3)[1] = R[4] /\ Rest(R, 4)[1] = R[5] /\ Rest(R, 5)[1] = R[6]
  BY <1>6
<1>8. /\ Rest(Rest(R, 0), 1) = Rest(R, 1) /\ Rest(Rest(R, 1), 1) = Rest(R, 2)
      /\ Rest(Rest(R, 2), 1) = Rest(R, 3) /\ Rest(Rest(R, 3), 1) = Rest(R, 4)
      /\ Rest(Rest(R, 4), 1) = Rest(R, 5)
  BY <1>3
<1> QED BY <1>1, <1>4, <1>5, <1>6, <1>7, <1>8 DEF R

\* No reply under way on the line: it is all with the client.
LEMMA AllArrived ==
  ASSUME TypeInv, from = <<>>
  PROVE  buf = Pipe /\ Len(buf) = Len(Pipe)
<1>1. Pipe = buf
  BY ConcatEmptySeq DEF Pipe, Cat, TypeInv
<1> QED BY <1>1

\* A command on a silent link is the only one.
LEMMA SendsOne ==
  ASSUME TypeInv, Where, Within, Send, Clear
  PROVE  /\ Pipe' = <<>> /\ Len(to') = 1 /\ to'[1].op = Opcode
         /\ to' = <<[op |-> Opcode, data |-> Data]>>
<1>1. StaysButTo /\ buf' \in {<<>>, buf}
  BY SendIs
<1>2. buf = <<>> /\ from = <<>> /\ to = <<>>
  BY LinkType DEF Clear
<1>3. buf' = <<>> /\ from' = <<>>
  BY <1>1, <1>2 DEF StaysButTo
<1>4. Pipe' = <<>>
  BY <1>3, ConcatEmptySeq DEF Pipe, Cat
<1>5. to' = Append(<<>>, [op |-> Opcode, data |-> Data])
  BY <1>2 DEF Send
<1>6. \A w : Append(<<>>, w) = <<w>> /\ Len(<<w>>) = 1 /\ <<w>>[1] = w
  OBVIOUS
<1> QED BY <1>4, <1>5, <1>6

\* A frame carries the chunk of the step.
LEMMA DataChunk ==
  ASSUME TypeInv, Within, client.phase \in {"xprogram", "program"}
  PROVE  Data = client.chunk
<1>1. client.chunk \in Nat \ {0} /\ setup.ext \in Nat /\ Chunks \in Nat
  BY ExtImageIs, SizesAssumption DEF TypeInv
<1>2. CASE client.phase = "program"
  BY <1>1, <1>2 DEF Within, Image, Data
<1>3. CASE client.phase = "xprogram"
  BY <1>1, <1>3 DEF Within, ExtImage, Data
<1> QED BY <1>2, <1>3

\* The only command is taken, and its reply is all there is.
LEMMA HandlesOne ==
  ASSUME TypeInv, Len(to) = 1, Pipe = <<>>, NEW reply \in Seq(Bytes), Takes1(reply)
  PROVE  to' = <<>> /\ Pipe' = reply
BY LinkHandled

\* One chunk more.
LEMMA NumberedNext ==
  ASSUME NEW n \in Nat
  PROVE  /\ Numbered(n) \in Seq(Nat) /\ Len(Numbered(n)) = n
         /\ Append(Numbered(n), n + 1) = Numbered(n + 1)
         /\ Numbered(0) = <<>>
<1>1. /\ Numbered(n) \in Seq(Nat) /\ Len(Numbered(n)) = n
      /\ \A k \in 1..n : Numbered(n)[k] = k
  BY DEF Numbered
<1>2. /\ Numbered(n + 1) \in Seq(Nat) /\ Len(Numbered(n + 1)) = n + 1
      /\ \A k \in 1..(n + 1) : Numbered(n + 1)[k] = k
  BY DEF Numbered
<1>3. /\ Append(Numbered(n), n + 1) \in Seq(Nat) /\ Len(Append(Numbered(n), n + 1)) = n + 1
      /\ Append(Numbered(n), n + 1)[n + 1] = n + 1
      /\ \A k \in 1..n : Append(Numbered(n), n + 1)[k] = Numbered(n)[k]
  BY <1>1, AppendProperties
<1>4. \A k \in 1..(n + 1) : Append(Numbered(n), n + 1)[k] = Numbered(n + 1)[k]
  <2> SUFFICES ASSUME NEW k \in 1..(n + 1)
               PROVE Append(Numbered(n), n + 1)[k] = Numbered(n + 1)[k]
    OBVIOUS
  <2>1. k = n + 1 \/ k \in 1..n
    OBVIOUS
  <2> QED BY <1>1, <1>2, <1>3, <2>1
<1>5. Append(Numbered(n), n + 1) = Numbered(n + 1)
  BY <1>2, <1>3, <1>4, SeqEqual
<1>6. Numbered(0) = <<>>
  BY DEF Numbered
<1> QED BY <1>1, <1>5, <1>6

-----------------------------------------------------------------------------
(* What the bootloader does with a command that comes on a silent link. *)

\* It takes one command, and is in the middle of a payload or not.
LEMMA HandleTakes ==
  ASSUME TypeInv, Handle
  PROVE  /\ to # <<>> /\ to' = Tail(to) /\ Head(to) \in Writes /\ buf' = buf
         /\ UNCHANGED <<client, result, closed, buf, setup>>
         /\ board.mode = "idle" =>
              Query(Head(to)) \/ Chip(Head(to)) \/ (IsFrame(Head(to)) /\ Frame(Head(to)))
         /\ board.mode = "payload" => Payload(Head(to))
<1>1. to # <<>> /\ to' = Tail(to) /\ UNCHANGED <<client, result, closed, buf, setup>>
  BY DEF Handle
<1>2. Head(to) \in Writes
  BY <1>1, HeadTailProperties DEF TypeInv
<1>3. /\ board.mode = "idle" =>
           Query(Head(to)) \/ Chip(Head(to)) \/ (IsFrame(Head(to)) /\ Frame(Head(to)))
      /\ board.mode = "payload" => Payload(Head(to))
  BY DEF Handle
<1> QED BY <1>1, <1>2, <1>3

\* Its reply goes behind what is on the line.
LEMMA Replying ==
  ASSUME TypeInv, to # <<>>, to' = Tail(to), buf' = buf, NEW s \in Seq(Bytes), from' = from \o s
  PROVE  Takes1(s)
BY DEF Takes1, Cat

\* A command that is not answered.
LEMMA NotReplying ==
  ASSUME TypeInv, to # <<>>, to' = Tail(to), buf' = buf, from' = from
  PROVE  Takes1(<<>>)
<1>1. from = Cat(from, <<>>)
  BY ConcatEmptySeq DEF TypeInv, Cat
<1> QED BY <1>1 DEF Takes1

\* The acks, and none.
LEMMA Acks ==
  /\ Ack("OK") \in Seq(Bytes) /\ Ack("INVALID") \in Seq(Bytes) /\ <<>> \in Seq(Bytes)
  /\ Ack("OK") # <<>> /\ Ack("INVALID") # <<>> /\ Ack("OK") # Ack("INVALID")
<1>1. /\ Ack("OK") \in Seq(Bytes) /\ Ack("INVALID") \in Seq(Bytes) /\ <<>> \in Seq(Bytes)
  BY ReplyBytes DEF Names
<1>2. Ack("OK")[2].t = "OK" /\ Ack("INVALID")[2].t = "INVALID" /\ Len(Ack("OK")) = 2
      /\ Len(Ack("INVALID")) = 2
  BY ReplyBytes DEF Names, Byte
<1> QED BY <1>1, <1>2

\* The queries are answered, and never refused.
LEMMA QueryAnswer ==
  ASSUME TypeInv, Handle, board.mode = "idle", Head(to).op \in {"GET_SYNC", "CHIP_VERIFY", "GET_DEVICE"}
  PROVE  /\ faults' = faults
         /\ Head(to).op = "GET_SYNC" => Takes1(Ack("OK")) /\ board' = board
         /\ Head(to).op = "CHIP_VERIFY" =>
              Takes1(Ack("OK")) /\ board' = [board EXCEPT !.cursor = 0]
         /\ Head(to).op = "GET_DEVICE" =>
              /\ board' = [board EXCEPT !.armed = TRUE]
              /\ \E reply \in Seq(Bytes) : Takes1(reply)
<1>1. to # <<>> /\ to' = Tail(to) /\ buf' = buf
  BY HandleTakes
<1>2. Query(Head(to))
  BY HandleTakes DEF Chip, IsFrame
<1>3. Head(to).op \in {"GET_SYNC", "CHIP_VERIFY"} => from' = from \o Ack("OK") /\ faults' = faults
  BY <1>2 DEF Query, Says
<1>4. Field(<<>>) \o Ack("OK") \in Seq(Bytes)
  <2>1. <<>> \in Seq(Nat)
    OBVIOUS
  <2> QED BY <2>1, ReplyBytes DEF FieldReply, Cat
<1>5. Head(to).op = "GET_DEVICE" =>
        from' = from \o (Field(<<>>) \o Ack("OK")) /\ faults' = faults
  BY <1>2 DEF Query, Says
<1>6. /\ Head(to).op = "GET_SYNC" => board' = board
      /\ Head(to).op = "CHIP_VERIFY" => board' = [board EXCEPT !.cursor = 0]
      /\ Head(to).op = "GET_DEVICE" => board' = [board EXCEPT !.armed = TRUE]
  BY <1>2 DEF Query
<1>7. /\ Head(to).op \in {"GET_SYNC", "CHIP_VERIFY"} => Takes1(Ack("OK"))
      /\ Head(to).op = "GET_DEVICE" => \E reply \in Seq(Bytes) : Takes1(reply)
  BY <1>1, <1>3, <1>4, <1>5, Replying, Acks
<1> QED BY <1>3, <1>5, <1>6, <1>7

\* The fields are those of the memories, where the board is armed.
LEMMA FieldAnswer ==
  ASSUME TypeInv, Handle, board.mode = "idle", board.armed,
         Head(to).op \in {"GET_CRC", "EXTF_GET_CRC", "READ_MULTI"},
         Head(to).op = "GET_CRC" => setup.rev > 2
  PROVE  /\ faults' = faults
         /\ Head(to).op = "GET_CRC" => Takes1(FieldReply(board.flash)) /\ board' = board
         /\ Head(to).op = "EXTF_GET_CRC" =>
              Takes1(FieldReply(Cells(board.ext, 1, setup.ext))) /\ board' = board
         /\ Head(to).op = "READ_MULTI" =>
              /\ Takes1(FieldReply(Cells(board.flash, board.cursor + 1, board.cursor + 1)))
              /\ board' = [board EXCEPT !.cursor = @ + 1]
<1>1. to # <<>> /\ to' = Tail(to) /\ buf' = buf
  BY HandleTakes
<1>2. CASE Head(to).op = "GET_CRC"
  <2>1. Chip(Head(to))
    BY <1>2, HandleTakes DEF Query, IsFrame
  <2>2. from' = from \o (Field(board.flash) \o Ack("OK")) /\ faults' = faults /\ board' = board
    BY <1>2, <2>1 DEF Chip, Says
  <2>3. Takes1(FieldReply(board.flash))
    BY <1>1, <2>2 DEF Takes1, FieldReply, Cat
  <2> QED BY <1>2, <2>2, <2>3
<1>3. CASE Head(to).op = "EXTF_GET_CRC"
  <2>1. Chip(Head(to))
    BY <1>3, HandleTakes DEF Query, IsFrame
  <2>2. from' = from \o (Field(Cells(board.ext, 1, setup.ext)) \o Ack("OK")) /\ faults' = faults
        /\ board' = board
    BY <1>3, <2>1 DEF Chip, Says
  <2>3. Takes1(FieldReply(Cells(board.ext, 1, setup.ext)))
    BY <1>1, <2>2 DEF Takes1, FieldReply, Cat
  <2> QED BY <1>3, <2>2, <2>3
<1>4. CASE Head(to).op = "READ_MULTI"
  <2>1. Query(Head(to))
    BY <1>4, HandleTakes DEF Chip, IsFrame
  <2>2. /\ from' = from \o (Field(Cells(board.flash, board.cursor + 1, board.cursor + 1)) \o Ack("OK"))
        /\ faults' = faults /\ board' = [board EXCEPT !.cursor = @ + 1]
    BY <1>4, <2>1 DEF Query, Says
  <2>3. Takes1(FieldReply(Cells(board.flash, board.cursor + 1, board.cursor + 1)))
    BY <1>1, <2>2 DEF Takes1, FieldReply, Cat
  <2> QED BY <1>4, <2>2, <2>3
<1> QED BY <1>2, <1>3, <1>4

\* An erase fails only by a mishap that no session survives.
LEMMA EraseAnswer ==
  ASSUME TypeInv, faults \in Seq(Mishaps), Handle, board.mode = "idle", board.armed, Tame',
         Head(to).op \in {"CHIP_ERASE", "EXTF_ERASE"}
  PROVE  /\ faults' = faults
         /\ Head(to).op = "CHIP_ERASE" =>
              Takes1(Ack("OK")) /\ board' = [board EXCEPT !.flash = <<>>]
         /\ Head(to).op = "EXTF_ERASE" =>
              Takes1(EraseReply) /\ board' = [board EXCEPT !.ext = <<>>]
<1>1. to # <<>> /\ to' = Tail(to) /\ buf' = buf
  BY HandleTakes
<1>2. Chip(Head(to))
  BY HandleTakes DEF Query, IsFrame
<1>3. CASE Head(to).op = "CHIP_ERASE"
  <2>1. board' = [board EXCEPT !.flash = <<>>]
        /\ ((from' = from \o Ack("OK") /\ faults' = faults) \/ Fault("failed"))
    BY <1>2, <1>3 DEF Chip, Says
  <2>2. ~Fault("failed")
    BY FaultIs, SurvivableIs
  <2> QED BY <1>1, <1>3, <2>1, <2>2, Replying, Acks
<1>4. CASE Head(to).op = "EXTF_ERASE"
  <2>1. /\ board' = [board EXCEPT !.ext = <<>>] /\ faults' = faults
        /\ from' = from \o (Ack("OK") \o <<Byte("50%"), Byte("90%")>> \o Ack("OK"))
    BY <1>2, <1>4 DEF Chip, Says
  <2>2. Takes1(EraseReply)
    BY <1>1, <2>1 DEF Takes1, Cat, EraseReply
  <2> QED BY <1>4, <2>1, <2>2
<1> QED BY <1>3, <1>4

\* A frame is written and acknowledged, or is what the session survives.
LEMMA FrameAnswer ==
  ASSUME TypeInv, faults \in Seq(Mishaps), Handle, board.mode = "idle", Tame',
         Head(to).op \in Frames,
         Head(to).op = "PROG_MULTI" => Len(board.flash) < FlashChunks
  PROVE  \/ faults' = faults /\ Takes1(Ack("OK")) /\ board' = Written(Head(to), Head(to).data)
         \/ Fault("refused") /\ Takes1(Ack("INVALID")) /\ board' = board
         \/ Fault("cut") /\ Takes1(<<>>) /\ board' = [board EXCEPT !.mode = "payload"]
         \/ Fault("corrupt") /\ Takes1(Ack("OK")) /\ board' = Written(Head(to), Damaged)
         \/ Fault("ack lost") /\ Takes1(<<>>) /\ board' = Written(Head(to), Head(to).data)
<1>1. to # <<>> /\ to' = Tail(to) /\ buf' = buf
  BY HandleTakes
<1>2. Frame(Head(to))
  BY HandleTakes DEF Query, Chip, Frames
<1>3. Len(board.flash) \in Nat /\ FlashChunks \in Nat
  BY SizesAssumption, LenProperties DEF TypeInv
<1>4. Head(to).op = "PROG_MULTI" => ~(Len(board.flash) >= FlashChunks)
  BY <1>3
<1>5. \/ faults' = faults /\ from' = from \o Ack("OK") /\ board' = Written(Head(to), Head(to).data)
      \/ Fault("refused") /\ from' = from \o Ack("INVALID") /\ board' = board
      \/ Fault("failed")
      \/ Fault("cut") /\ from' = from /\ board' = [board EXCEPT !.mode = "payload"]
      \/ Fault("corrupt") /\ from' = from \o Ack("OK") /\ board' = Written(Head(to), Damaged)
      \/ Fault("ack lost") /\ from' = from /\ board' = Written(Head(to), Head(to).data)
  BY <1>2, <1>4 DEF Frame, Says
<1>6. ~Fault("failed")
  BY FaultIs, SurvivableIs
<1>7. /\ from' = from \o Ack("OK") => Takes1(Ack("OK"))
      /\ from' = from \o Ack("INVALID") => Takes1(Ack("INVALID"))
  BY <1>1, Replying, Acks
<1>8. from' = from => Takes1(<<>>)
  BY <1>1, NotReplying
<1> QED BY <1>5, <1>6, <1>7, <1>8

\* A filler ends a payload, and is nothing to a bootloader that waits for none.
LEMMA FillerAnswer ==
  ASSUME TypeInv, Handle, Head(to).op = "FILLER"
  PROVE  faults' = faults /\ board' = [board EXCEPT !.mode = "idle"]
         /\ \E reply \in Seq(Bytes) : Takes1(reply)
<1>1. to # <<>> /\ to' = Tail(to) /\ buf' = buf
  BY HandleTakes
<1>2. board \in [mode : {"idle", "payload"}, armed : BOOLEAN, flash : Seq(Nat),
                 ext : Seq(Nat), cursor : Nat]
  BY DEF TypeInv
<1>3. CASE board.mode = "idle"
  <2>1. Query(Head(to))
    BY <1>3, HandleTakes DEF Chip, IsFrame
  <2>2. from' = from /\ faults' = faults /\ board' = board
    BY <2>1 DEF Query, SaysNothing
  <2>3. board = [board EXCEPT !.mode = "idle"]
    BY <1>2, <1>3
  <2> QED BY <1>1, <2>2, <2>3, NotReplying, Acks
<1>4. CASE board.mode = "payload"
  BY <1>1, <1>4, HandleTakes, Replying, Acks DEF Payload, Says
<1> QED BY <1>2, <1>3, <1>4

-----------------------------------------------------------------------------
(* Every step keeps a session calm that meets no mishap, or survives the one *)
(* it meets.                                                                 *)

\* What is under way is the same, wherever the bytes of a reply are.
LEMMA CalmSame ==
  ASSUME Calm, UNCHANGED <<client, result, closed, to, board, setup, faults>>, Pipe' = Pipe
  PROVE  Calm'
<1>1. /\ client' = client /\ result' = result /\ closed' = closed /\ to' = to
      /\ board' = board /\ setup' = setup /\ faults' = faults
  OBVIOUS
<1>2. /\ Clear' <=> Clear
      /\ \A op : Going(op)' <=> Going(op)
      /\ \A s : Came(s)' <=> Came(s)
      /\ \A p : Spent(p)' <=> Spent(p)
      /\ (Dirty' <=> Dirty) /\ Twice' = Twice
  BY <1>1, SameFaults DEF Clear, Going, Came
<1>3. /\ \A op : Acking(op)' <=> Acking(op)
      /\ Truth' = Truth /\ Asked' = Asked /\ Chunk' = Chunk /\ ExtImage' = ExtImage
      /\ \A n : Holding(n)' <=> Holding(n)
      /\ Overdue' <=> Overdue
  <2>1. \A op : Acking(op)' <=> Acking(op)
    BY <1>1, <1>2 DEF Acking
  <2>2. Truth' = Truth /\ Asked' = Asked /\ Chunk' = Chunk /\ ExtImage' = ExtImage
    BY <1>1 DEF Truth, Asked, Chunk, FrameOp, ExtImage
  <2>3. \A n : Holding(n)' <=> Holding(n)
    BY <1>1, <1>2 DEF Holding
  <2>4. Overdue' <=> Overdue
    BY <1>1, <1>2 DEF Overdue
  <2> QED BY <2>1, <2>2, <2>3, <2>4
<1>4. History'
  BY <1>1, <1>2 DEF Calm, History
<1>5. Known'
  BY <1>1, <1>2, <1>3 DEF Calm, Known
<1>6. ExtErasing'
  BY <1>1, <1>2 DEF Calm, ExtErasing
<1>7. ChipErasing'
  BY <1>1, <1>2 DEF Calm, ChipErasing
<1>8. Writing'
  BY <1>1, <1>2, <1>3 DEF Calm, Writing
<1>9. Checking'
  BY <1>1, <1>2, <1>3 DEF Calm, Checking
<1> QED BY <1>1, <1>4, <1>5, <1>6, <1>7, <1>8, <1>9 DEF Calm

\* A byte that arrives.
LEMMA ArriveCalm ==
  ASSUME FlashInv, MishapInv, Arrive, Tame'
  PROVE  Calm'
<1>1. UNCHANGED <<client, result, closed, to, board, setup, faults>>
  BY DEF Arrive
<1>2. Pipe' = Pipe
  BY ArriveLink DEF FlashInv
<1>3. Calm
  BY <1>1, SameFaults DEF MishapInv
<1> QED BY <1>1, <1>2, <1>3, CalmSame

\* A port that goes is not survived.
LEMMA UnplugCalm ==
  ASSUME FlashInv, MishapInv, Unplug
  PROVE  ~Tame'
<1>1. Fault("unplugged")
  BY DEF Unplug
<1> QED BY <1>1, FaultIs, SurvivableIs DEF FlashInv, MishapInv

\* A session starts with nothing under way.
LEMMA InitMishap ==
  ASSUME Init
  PROVE  MishapInv
<1>1. /\ faults = <<>> /\ client.phase = "guard" /\ client.attempt = 1 /\ ~closed
      /\ result = "none" /\ to = <<>> /\ buf = <<>> /\ from = <<>>
  BY DEF Init
<1>2. Pipe = <<>>
  BY <1>1, ConcatEmptySeq DEF Pipe, Cat
<1>3. History
  BY <1>1, Spotless DEF History, Early
<1>4. Known
  BY <1>1, <1>2 DEF Known, Clear
<1>5. ExtErasing /\ ChipErasing
  BY <1>1 DEF ExtErasing, ChipErasing
<1>6. Writing /\ Checking
  BY <1>1 DEF Writing, Checking
<1> QED BY <1>1, <1>3, <1>4, <1>5, <1>6 DEF MishapInv, Calm

\* The guards let a session begin.
LEMMA GuardCalm ==
  ASSUME FlashInv, MishapInv, Guard, Tame'
  PROVE  Calm'
<1>1. /\ client.phase = "guard" /\ UNCHANGED <<closed, link, board, setup, faults>>
      /\ \/ Moves(ToPhase(client, "identify")) /\ Chunks <= FlashChunks
         \/ Ends("refused")
  BY DEF Guard
<1>2. Calm /\ faults' = faults /\ closed' = closed /\ to' = to /\ Pipe' = Pipe
  BY <1>1, SameFaults DEF MishapInv, link, Pipe
<1>3. TypeInv /\ ClientType /\ result = "none"
  BY <1>1 DEF FlashInv, TypeInv, ClientType, Ended
<1>4. ~closed /\ History /\ Known
  BY <1>2 DEF Calm
<1>5. faults = <<>> /\ Clear /\ (\A p : ~Spent(p)) /\ client.attempt = 1
  <2>1. faults = <<>> /\ Clear
    BY <1>1, <1>4 DEF History, Known, Early
  <2>2. client.attempt \in {1, 2} /\ (client.attempt = 2 => Spent("program"))
    BY <1>3, <1>4 DEF History, ClientType
  <2> QED BY <2>1, <2>2, Spotless
<1>6. \A p : ~Spent(p)'
  BY <1>2, <1>5, SameFaults
<1>7. CASE Ends("refused")
  <2>1. client'.phase = "over" /\ result' = "refused" /\ client'.attempt = client.attempt
    BY <1>3, <1>7 DEF Ends, ClientType
  <2>2. History'
    BY <1>2, <1>4, <1>5, <1>6, <2>1 DEF History
  <2> QED BY <1>2, <1>4, <2>1, <2>2, CalmOver
<1>8. CASE Moves(ToPhase(client, "identify")) /\ Chunks <= FlashChunks
  <2>1. "identify" \in Phases \ {"guard", "over"} /\ 1 \in {1, 2}
    BY DEF Phases
  <2>2. /\ result' = result /\ client'.phase = "identify" /\ client'.step = First("identify")
        /\ client'.stage = (IF "identify" \in {"settle 1", "settle 2"} THEN "drain" ELSE "send")
    BY <1>3, <1>8, <2>1, PhaseMoves
  <2>3. client'.step = "sync" /\ client'.stage = "send" /\ client'.attempt = client.attempt
    BY <1>3, <1>8, <2>2, FirstIs, PhaseKeeps
  <2>4. History'
    BY <1>2, <1>5, <1>6, <1>8, <2>2, <2>3 DEF History
  <2>5. Clear'
    BY <1>2, <1>5 DEF Clear
  <2>6. Known'
    BY <2>2, <2>3, <2>5 DEF Known, Acking
  <2>7. client'.phase \in Early
    BY <2>2 DEF Early
  <2> QED BY <1>2, <1>3, <1>4, <2>2, <2>4, <2>6, <2>7, CalmEarly
<1> QED BY <1>1, <1>7, <1>8

\* What the memory holds, as long as nothing is written to it.
LEMMA HoldingSame ==
  ASSUME board'.ext = board.ext, board'.flash = board.flash, faults' = faults,
         client'.phase = client.phase, client'.attempt = client.attempt
  PROVE  /\ \A n : Holding(n)' <=> Holding(n)
         /\ board'.mode = board.mode /\ client'.chunk = client.chunk => (Overdue' <=> Overdue)
         /\ client'.chunk = client.chunk => Chunk' = Chunk
<1>1. (Dirty' <=> Dirty) /\ Twice' = Twice
  BY SameFaults
<1>2. \A n : Holding(n)' <=> Holding(n)
  BY <1>1 DEF Holding
<1>3. board'.mode = board.mode /\ client'.chunk = client.chunk => (Overdue' <=> Overdue)
  BY <1>1 DEF Overdue
<1>4. client'.chunk = client.chunk => Chunk' = Chunk
  BY DEF Chunk, FrameOp
<1> QED BY <1>2, <1>3, <1>4

\* What a client that waits for the reply to what it has sent keeps.
LEMMA SentKeeps ==
  ASSUME FlashInv, MishapInv, Send, Tame', client.step \notin {"reboot", "filler"}
  PROVE  /\ Calm /\ TypeInv /\ Where /\ Within /\ client.stage = "send"
         /\ client.phase \notin {"guard", "over", "reboot"} /\ client.step \notin {"none", "drain"}
         /\ client'.phase = client.phase /\ client'.step = client.step
         /\ client'.stage = FirstRead /\ client'.chunk = client.chunk
         /\ client'.attempt = client.attempt
         /\ board' = board /\ setup' = setup /\ faults' = faults
         /\ ~closed' /\ result' = "none" /\ History'
<1>1. TypeInv /\ Where /\ Within /\ Ended
  BY DEF FlashInv
<1>2. /\ client.stage = "send" /\ ~closed /\ ClientType /\ StaysButTo
      /\ Moves([client EXCEPT !.stage = FirstRead])
  BY <1>1, SendIs
<1>3. faults' = faults
  BY DEF Send
<1>4. Calm
  BY <1>3, SameFaults DEF MishapInv
<1>5. /\ client.phase \notin {"guard", "over"} /\ client.step \notin {"none", "drain"}
      /\ client.phase # "reboot"
  BY <1>1, <1>2, SendingSteps DEF Where
<1>6. FirstRead \in Stages
  BY DEF FirstRead, Stages, ReadStages
<1>7. /\ result' = result /\ client'.phase = client.phase /\ client'.step = client.step
      /\ client'.stage = FirstRead /\ client'.chunk = client.chunk
  BY <1>2, <1>6, StageMoves
<1>8. client'.attempt = client.attempt
  BY <1>2, StageKeeps
<1>9. History'
  BY <1>3, <1>4, <1>7, <1>8, HistoryOn DEF Calm
<1>10. result' = "none" /\ ~closed' /\ board' = board /\ setup' = setup
  BY <1>1, <1>2, <1>5, <1>7 DEF Ended, StaysButTo
<1> QED BY <1>1, <1>2, <1>3, <1>4, <1>5, <1>7, <1>8, <1>9, <1>10

\* A question that is asked before flash().
LEMMA SendEarlyCalm ==
  ASSUME FlashInv, MishapInv, Send, Tame', client.phase \in Early
  PROVE  Calm'
<1>1. client.step \notin {"reboot", "filler"}
  BY SendIs DEF FlashInv, Where, Early
<1>2. /\ Calm /\ TypeInv /\ Where /\ Within /\ client.stage = "send"
      /\ client.phase \notin {"guard", "over", "reboot"}
      /\ client'.phase = client.phase /\ client'.step = client.step
      /\ client'.stage = FirstRead /\ board' = board
      /\ ~closed' /\ result' = "none" /\ History'
  BY <1>1, SentKeeps
<1>3. Known
  BY <1>2 DEF Calm
<1>4. client.phase # "erase"
  BY DEF Early
<1>5. CASE client.phase = "identify" /\ client.step = "sync"
  <2>1. Clear /\ client'.stage = "head" /\ Opcode = "GET_SYNC"
    BY <1>2, <1>3, <1>4, <1>5, FirstReadIs, OpcodeIs DEF Known, Acking
  <2>2. Going("GET_SYNC")'
    BY <1>2, <2>1, SendsOne DEF Going
  <2>3. Known'
    BY <1>2, <1>5, <2>1, <2>2 DEF Known, Acking
  <2> QED BY <1>2, <2>3, CalmEarly
<1>6. CASE client.phase = "identify" /\ client.step = "info"
  <2>1. Clear /\ client'.stage = "field" /\ Opcode = "GET_DEVICE"
    BY <1>2, <1>3, <1>4, <1>6, FirstReadIs, OpcodeIs DEF Known
  <2>2. Going("GET_DEVICE")'
    BY <1>2, <2>1, SendsOne DEF Going
  <2>3. Known'
    BY <1>2, <1>6, <2>1, <2>2 DEF Known
  <2> QED BY <1>2, <2>3, CalmEarly
<1>7. CASE ~(client.phase = "identify" /\ client.step \in {"sync", "info"})
  BY <1>2, <1>3, <1>7, CalmEarly DEF Known
<1> QED BY <1>5, <1>6, <1>7

\* An erase that is sent.
LEMMA SendEraseCalm ==
  ASSUME FlashInv, MishapInv, Send, Tame', client.phase \in {"xerase", "erase"}
  PROVE  Calm'
<1>1. client.step = "erase"
  BY DEF FlashInv, Where
<1>2. /\ Calm /\ TypeInv /\ Where /\ Within /\ client.stage = "send"
      /\ client'.phase = client.phase /\ client'.stage = FirstRead /\ board' = board
      /\ ~closed' /\ result' = "none" /\ History'
  BY <1>1, SentKeeps
<1>3. Clear /\ board.armed
  BY <1>2 DEF Calm, ExtErasing, ChipErasing, Known
<1>4. Pipe' = <<>> /\ Len(to') = 1 /\ to'[1].op = Opcode
  BY <1>2, <1>3, SendsOne
<1>5. client.phase = "xerase" => ExtErasing'
  BY <1>1, <1>2, <1>4, FirstReadIs, OpcodeIs DEF ExtErasing, Going
<1>6. client.phase = "erase" => ChipErasing'
  BY <1>1, <1>2, <1>4, FirstReadIs, OpcodeIs DEF ChipErasing, Going
<1> QED BY <1>2, <1>3, <1>5, <1>6, CalmLate

\* A frame, the command that finds the bootloader again, the filler.
LEMMA SendWriteCalm ==
  ASSUME FlashInv, MishapInv, Send, Tame', client.phase \in {"xprogram", "program"}
  PROVE  Calm'
<1>1. client.step \in {"frame", "resync", "resend", "filler"} /\ client.stage = "send"
      /\ TypeInv /\ Where /\ Within /\ ClientType
  BY SendIs DEF FlashInv, Where
<1>2. CASE client.step # "filler"
  <2>1. /\ Calm /\ client'.phase = client.phase /\ client'.step = client.step
        /\ client'.stage = FirstRead /\ client'.chunk = client.chunk
        /\ client'.attempt = client.attempt /\ board' = board /\ faults' = faults
        /\ ~closed' /\ result' = "none" /\ History'
    BY <1>1, <1>2, SentKeeps
  <2>2. Clear /\ board.mode = "idle" /\ Holding(client.chunk - 1) /\ board.armed
    BY <1>1, <1>2, <2>1 DEF Calm, Writing, Known
  <2>3. /\ Pipe' = <<>> /\ Len(to') = 1 /\ to'[1].op = Opcode
        /\ to' = <<[op |-> Opcode, data |-> Data]>>
    BY <1>1, <2>2, SendsOne
  <2>4. Holding(client.chunk - 1)' /\ Chunk' = Chunk /\ client'.stage = "head"
    BY <1>1, <2>1, <2>2, HoldingSame, FirstReadIs
  <2>5. CASE client.step = "resync"
    <3>1. Acking("GET_SYNC")'
      BY <2>1, <2>3, <2>4, <2>5, OpcodeIs DEF Acking, Going
    <3>2. Writing'
      BY <2>1, <2>2, <2>4, <2>5, <3>1 DEF Writing
    <3> QED BY <2>1, <2>2, <3>2, CalmLate
  <2>6. CASE client.step \in {"frame", "resend"}
    <3>1. Data = client.chunk /\ Opcode = FrameOp
      BY <1>1, <2>6, DataChunk, OpcodeIs DEF FrameOp
    <3>2. to' = <<Chunk>>'
      BY <2>3, <2>4, <3>1 DEF Chunk
    <3>3. Writing'
      BY <2>1, <2>2, <2>3, <2>4, <2>6, <3>2 DEF Writing
    <3> QED BY <2>1, <2>2, <3>3, CalmLate
  <2> QED BY <1>1, <1>2, <2>5, <2>6
<1>3. CASE client.step = "filler"
  <2>1. /\ faults' = faults /\ Moves(ToStep(client, "drain")) /\ StaysButTo /\ ~closed
        /\ to' \in Seq(Writes) /\ Len(to') = Len(to) + 1 /\ to'[Len(to) + 1].op = "FILLER"
        /\ \A i \in 1..Len(to) : to'[i] = to[i]
    BY <1>1, <1>3, SendIs, OpcodeIs DEF Send
  <2>2. Calm
    BY <2>1, SameFaults DEF MishapInv
  <2>3. "drain" \in Steps
    BY DEF Steps
  <2>4. /\ client'.phase = client.phase /\ client'.step = "drain" /\ client'.stage = "drain"
        /\ client'.chunk = client.chunk /\ client'.attempt = client.attempt
        /\ result' = result
    BY <1>1, <2>1, <2>3, StepMoves, StepKeeps
  <2>5. result' = "none" /\ ~closed' /\ board' = board
    BY <2>1, <2>4 DEF FlashInv, Ended, StaysButTo
  <2>6. History /\ board.armed /\ Writing
    BY <2>2 DEF Calm, Known
  <2>7. History'
    BY <1>3, <2>1, <2>4, <2>6, HistoryOn DEF History
  <2>8. /\ \A n : Holding(n)' <=> Holding(n)
        /\ (Overdue' <=> Overdue) /\ Chunk' = Chunk
    BY <2>1, <2>4, <2>5, HoldingSame
  <2>9. \/ to = <<>> /\ Holding(client.chunk - 1)
        \/ to = <<Chunk>> /\ Overdue
    BY <1>3, <2>6 DEF Writing
  <2>10. CASE to = <<>> /\ Holding(client.chunk - 1)
    <3>1. Len(to') = 1 /\ to'[1].op = "FILLER"
      BY <2>1, <2>10
    <3>2. Writing'
      BY <2>4, <2>8, <2>10, <3>1 DEF Writing
    <3> QED BY <2>4, <2>5, <2>6, <2>7, <3>2, CalmLate
  <2>11. CASE to = <<Chunk>> /\ Overdue
    <3>1. Len(to') = 2 /\ to'[1] = Chunk' /\ to'[2].op = "FILLER"
      BY <2>1, <2>8, <2>11
    <3>2. Writing'
      BY <2>4, <2>8, <2>11, <3>1 DEF Writing
    <3> QED BY <2>4, <2>5, <2>6, <2>7, <3>2, CalmLate
  <2> QED BY <2>9, <2>10, <2>11
<1> QED BY <1>2, <1>3

\* The question of a verify.
LEMMA SendCheckCalm ==
  ASSUME FlashInv, MishapInv, Send, Tame', client.phase \in {"xverify", "verify"}
  PROVE  Calm'
<1>1. client.step \in {"crc", "rewind", "read"}
  BY DEF FlashInv, Where
<1>2. /\ Calm /\ TypeInv /\ Where /\ Within /\ client.stage = "send"
      /\ client'.phase = client.phase /\ client'.step = client.step
      /\ client'.stage = FirstRead /\ client'.chunk = client.chunk
      /\ client'.attempt = client.attempt
      /\ board' = board /\ setup' = setup /\ faults' = faults
      /\ ~closed' /\ result' = "none" /\ History'
  BY <1>1, SentKeeps
<1>3. Checking /\ Clear /\ board.armed
  BY <1>2 DEF Calm, Checking, Known
<1>4. Pipe' = <<>> /\ Len(to') = 1 /\ to'[1].op = Opcode /\ to' # <<>>
  <2>1. Pipe' = <<>> /\ Len(to') = 1 /\ to'[1].op = Opcode
    BY <1>2, <1>3, SendsOne
  <2>2. Len(<<>>) = 0
    OBVIOUS
  <2> QED BY <2>1, <2>2
<1>5. (Dirty' <=> Dirty) /\ Asked' = Asked /\ ExtImage' = ExtImage
  BY <1>2, SameFaults DEF Asked, ExtImage
<1>6. Opcode = Asked
  BY <1>1, OpcodeIs DEF Asked
<1>7. /\ client.step = "rewind" => client'.stage = "head"
      /\ client.step \in {"crc", "read"} => client'.stage = "field"
  BY <1>2, FirstReadIs
<1>8. Going(Asked)'
  BY <1>4, <1>5, <1>6 DEF Going
<1>9. client.step = "rewind" => Acking("CHIP_VERIFY")'
  BY <1>4, <1>7, OpcodeIs DEF Acking, Going
<1>10. Checking'
  <2>1. /\ board'.mode = "idle"
        /\ client'.phase = "xverify" => board'.ext = ExtImage'
        /\ client'.phase = "verify" => Dirty' \/ board'.flash = Image
        /\ client'.step = "crc" /\ client'.phase = "verify" => setup'.rev > 2
    BY <1>2, <1>3, <1>5 DEF Checking
  <2>2. client'.step = "rewind" => client'.chunk = 1
    BY <1>2, <1>3 DEF Checking
  <2>3. client'.step = "read" =>
          client'.chunk <= Chunks /\ board'.cursor = client'.chunk - 1
    BY <1>2, <1>3 DEF Checking
  <2> QED BY <1>1, <1>2, <1>4, <1>7, <1>8, <1>9, <2>1, <2>2, <2>3 DEF Checking
<1> QED BY <1>2, <1>3, <1>10, CalmLate

\* The end of the session.
LEMMA SendRebootCalm ==
  ASSUME FlashInv, MishapInv, Send, Tame', client.phase = "reboot"
  PROVE  Calm'
<1>1. TypeInv /\ Where /\ Within
  BY DEF FlashInv
<1>2. client.step = "reboot"
  BY <1>1 DEF Where
<1>3. Ends("flashed") /\ ~closed /\ ClientType /\ StaysButTo /\ faults' = faults
  BY <1>1, <1>2, SendIs DEF Send
<1>4. client'.phase = "over" /\ result' = "flashed" /\ client'.attempt = client.attempt
  BY <1>3 DEF Ends, ClientType
<1>5. Calm
  BY <1>3, SameFaults DEF MishapInv
<1>6. History'
  BY <1>3, <1>4, <1>5, HistoryNext DEF Calm, Early
<1>7. ~closed'
  BY <1>3 DEF StaysButTo
<1> QED BY <1>4, <1>6, <1>7, CalmOver

\* A write, in each phase.
LEMMA SendCalm ==
  ASSUME FlashInv, MishapInv, Send, Tame'
  PROVE  Calm'
<1>1. client.phase \in Phases \ {"over"}
  BY SendIs, SendingSteps DEF FlashInv, ClientType
<1> QED BY <1>1, SendEarlyCalm, SendEraseCalm, SendWriteCalm, SendCheckCalm, SendRebootCalm
        DEF Phases, Early

\* A session is calm before a mishap that it survives.
LEMMA CalmBefore ==
  ASSUME TypeInv, MishapInv, Tame', faults' = faults \/ (\E k : Fault(k))
  PROVE  Calm /\ (faults' # faults => faults = <<>>)
<1>1. CASE faults' = faults
  BY <1>1, SameFaults DEF MishapInv
<1>2. CASE \E k : Fault(k)
  BY <1>2, FaultIs DEF MishapInv, Tame
<1> QED BY <1>1, <1>2

\* The mishap goes into the history of the phase it happens in.
LEMMA HistoryStruck ==
  ASSUME TypeInv, MishapInv, Calm, Tame', NEW k, Fault(k),
         client'.phase = client.phase, client'.attempt = client.attempt
  PROVE  /\ faults = <<>> /\ ~Dirty /\ History' /\ Spent(client.phase)'
         /\ client.phase \in {"xprogram", "program"} /\ client.attempt = 1
         /\ client.phase = "xprogram" => k \in {"refused", "cut"} /\ ~Dirty'
         /\ client.phase = "program" =>
              /\ Dirty' <=> k \in {"corrupt", "ack lost", "late"}
              /\ Twice' = IF k \in {"ack lost", "late"} THEN 1 ELSE 0
<1>1. /\ faults = <<>> /\ faults' # <<>> /\ faults'[1].kind = k /\ faults'[1].phase = client.phase
      /\ client.phase \in {"xprogram", "program"}
      /\ client.phase = "xprogram" => k \in {"refused", "cut"}
  BY FaultIs, SurvivableIs DEF MishapInv
<1>2. History /\ ~Dirty /\ (\A p : ~Spent(p))
  BY <1>1, Spotless DEF Calm
<1>3. client.attempt = 1
  BY <1>2 DEF TypeInv, History
<1>4. /\ Spent(client.phase)' /\ (Spent("program")' <=> client.phase = "program")
      /\ \A K : Of(K)' <=> k \in K
  BY <1>1 DEF Spent, Of
<1>5. client.phase \notin Early \cup {"xerase", "over", "guard"}
  BY <1>1 DEF Early
<1>6. History'
  BY <1>1, <1>2, <1>3, <1>4, <1>5 DEF History
<1>7. /\ Dirty' <=> (client.phase = "program" /\ k \in {"corrupt", "ack lost", "late"})
      /\ Twice' = IF k \in {"ack lost", "late"} THEN 1 ELSE 0
  BY <1>3, <1>4 DEF Dirty, Twice
<1> QED BY <1>1, <1>2, <1>3, <1>4, <1>6, <1>7

\* The bootloader meets no mishap but with a frame or an erase.
LEMMA HandleFaults ==
  ASSUME Handle
  PROVE  faults' = faults \/ (\E k : Fault(k))
<1>1. CASE \E w : Payload(w)
  BY <1>1 DEF Payload, Says, SaysNothing
<1>2. CASE \E w : Query(w)
  BY <1>2 DEF Query, Says, SaysNothing
<1>3. CASE \E w : Chip(w)
  BY <1>3 DEF Chip, Says
<1>4. CASE \E w : Frame(w)
  BY <1>4 DEF Frame, Says
<1> QED BY <1>1, <1>2, <1>3, <1>4 DEF Handle

\* What the bootloader does leaves the client where it is.
LEMMA HandledKeeps ==
  ASSUME FlashInv, MishapInv, Handle, Tame'
  PROVE  /\ Calm /\ TypeInv /\ to # <<>> /\ client' = client /\ setup' = setup
         /\ ~closed' /\ result' = result /\ result # "failed"
         /\ client.phase # "over" => result' = "none"
         /\ faults' = faults => History'
         /\ faults' # faults => faults = <<>>
<1>1. TypeInv /\ Ended
  BY DEF FlashInv
<1>2. to # <<>> /\ UNCHANGED <<client, result, closed, setup>>
  BY <1>1, HandleTakes
<1>3. Calm /\ (faults' # faults => faults = <<>>)
  BY <1>1, CalmBefore, HandleFaults
<1>4. ~closed /\ result # "failed" /\ History
  BY <1>3 DEF Calm
<1>5. faults' = faults => History'
  <2> SUFFICES ASSUME faults' = faults PROVE History'
    OBVIOUS
  <2>1. client'.phase = client.phase /\ client'.attempt = client.attempt /\ client'.step = client.step
    BY <1>2
  <2> QED BY <1>4, <2>1, HistoryOn
<1>6. client.phase # "over" => result' = "none"
  BY <1>1, <1>2 DEF Ended
<1> QED BY <1>1, <1>2, <1>3, <1>4, <1>5, <1>6

\* The questions asked before flash().
LEMMA AskingAnswer ==
  ASSUME TypeInv, Handle, board.mode = "idle", Head(to).op \in Asking
  PROVE  faults' = faults /\ (board.armed => board'.armed)
<1>1. Query(Head(to)) \/ Chip(Head(to))
  BY HandleTakes DEF IsFrame, Asking
<1>2. board \in [mode : {"idle", "payload"}, armed : BOOLEAN, flash : Seq(Nat),
                 ext : Seq(Nat), cursor : Nat]
  BY DEF TypeInv
<1>3. CASE Query(Head(to))
  BY <1>2, <1>3 DEF Query, Says, SaysNothing, Asking
<1>4. CASE Chip(Head(to))
  BY <1>2, <1>4 DEF Chip, Says, Asking
<1> QED BY <1>1, <1>3, <1>4

\* What is asked before flash() is answered.
LEMMA HandleEarlyCalm ==
  ASSUME FlashInv, MishapInv, Handle, Tame', client.phase \in Early
  PROVE  Calm'
<1>1. /\ Calm /\ TypeInv /\ to # <<>> /\ client' = client /\ ~closed'
      /\ client.phase # "over" => result' = "none"
      /\ faults' = faults => History'
  BY HandledKeeps
<1>2. client.phase # "over" /\ client'.phase \in Early
  BY <1>1 DEF Early
<1>3. board.mode = "idle" /\ Head(to).op \in Asking
  BY <1>1, LinkType DEF FlashInv, Untouched, Sends
<1>4. History' /\ (board.armed => board'.armed)
  BY <1>1, <1>3, AskingAnswer
<1>5. Known /\ ~Clear /\ (\A s : ~Came(s))
  BY <1>1 DEF Calm, Clear, Came
<1>6. \A op : Going(op) => Head(to).op = op /\ Len(to) = 1 /\ Pipe = <<>>
  BY <1>1, LinkType DEF Going
<1>7. CASE client.phase = "identify" /\ client.step = "sync"
  <2>1. client.stage = "head" /\ Going("GET_SYNC")
    BY <1>5, <1>7 DEF FlashInv, Where, Known, Acking, Exchange
  <2>2. Takes1(Ack("OK"))
    BY <1>1, <1>3, <1>6, <2>1, QueryAnswer
  <2>3. Came(Ack("OK"))'
    BY <1>1, <1>6, <2>1, <2>2, HandlesOne, Acks DEF Came
  <2>4. Known'
    BY <1>1, <1>7, <2>1, <2>3 DEF Known, Acking
  <2> QED BY <1>1, <1>2, <1>4, <2>4, CalmEarly
<1>8. CASE client.phase = "identify" /\ client.step = "info" /\ ~board.armed
  <2>1. client.stage = "field" /\ Going("GET_DEVICE")
    BY <1>5, <1>8 DEF FlashInv, Where, Known, Fetch, Exchange
  <2>2. board' = [board EXCEPT !.armed = TRUE] /\ \E reply \in Seq(Bytes) : Takes1(reply)
    BY <1>1, <1>3, <1>6, <2>1, QueryAnswer
  <2>3. board'.armed
    BY <1>1, <2>2 DEF TypeInv
  <2>4. to' = <<>>
    BY <1>1, <1>6, <2>1, <2>2, HandlesOne
  <2>5. Known'
    BY <1>1, <1>8, <2>1, <2>3, <2>4 DEF Known
  <2> QED BY <1>1, <1>2, <1>4, <2>5, CalmEarly
<1>9. CASE client.phase = "identify" /\ client.step = "info" /\ board.armed
  <2>1. client.stage = "field" => to' = <<>>
    <3> SUFFICES ASSUME client.stage = "field" PROVE to' = <<>>
      OBVIOUS
    <3>1. Going("GET_DEVICE")
      BY <1>1, <1>5, <1>9 DEF Known
    <3>2. \E reply \in Seq(Bytes) : Takes1(reply)
      BY <1>1, <1>3, <1>6, <3>1, QueryAnswer
    <3> QED BY <1>1, <1>6, <3>1, <3>2, HandlesOne
  <2>2. client.stage # "send"
    BY <1>5, <1>9 DEF Known
  <2>3. Known'
    BY <1>1, <1>4, <1>9, <2>1, <2>2 DEF Known
  <2> QED BY <1>1, <1>2, <1>4, <2>3, CalmEarly
<1>10. CASE client.phase = "guard"
  BY <1>5, <1>10 DEF Known
<1>11. CASE client.phase # "guard" /\ ~(client.phase = "identify" /\ client.step \in {"sync", "info"})
  BY <1>1, <1>2, <1>4, <1>5, <1>11, CalmEarly DEF Known
<1> QED BY <1>7, <1>8, <1>9, <1>10, <1>11

\* An erase is carried out, and answered byte by byte.
LEMMA HandleEraseCalm ==
  ASSUME FlashInv, MishapInv, Handle, Tame', client.phase \in {"xerase", "erase"}
  PROVE  Calm'
<1>1. /\ Calm /\ TypeInv /\ to # <<>> /\ client' = client /\ ~closed' /\ result' = "none"
      /\ faults' = faults => History'
  BY HandledKeeps
<1>2. board.mode = "idle" /\ board.armed /\ (\A s : ~Came(s)) /\ ~Clear
  BY <1>1 DEF FlashInv, ExtErase, Erase, Calm, Known, Came, Clear
<1>3. \A op : Going(op) => Head(to).op = op /\ Len(to) = 1 /\ Pipe = <<>>
  BY <1>1, LinkType DEF Going
<1>4. faults \in Seq(Mishaps)
  BY DEF MishapInv
<1>5. board \in [mode : {"idle", "payload"}, armed : BOOLEAN, flash : Seq(Nat),
                 ext : Seq(Nat), cursor : Nat]
  BY <1>1 DEF TypeInv
<1>6. CASE client.phase = "xerase"
  <2>1. client.stage = "head" /\ Going("EXTF_ERASE")
    <3>1. client.stage \in Exchange \cup {"percent", "poll", "poll status"}
      BY <1>6 DEF FlashInv, Where
    <3>2. ExtErasing
      BY <1>1 DEF Calm
    <3> QED BY <1>2, <1>6, <3>1, <3>2 DEF ExtErasing, Exchange
  <2>2. faults' = faults /\ Takes1(EraseReply) /\ board' = [board EXCEPT !.ext = <<>>]
    BY <1>1, <1>2, <1>3, <1>4, <2>1, EraseAnswer
  <2>3. to' = <<>> /\ Pipe' = EraseReply
    BY <1>1, <1>3, <2>1, <2>2, HandlesOne, ReplyBytes
  <2>4. board'.ext = <<>> /\ board'.armed
    BY <1>2, <1>5, <2>2
  <2>5. ExtErasing'
    BY <1>1, <2>1, <2>3, <2>4 DEF ExtErasing, Came
  <2> QED BY <1>1, <1>6, <2>2, <2>4, <2>5, CalmLate
<1>7. CASE client.phase = "erase"
  <2>1. client.stage = "poll" /\ Going("CHIP_ERASE")
    BY <1>1, <1>2, <1>7 DEF FlashInv, Where, Calm, ChipErasing
  <2>2. faults' = faults /\ Takes1(Ack("OK")) /\ board' = [board EXCEPT !.flash = <<>>]
    BY <1>1, <1>2, <1>3, <1>4, <2>1, EraseAnswer
  <2>3. to' = <<>> /\ Pipe' = Ack("OK")
    BY <1>1, <1>3, <2>1, <2>2, HandlesOne, Acks
  <2>4. board'.flash = <<>> /\ board'.armed
    BY <1>2, <1>5, <2>2
  <2>5. ChipErasing'
    BY <1>1, <2>1, <2>3, <2>4 DEF ChipErasing, Came
  <2> QED BY <1>1, <1>7, <2>2, <2>4, <2>5, CalmLate
<1> QED BY <1>6, <1>7

\* A chunk that is written is the next of the memory it is written to.
LEMMA WrittenIs ==
  ASSUME TypeInv, client.phase \in {"xprogram", "program"}, NEW c, board' = Written(Chunk, c)
  PROVE  /\ board'.mode = board.mode /\ board'.armed = board.armed
         /\ client.phase = "xprogram" => board'.ext = Append(board.ext, c)
         /\ client.phase = "program" => board'.flash = Append(board.flash, c)
<1>1. board \in [mode : {"idle", "payload"}, armed : BOOLEAN, flash : Seq(Nat),
                 ext : Seq(Nat), cursor : Nat]
  BY DEF TypeInv
<1>2. CASE client.phase = "xprogram"
  BY <1>1, <1>2 DEF Chunk, FrameOp, Written
<1>3. CASE client.phase = "program"
  BY <1>1, <1>3 DEF Chunk, FrameOp, Written
<1> QED BY <1>2, <1>3

\* One chunk more, whatever it is.
LEMMA GrowsByOne ==
  ASSUME NEW s \in Seq(Nat), NEW c
  PROVE  c \in Nat => Len(Append(s, c)) = Len(s) + 1
BY AppendProperties

\* The numbers of chunks.
LEMMA Sizes ==
  ASSUME TypeInv, Within, client.phase \in {"xprogram", "program"}
  PROVE  /\ client.chunk \in Nat \ {0} /\ client.chunk - 1 \in Nat /\ client.chunk = (client.chunk - 1) + 1
         /\ Len(board.flash) \in Nat /\ Chunks \in Nat /\ FlashChunks \in Nat
         /\ Damaged \in Nat /\ board.flash \in Seq(Nat) /\ board.ext \in Seq(Nat)
         /\ client.phase = "program" => client.chunk <= Chunks
<1>1. client.chunk \in Nat \ {0} /\ board.flash \in Seq(Nat) /\ board.ext \in Seq(Nat)
  BY DEF TypeInv
<1>2. Len(board.flash) \in Nat /\ Chunks \in Nat /\ FlashChunks \in Nat /\ ExtChunks \in Nat
  BY <1>1, SizesAssumption, LenProperties
<1>3. Damaged \in Nat
  BY <1>2 DEF Damaged
<1>4. client.chunk - 1 \in Nat /\ client.chunk = (client.chunk - 1) + 1
  BY <1>1
<1> QED BY <1>1, <1>2, <1>3, <1>4 DEF Within

\* A chunk that is to be written has room: the image fits, and one that is
\* written twice fits too where the session survives that.
LEMMA Room ==
  ASSUME FlashInv, Calm, Tame, client.phase = "program",
         Holding(client.chunk - 1) \/ Overdue
  PROVE  Len(board.flash) < FlashChunks
<1>1. /\ client.chunk \in Nat \ {0} /\ client.chunk - 1 \in Nat /\ Len(board.flash) \in Nat
      /\ Chunks \in Nat /\ FlashChunks \in Nat /\ client.chunk <= Chunks
  BY Sizes DEF FlashInv
<1>2. Chunks <= FlashChunks
  BY DEF Calm, History
<1>3. CASE Overdue
  BY <1>1, <1>2, <1>3 DEF Overdue
<1>4. CASE Holding(client.chunk - 1) /\ ~Dirty
  <2>1. board.flash = Numbered(client.chunk - 1)
    BY <1>4 DEF Holding
  <2>2. Len(board.flash) = client.chunk - 1
    BY <1>1, <2>1, NumberedNext
  <2> QED BY <1>1, <1>2, <2>2
<1>5. CASE Holding(client.chunk - 1) /\ Dirty
  <2>1. Len(board.flash) <= client.chunk - 1 + Twice
    BY <1>5 DEF Holding
  <2>2. faults # <<>> /\ Survivable(faults[1])
    BY <1>5 DEF Dirty, Spent, Tame
  <2>3. Twice = 0 \/ (Twice = 1 /\ Chunks < FlashChunks)
    BY <2>2, SurvivableIs DEF Twice, Of
  <2> QED BY <1>1, <1>2, <2>1, <2>3
<1> QED BY <1>3, <1>4, <1>5

\* A frame on its way is written, acknowledged or not, refused, or cut off.
LEMMA ChunkAnswer ==
  ASSUME FlashInv, MishapInv, Handle, Tame', client.phase \in {"xprogram", "program"},
         to # <<>>, Head(to) = Chunk, board.mode = "idle", Holding(client.chunk - 1) \/ Overdue
  PROVE  \/ faults' = faults /\ Takes1(Ack("OK")) /\ board' = Written(Chunk, client.chunk)
         \/ Fault("refused") /\ Takes1(Ack("INVALID")) /\ board' = board
         \/ Fault("cut") /\ Takes1(<<>>) /\ board' = [board EXCEPT !.mode = "payload"]
         \/ Fault("corrupt") /\ Takes1(Ack("OK")) /\ board' = Written(Chunk, Damaged)
         \/ Fault("ack lost") /\ Takes1(<<>>) /\ board' = Written(Chunk, client.chunk)
<1>1. TypeInv /\ faults \in Seq(Mishaps) /\ Calm
  BY HandledKeeps DEF MishapInv
<1>2. Tame
  BY SameFaults, HandledKeeps DEF Tame
<1>3. /\ Head(to).op \in Frames /\ Head(to).data = client.chunk
      /\ Head(to).op = "PROG_MULTI" => client.phase = "program"
  BY DEF Chunk, FrameOp, Frames
<1>4. Head(to).op = "PROG_MULTI" => Len(board.flash) < FlashChunks
  BY <1>1, <1>2, <1>3, Room
<1> QED BY <1>1, <1>3, <1>4, FrameAnswer

\* A frame that waits for its answer.
LEMMA HandleFrameCalm ==
  ASSUME FlashInv, MishapInv, Handle, Tame', client.phase \in {"xprogram", "program"},
         client.step \in {"frame", "resend"}
  PROVE  Calm'
<1>1. /\ Calm /\ TypeInv /\ to # <<>> /\ client' = client /\ ~closed' /\ result' = "none"
      /\ faults' = faults => History'
      /\ faults' # faults => faults = <<>>
  BY HandledKeeps
<1>2. Writing /\ board.armed /\ History /\ Within
  BY <1>1 DEF Calm, Known, FlashInv
<1>3. client.stage \in Exchange
  BY DEF FlashInv, Where
<1>4. client.stage = "head" /\ to = <<Chunk>> /\ Pipe = <<>> /\ board.mode = "idle"
      /\ Holding(client.chunk - 1)
  BY <1>1, <1>2, <1>3 DEF Writing, Exchange, Clear, Came
<1>5. Len(to) = 1 /\ Head(to) = Chunk
  BY <1>4
<1> DEFINE n == client.chunk
<1>6. /\ n \in Nat \ {0} /\ n - 1 \in Nat /\ n = (n - 1) + 1
      /\ Len(board.flash) \in Nat /\ Damaged \in Nat /\ board.flash \in Seq(Nat)
      /\ board.ext \in Seq(Nat)
  BY <1>1, <1>2, Sizes
<1>7. /\ Takes1(Ack("OK")) => Came(Ack("OK"))'
      /\ Takes1(Ack("INVALID")) => Came(Ack("INVALID"))'
      /\ Takes1(<<>>) => Clear'
  BY <1>1, <1>4, <1>5, HandlesOne, Acks DEF Came, Clear
<1>8. /\ client'.stage = "head" /\ client'.step = client.step /\ client'.phase = client.phase
      /\ client'.chunk = n /\ client'.attempt = client.attempt
  BY <1>1, <1>4
<1>9. CASE faults' = faults /\ Takes1(Ack("OK")) /\ board' = Written(Chunk, n)
  <2>1. /\ board'.mode = "idle" /\ board'.armed
        /\ client.phase = "xprogram" => board'.ext = Append(board.ext, n)
        /\ client.phase = "program" => board'.flash = Append(board.flash, n)
    BY <1>1, <1>2, <1>4, <1>9, WrittenIs
  <2>2. (Dirty' <=> Dirty) /\ Twice' = Twice
    BY <1>8, <1>9, SameFaults
  <2>3. Holding(n)'
    <3>1. Append(Numbered(n - 1), n) = Numbered(n)
      BY <1>6, NumberedNext
    <3>2. CASE client.phase = "xprogram"
      BY <1>4, <1>8, <2>1, <3>1, <3>2 DEF Holding
    <3>3. CASE client.phase = "program" /\ ~Dirty
      BY <1>4, <1>8, <2>1, <2>2, <3>1, <3>3 DEF Holding
    <3>4. CASE client.phase = "program" /\ Dirty
      <4>1. Len(board.flash) <= n - 1 + Twice
        BY <1>4, <3>4 DEF Holding
      <4>2. Len(board'.flash) = Len(board.flash) + 1
        BY <1>6, <2>1, <3>4, GrowsByOne
      <4>3. Twice \in {0, 1}
        BY DEF Twice
      <4>4. Len(board'.flash) <= n + Twice
        BY <1>6, <4>1, <4>2, <4>3
      <4> QED BY <1>8, <2>2, <3>4, <4>4 DEF Holding
    <3> QED BY <3>2, <3>3, <3>4
  <2>4. Writing'
    BY <1>4, <1>7, <1>8, <1>9, <2>1, <2>3 DEF Writing
  <2> QED BY <1>1, <1>8, <1>9, <2>1, <2>4, CalmLate
<1>10. ASSUME NEW k, Fault(k)
       PROVE  /\ client.step = "frame" /\ History' /\ Spent(client.phase)' /\ ~Dirty
              /\ client.phase = "xprogram" => k \in {"refused", "cut"} /\ ~Dirty'
              /\ client.phase = "program" =>
                   /\ Dirty' <=> k \in {"corrupt", "ack lost", "late"}
                   /\ Twice' = IF k \in {"ack lost", "late"} THEN 1 ELSE 0
  BY <1>1, <1>2, <1>8, <1>10, HistoryStruck, Spotless DEF History
<1>11. CASE Fault("refused") /\ Takes1(Ack("INVALID")) /\ board' = board
  <2>9. Takes1(Ack("INVALID")) /\ board' = board
    BY <1>11
  <2>10. Fault("refused")
    BY <1>11
  <2>0. /\ client.step = "frame" /\ History' /\ Spent(client.phase)' /\ ~Dirty
        /\ client.phase = "xprogram" => "refused" \in {"refused", "cut"} /\ ~Dirty'
        /\ client.phase = "program" =>
             /\ Dirty' <=> "refused" \in {"corrupt", "ack lost", "late"}
             /\ Twice' = IF "refused" \in {"ack lost", "late"} THEN 1 ELSE 0
    BY <1>10, <2>10
  <2>1. /\ client.step = "frame" /\ History' /\ Spent(client.phase)' /\ ~Dirty /\ ~Dirty'
    BY <2>0
  <2>2. Holding(n - 1)'
    BY <1>4, <1>8, <2>9, <2>1 DEF Holding
  <2>3. Writing'
    BY <1>2, <1>4, <1>7, <1>8, <2>9, <2>1, <2>2 DEF Writing
  <2> QED BY <1>1, <1>2, <1>8, <2>9, <2>1, <2>3, CalmLate
<1>12. CASE Fault("cut") /\ Takes1(<<>>) /\ board' = [board EXCEPT !.mode = "payload"]
  <2>9. Takes1(<<>>) /\ board' = [board EXCEPT !.mode = "payload"]
    BY <1>12
  <2>10. Fault("cut")
    BY <1>12
  <2>0. /\ client.step = "frame" /\ History' /\ Spent(client.phase)' /\ ~Dirty
        /\ client.phase = "xprogram" => "cut" \in {"refused", "cut"} /\ ~Dirty'
        /\ client.phase = "program" =>
             /\ Dirty' <=> "cut" \in {"corrupt", "ack lost", "late"}
             /\ Twice' = IF "cut" \in {"ack lost", "late"} THEN 1 ELSE 0
    BY <1>10, <2>10
  <2>1. /\ client.step = "frame" /\ History' /\ Spent(client.phase)' /\ ~Dirty /\ ~Dirty'
    BY <2>0
  <2>2. board'.ext = board.ext /\ board'.flash = board.flash /\ board'.armed = board.armed
    BY <1>1, <1>12 DEF TypeInv
  <2>3. Holding(n - 1)'
    BY <1>4, <1>8, <2>1, <2>2 DEF Holding
  <2>4. Writing'
    BY <1>7, <1>8, <2>9, <2>1, <2>3 DEF Writing
  <2> QED BY <1>1, <1>2, <1>8, <2>1, <2>2, <2>4, CalmLate
<1>13. CASE Fault("corrupt") /\ Takes1(Ack("OK")) /\ board' = Written(Chunk, Damaged)
  <2>9. Takes1(Ack("OK")) /\ board' = Written(Chunk, Damaged)
    BY <1>13
  <2>10. Fault("corrupt")
    BY <1>13
  <2>0. /\ client.step = "frame" /\ History' /\ Spent(client.phase)' /\ ~Dirty
        /\ client.phase = "xprogram" => "corrupt" \in {"refused", "cut"} /\ ~Dirty'
        /\ client.phase = "program" =>
             /\ Dirty' <=> "corrupt" \in {"corrupt", "ack lost", "late"}
             /\ Twice' = IF "corrupt" \in {"ack lost", "late"} THEN 1 ELSE 0
    BY <1>10, <2>10
  <2>1. /\ client.phase = "program" /\ History' /\ ~Dirty /\ Dirty' /\ Twice' = 0
    BY <2>0
  <2>2. board'.mode = "idle" /\ board'.armed /\ board'.flash = Append(board.flash, Damaged)
    BY <1>1, <1>2, <1>4, <2>9, <2>1, WrittenIs
  <2>3. Holding(n)'
    <3>1. board.flash = Numbered(n - 1)
      BY <1>4, <2>1 DEF Holding
    <3>2. Len(board.flash) = n - 1
      BY <1>6, <3>1, NumberedNext
    <3>3. Len(board'.flash) = Len(board.flash) + 1
      BY <1>6, <2>2, GrowsByOne
    <3>4. Len(board'.flash) <= n + 0
      BY <1>6, <3>2, <3>3
    <3> QED BY <1>8, <2>1, <3>4 DEF Holding
  <2>4. Writing'
    BY <1>7, <1>8, <2>9, <2>2, <2>3 DEF Writing
  <2> QED BY <1>1, <1>8, <2>1, <2>2, <2>4, CalmLate
<1>14. CASE Fault("ack lost") /\ Takes1(<<>>) /\ board' = Written(Chunk, n)
  <2>9. Takes1(<<>>) /\ board' = Written(Chunk, n)
    BY <1>14
  <2>10. Fault("ack lost")
    BY <1>14
  <2>0. /\ client.step = "frame" /\ History' /\ Spent(client.phase)' /\ ~Dirty
        /\ client.phase = "xprogram" => "ack lost" \in {"refused", "cut"} /\ ~Dirty'
        /\ client.phase = "program" =>
             /\ Dirty' <=> "ack lost" \in {"corrupt", "ack lost", "late"}
             /\ Twice' = IF "ack lost" \in {"ack lost", "late"} THEN 1 ELSE 0
    BY <1>10, <2>10
  <2>1. /\ client.phase = "program" /\ History' /\ Spent(client.phase)' /\ ~Dirty /\ Dirty'
        /\ Twice' = 1 /\ client.step = "frame"
    BY <2>0
  <2>2. board'.mode = "idle" /\ board'.armed /\ board'.flash = Append(board.flash, n)
    BY <1>1, <1>2, <1>4, <2>9, <2>1, WrittenIs
  <2>3. Holding(n - 1)'
    <3>1. board.flash = Numbered(n - 1)
      BY <1>4, <2>1 DEF Holding
    <3>2. Len(board.flash) = n - 1
      BY <1>6, <3>1, NumberedNext
    <3>3. Len(board'.flash) = Len(board.flash) + 1
      BY <1>6, <2>2, GrowsByOne
    <3>4. Len(board'.flash) <= n - 1 + 1
      BY <1>6, <3>2, <3>3
    <3> QED BY <1>8, <2>1, <3>4 DEF Holding
  <2>4. Writing'
    BY <1>7, <1>8, <2>9, <2>1, <2>3 DEF Writing
  <2> QED BY <1>1, <1>8, <2>1, <2>2, <2>4, CalmLate
<1>15. \/ faults' = faults /\ Takes1(Ack("OK")) /\ board' = Written(Chunk, n)
       \/ Fault("refused") /\ Takes1(Ack("INVALID")) /\ board' = board
       \/ Fault("cut") /\ Takes1(<<>>) /\ board' = [board EXCEPT !.mode = "payload"]
       \/ Fault("corrupt") /\ Takes1(Ack("OK")) /\ board' = Written(Chunk, Damaged)
       \/ Fault("ack lost") /\ Takes1(<<>>) /\ board' = Written(Chunk, n)
  BY <1>1, <1>4, <1>5, ChunkAnswer
<1> QED BY <1>9, <1>11, <1>12, <1>13, <1>14, <1>15

\* A chunk that is written late, after the mishap.
LEMMA LateChunk ==
  ASSUME FlashInv, MishapInv, Handle, Tame', client.phase \in {"xprogram", "program"},
         to # <<>>, to[1] = Chunk, Overdue, faults # <<>>
  PROVE  /\ faults' = faults /\ Takes1(Ack("OK")) /\ board'.mode = "idle"
         /\ board'.armed = board.armed /\ Holding(client.chunk - 1)'
<1>1. TypeInv /\ Within /\ client' = client
  BY HandledKeeps DEF FlashInv
<1>2. client.phase = "program" /\ Dirty /\ Twice = 1 /\ board.mode = "idle"
      /\ Len(board.flash) <= client.chunk - 1
  BY DEF Overdue
<1>3. Head(to) = Chunk
  BY <1>1, LinkType
<1>4. \A k : ~Fault(k)
  BY <1>1, FaultIs DEF MishapInv
<1>5. faults' = faults /\ Takes1(Ack("OK")) /\ board' = Written(Chunk, client.chunk)
  BY <1>2, <1>3, <1>4, ChunkAnswer
<1>6. /\ board'.mode = board.mode /\ board'.armed = board.armed
      /\ board'.flash = Append(board.flash, client.chunk)
  BY <1>1, <1>2, <1>5, WrittenIs
<1>7. /\ client.chunk \in Nat \ {0} /\ Len(board.flash) \in Nat /\ board.flash \in Seq(Nat)
  BY <1>1, Sizes
<1>8. Len(board'.flash) = Len(board.flash) + 1
  BY <1>6, <1>7, GrowsByOne
<1>9. client'.phase = client.phase /\ client'.attempt = client.attempt
  BY <1>1
<1>10. (Dirty' <=> Dirty) /\ Twice' = Twice
  BY <1>5, <1>9, SameFaults
<1>11. Len(board'.flash) <= (client.chunk - 1) + 1
  BY <1>2, <1>7, <1>8
<1>12. Holding(client.chunk - 1)'
  BY <1>1, <1>2, <1>9, <1>10, <1>11 DEF Holding
<1> QED BY <1>2, <1>5, <1>6, <1>12

\* What the bootloader does while the client finds its way back to it.
LEMMA HandleBackCalm ==
  ASSUME FlashInv, MishapInv, Handle, Tame', client.phase \in {"xprogram", "program"},
         client.step \in {"filler", "drain", "resync"}
  PROVE  Calm'
<1>1. /\ Calm /\ TypeInv /\ to # <<>> /\ client' = client /\ ~closed' /\ result' = "none"
      /\ faults' = faults => History'
  BY HandledKeeps
<1>2. Writing /\ board.armed /\ History /\ Within
  BY <1>1 DEF Calm, Known, FlashInv
<1>3. faults # <<>>
  BY <1>2, Spotless DEF History
<1>4. client'.phase = client.phase /\ client'.attempt = client.attempt
      /\ client'.chunk = client.chunk /\ client'.step = client.step /\ client'.stage = client.stage
  BY <1>1
<1>5. Len(to) \in Nat /\ Head(to) = to[1]
  BY <1>1, LinkType
<1>6. board \in [mode : {"idle", "payload"}, armed : BOOLEAN, flash : Seq(Nat),
                 ext : Seq(Nat), cursor : Nat]
  BY <1>1 DEF TypeInv
<1>7. ASSUME to = <<Chunk>> PROVE Len(to) = 1 /\ to[1] = Chunk
  BY <1>7
<1>8. CASE client.step = "filler"
  <2>1. to = <<Chunk>> /\ Overdue
    BY <1>1, <1>2, <1>8 DEF Writing
  <2>2. Len(to) = 1 /\ to[1] = Chunk
    BY <1>7, <2>1
  <2>3. /\ faults' = faults /\ Takes1(Ack("OK")) /\ board'.armed = board.armed
        /\ Holding(client.chunk - 1)'
    BY <1>1, <1>3, <2>1, <2>2, LateChunk
  <2>4. to' = <<>>
    BY <1>1, <2>2, <2>3, LinkHandled, Acks
  <2>5. client'.step = "filler" /\ client'.stage = "send" /\ Holding(client.chunk - 1)'
    BY <1>4, <1>8, <2>3 DEF FlashInv, Where
  <2>6. Writing'
    BY <1>4, <2>4, <2>5 DEF Writing
  <2> QED BY <1>1, <1>2, <1>4, <2>3, <2>6, CalmLate
<1>9. CASE client.step = "drain" /\ Len(to) = 2
  <2>1. to[1] = Chunk /\ to[2].op = "FILLER" /\ Overdue
    BY <1>1, <1>2, <1>9 DEF Writing
  <2>2. /\ faults' = faults /\ Takes1(Ack("OK")) /\ board'.armed = board.armed
        /\ Holding(client.chunk - 1)'
    BY <1>1, <1>3, <2>1, LateChunk
  <2>3. Len(to') = 1 /\ to'[1] = to[2]
    BY <1>1, <1>9, <2>2, LinkHandled, Acks
  <2>4. client'.step = "drain" /\ client'.stage = "drain" /\ Holding(client.chunk - 1)'
    BY <1>4, <1>9, <2>2 DEF FlashInv, Where
  <2>5. Writing'
    BY <1>4, <2>1, <2>3, <2>4 DEF Writing
  <2> QED BY <1>1, <1>2, <1>4, <2>2, <2>5, CalmLate
<1>10. CASE client.step = "drain" /\ Len(to) # 2
  <2>1. Len(to) = 1 /\ to[1].op = "FILLER" /\ Holding(client.chunk - 1)
    BY <1>1, <1>2, <1>10 DEF Writing
  <2>2. faults' = faults /\ board' = [board EXCEPT !.mode = "idle"]
        /\ \E reply \in Seq(Bytes) : Takes1(reply)
    BY <1>1, <1>5, <2>1, FillerAnswer
  <2>3. to' = <<>>
    BY <1>1, <2>1, <2>2, LinkHandled
  <2>4. /\ board'.mode = "idle" /\ board'.armed = board.armed
        /\ board'.ext = board.ext /\ board'.flash = board.flash
    BY <1>6, <2>2
  <2>5. client'.step = "drain" /\ client'.stage = "drain" /\ Holding(client.chunk - 1)'
    <3>1. client.stage = "drain"
      BY <1>10 DEF FlashInv, Where
    <3> QED BY <1>4, <1>10, <2>1, <2>2, <2>4, <3>1, HoldingSame
  <2>6. Writing'
    BY <1>4, <2>3, <2>4, <2>5 DEF Writing
  <2> QED BY <1>1, <1>2, <1>4, <2>2, <2>4, <2>6, CalmLate
<1>11. CASE client.step = "resync"
  <2>1. client.stage = "head" /\ Going("GET_SYNC") /\ board.mode = "idle" /\ Holding(client.chunk - 1)
    <3>1. client.stage \in Exchange
      BY <1>11 DEF FlashInv, Where
    <3> QED BY <1>1, <1>2, <1>11, <3>1 DEF Writing, Acking, Exchange, Clear, Came
  <2>2. Len(to) = 1 /\ to[1].op = "GET_SYNC" /\ Pipe = <<>>
    BY <2>1 DEF Going
  <2>3. faults' = faults /\ Takes1(Ack("OK")) /\ board' = board
    BY <1>1, <1>5, <2>1, <2>2, QueryAnswer
  <2>4. Came(Ack("OK"))'
    BY <1>1, <2>2, <2>3, HandlesOne, Acks DEF Came
  <2>5. Holding(client.chunk - 1)'
    BY <1>4, <2>1, <2>3, HoldingSame
  <2>6. Writing'
    BY <1>4, <1>11, <2>1, <2>3, <2>4, <2>5 DEF Writing, Acking
  <2> QED BY <1>1, <1>2, <1>4, <2>3, <2>6, CalmLate
<1> QED BY <1>8, <1>9, <1>10, <1>11

\* What the bootloader answers a verify with is what the memory holds.
LEMMA HandleCheckCalm ==
  ASSUME FlashInv, MishapInv, Handle, Tame', client.phase \in {"xverify", "verify"}
  PROVE  Calm'
<1>1. /\ Calm /\ TypeInv /\ to # <<>> /\ client' = client /\ setup' = setup /\ ~closed'
      /\ result' = "none" /\ (faults' = faults => History')
  BY HandledKeeps
<1>2. Checking /\ board.armed
  BY <1>1 DEF Calm, Known
<1>3. client.step \in {"crc", "rewind", "read"} /\ client.stage \in Fetch
      /\ (client.phase = "xverify" => client.step = "crc")
      /\ (client.step = "rewind" => client.stage \in Exchange)
  BY DEF FlashInv, Where, Exchange, Fetch
<1>4. board.mode = "idle" /\ ~Clear /\ (\A s : ~Came(s))
  BY <1>1, <1>2 DEF Checking, Clear, Came
<1>5. \A op : Going(op) => Head(to).op = op /\ Len(to) = 1 /\ Pipe = <<>>
  BY <1>1, LinkType DEF Going
<1>6. board \in [mode : {"idle", "payload"}, armed : BOOLEAN, flash : Seq(Nat),
                 ext : Seq(Nat), cursor : Nat]
  BY <1>1 DEF TypeInv
<1>7. client.chunk \in Nat \ {0} /\ setup.ext \in Nat
  BY <1>1, ExtImageIs DEF TypeInv
<1>8. CASE client.step = "rewind"
  <2>1. client.stage = "head" /\ Going("CHIP_VERIFY") /\ client.chunk = 1 /\ client.phase = "verify"
    BY <1>2, <1>3, <1>4, <1>8 DEF Checking, Acking, Exchange
  <2>2. faults' = faults /\ Takes1(Ack("OK")) /\ board' = [board EXCEPT !.cursor = 0]
    BY <1>1, <1>4, <1>5, <2>1, QueryAnswer
  <2>3. to' = <<>> /\ Pipe' = Ack("OK")
    BY <1>1, <1>5, <2>1, <2>2, HandlesOne, Acks
  <2>4. /\ board'.cursor = 0 /\ board'.mode = "idle" /\ board'.flash = board.flash
        /\ board'.armed
    BY <1>2, <1>4, <1>6, <2>2
  <2>5. Dirty' <=> Dirty
    BY <1>1, <2>2, SameFaults
  <2>6. Dirty \/ board.flash = Image
    BY <1>2, <2>1 DEF Checking
  <2>7. Checking'
    BY <1>1, <1>8, <2>1, <2>3, <2>4, <2>5, <2>6 DEF Checking, Acking, Came
  <2> QED BY <1>1, <2>1, <2>2, <2>4, <2>7, CalmLate
<1>9. CASE client.step \in {"crc", "read"}
  <2>1. client.stage = "field" /\ Going(Asked)
    BY <1>2, <1>3, <1>4, <1>9 DEF Checking, Fetch, Exchange
  <2>2. /\ Asked \in {"GET_CRC", "EXTF_GET_CRC", "READ_MULTI"}
        /\ Asked = "GET_CRC" => client.step = "crc" /\ client.phase = "verify"
        /\ Asked = "EXTF_GET_CRC" => client.step = "crc" /\ client.phase = "xverify"
        /\ Asked = "READ_MULTI" => client.step = "read" /\ client.phase = "verify"
    BY <1>3, <1>9 DEF Asked
  <2>3. Head(to).op = Asked /\ (Asked = "GET_CRC" => setup.rev > 2)
    BY <1>2, <1>5, <2>1, <2>2 DEF Checking
  <2>4. /\ faults' = faults
        /\ Asked = "GET_CRC" => Takes1(FieldReply(board.flash)) /\ board' = board
        /\ Asked = "EXTF_GET_CRC" =>
             Takes1(FieldReply(Cells(board.ext, 1, setup.ext))) /\ board' = board
        /\ Asked = "READ_MULTI" =>
             /\ Takes1(FieldReply(Cells(board.flash, board.cursor + 1, board.cursor + 1)))
             /\ board' = [board EXCEPT !.cursor = @ + 1]
    BY <1>1, <1>2, <1>4, <2>2, <2>3, FieldAnswer
  <2>5. Asked = "READ_MULTI" => board.cursor = client.chunk - 1 /\ board.cursor + 1 = client.chunk
                                  /\ client.chunk <= Chunks
    BY <1>1, <1>2, <1>7, <2>1, <2>2 DEF Checking
  <2>6. /\ board'.mode = "idle" /\ board'.flash = board.flash /\ board'.ext = board.ext
        /\ board'.armed
        /\ Asked = "READ_MULTI" => board'.cursor = client.chunk
    BY <1>2, <1>4, <1>6, <2>2, <2>4, <2>5
  <2>7. Takes1(FieldReply(Truth))
    BY <1>3, <2>2, <2>4, <2>5 DEF Truth
  <2>8. FieldReply(Truth) \in Seq(Bytes)
    <3>1. 1 \in Nat \ {0} /\ client.chunk \in Nat
      BY <1>7
    <3>2. Truth \in Seq(Nat)
      BY <1>6, <1>7, <3>1, CellsType DEF Truth
    <3> QED BY <3>2, ReplyBytes
  <2>9. to' = <<>> /\ Pipe' = FieldReply(Truth)
    BY <1>1, <1>5, <2>1, <2>7, <2>8, HandlesOne
  <2>10. Truth' = Truth /\ (Dirty' <=> Dirty) /\ ExtImage' = ExtImage
    BY <1>1, <2>4, <2>6, SameFaults DEF Truth, ExtImage
  <2>11. Came(FieldReply(Truth))'
    BY <2>9, <2>10 DEF Came
  <2>12. /\ client.phase = "xverify" => board'.ext = ExtImage'
         /\ client.phase = "verify" => Dirty' \/ board'.flash = Image
         /\ client.step = "crc" /\ client.phase = "verify" => setup'.rev > 2
    BY <1>1, <1>2, <2>6, <2>10 DEF Checking
  <2>13. client.step = "read" => client.chunk <= Chunks /\ board'.cursor = client.chunk
    BY <1>3, <2>2, <2>5, <2>6 DEF Asked
  <2>14. Checking'
    BY <1>1, <1>9, <2>1, <2>6, <2>9, <2>11, <2>12, <2>13 DEF Checking
  <2> QED BY <1>1, <2>4, <2>6, <2>14, CalmLate
<1> QED BY <1>3, <1>8, <1>9

\* A session that is over has nothing more to lose.
LEMMA HandleOverCalm ==
  ASSUME FlashInv, MishapInv, Handle, Tame', client.phase = "over"
  PROVE  Calm'
<1>1. /\ Calm /\ TypeInv /\ client' = client /\ ~closed' /\ result' = result /\ result # "failed"
      /\ faults' = faults => History'
  BY HandledKeeps
<1>2. \A k : ~Fault(k)
  BY <1>1, FaultIs, SurvivableIs DEF MishapInv
<1>3. faults' = faults
  BY <1>2, HandleFaults
<1> QED BY <1>1, <1>3, CalmOver

\* The bootloader takes a command.
LEMMA HandleCalm ==
  ASSUME FlashInv, MishapInv, Handle, Tame'
  PROVE  Calm'
<1>1. client.phase \in Phases
  BY DEF FlashInv, TypeInv
<1>2. CASE client.phase \in {"xprogram", "program"}
  BY <1>2, HandleFrameCalm, HandleBackCalm DEF FlashInv, Where
<1>3. CASE client.phase = "reboot"
  BY <1>3 DEF FlashInv, Ended, Handle
<1> QED BY <1>1, <1>2, <1>3, HandleEarlyCalm, HandleEraseCalm, HandleCheckCalm, HandleOverCalm
        DEF Phases, Early

\* A count below one is none.
LEMMA BelowOne == \A n \in Nat : n < 1 => n = 0
OBVIOUS

\* A count is no more than itself, nor than itself less one and one more.
LEMMA Itself == \A n, m \in Int : n = m => n <= m
OBVIOUS

\* See Itself.
LEMMA BackAndForth == \A l \in Nat, n \in Nat \ {0} : l = n => l <= (n - 1) + 1
OBVIOUS

\* A reply of six bytes has the four of its field.
LEMMA FieldFits == ~(6 < 4)
OBVIOUS

\* A history without a mishap.
LEMMA HistoryFresh ==
  ASSUME faults' = <<>>, client'.attempt = 1, Chunks <= FlashChunks,
         client'.phase \in {"xprogram", "program"} => client'.step = "frame"
  PROVE  History'
<1>1. \A p : ~Spent(p)'
  BY DEF Spent
<1> QED BY <1>1 DEF History

\* Before flash() nothing has befallen the session.
LEMMA EarlyFresh ==
  ASSUME FlashInv, Calm, client.phase \in Early, client.stage # "none", faults' = faults, Stays
  PROVE  /\ client.phase \in {"identify", "settle 1", "compare", "settle 2"}
         /\ ClientType /\ Where /\ result = "none" /\ ~closed' /\ faults' = <<>>
         /\ client.attempt = 1 /\ Chunks <= FlashChunks /\ board' = board /\ to' = to
<1>1. TypeInv /\ Where /\ Ended
  BY DEF FlashInv
<1>2. client.phase \in {"identify", "settle 1", "compare", "settle 2"}
  BY <1>1 DEF Where, Early
<1>3. ClientType /\ client.attempt \in {1, 2}
  BY <1>1 DEF TypeInv, ClientType
<1>4. ~closed /\ History
  BY DEF Calm
<1>5. faults = <<>> /\ Chunks <= FlashChunks /\ (client.attempt = 2 => Spent("program"))
  BY <1>2, <1>4 DEF History
<1>6. client.attempt = 1
  BY <1>3, <1>5, Spotless
<1>7. result = "none"
  BY <1>1, <1>2 DEF Ended
<1>8. ~closed' /\ board' = board /\ to' = to
  BY <1>4 DEF Stays
<1> QED BY <1>1, <1>2, <1>3, <1>5, <1>6, <1>7, <1>8

\* A phase before flash() is through.
LEMMA EarlyAdvances ==
  ASSUME FlashInv, Calm, client.phase \in Early, client.stage # "none", faults' = faults, Stays,
         Advances, board.armed, client.phase = "settle 2" => Clear'
  PROVE  Calm'
<1>1. /\ client.phase \in {"identify", "settle 1", "compare", "settle 2"}
      /\ ClientType /\ result = "none" /\ ~closed' /\ faults' = <<>>
      /\ client.attempt = 1 /\ Chunks <= FlashChunks /\ board' = board
  BY EarlyFresh
<1>2. CASE client.phase = "settle 2" /\ Ends("refused")
  BY <1>1, <1>2, HistoryFresh, CalmOver DEF Ends, ClientType
<1>3. ASSUME NEW p \in {"settle 1", "compare", "settle 2", "xerase", "erase"},
             Moves(ToPhase(client, p)), p \in {"xerase", "erase"} => Clear'
      PROVE  Calm'
  <2>1. p \in Phases \ {"guard", "over"} /\ 1 \in {1, 2}
    BY DEF Phases
  <2>2. /\ result' = result /\ client'.phase = p /\ client'.step = First(p)
        /\ client'.stage = (IF p \in {"settle 1", "settle 2"} THEN "drain" ELSE "send")
    BY <1>1, <1>3, <2>1, PhaseMoves
  <2>3. client'.attempt = 1
    BY <1>1, <1>3, PhaseKeeps
  <2>4. History' /\ result' = "none"
    BY <1>1, <2>2, <2>3, HistoryFresh
  <2>5. CASE p \in {"settle 1", "compare", "settle 2"}
    BY <1>1, <2>2, <2>4, <2>5, CalmEarly DEF Known, Early
  <2>6. CASE p \in {"xerase", "erase"}
    <3>1. client'.stage = "send" /\ Clear'
      BY <1>3, <2>2, <2>6
    <3>2. ExtErasing' /\ ChipErasing'
      BY <3>1 DEF ExtErasing, ChipErasing
    <3> QED BY <1>1, <2>2, <2>4, <2>6, <3>2, CalmLate
  <2> QED BY <2>5, <2>6
<1>4. \/ client.phase = "settle 2" /\ Ends("refused")
      \/ client.phase = "settle 2" /\ Moves(ToPhase(client, IF setup.ext > 0 THEN "xerase" ELSE "erase"))
      \/ \E p \in {"settle 1", "compare", "settle 2"} : Moves(ToPhase(client, p))
  BY <1>1, AdvancesIs
<1>5. CASE client.phase = "settle 2" /\ Moves(ToPhase(client, IF setup.ext > 0 THEN "xerase" ELSE "erase"))
  <2> DEFINE p == IF setup.ext > 0 THEN "xerase" ELSE "erase"
  <2>1. p \in {"settle 1", "compare", "settle 2", "xerase", "erase"} /\ Clear'
    BY <1>5
  <2>2. Moves(ToPhase(client, p))
    BY <1>5
  <2> HIDE DEF p
  <2> QED BY <1>3, <2>1, <2>2
<1>6. CASE \E p \in {"settle 1", "compare", "settle 2"} : Moves(ToPhase(client, p))
  <2>1. PICK p \in {"settle 1", "compare", "settle 2"} : Moves(ToPhase(client, p))
    BY <1>6
  <2>2. p \in {"settle 1", "compare", "settle 2", "xerase", "erase"} /\ p \notin {"xerase", "erase"}
    OBVIOUS
  <2> QED BY <1>3, <2>1, <2>2
<1> QED BY <1>2, <1>4, <1>5, <1>6

\* An answer, a refusal or a silence before flash(), once the board is known.
LEMMA EarlyOnCalm ==
  ASSUME FlashInv, Calm, client.phase \in Early, client.stage # "none", faults' = faults, Stays,
         Resolves \/ (\E error : Rejects(error)),
         board.armed \/ (client.step = "sync" /\ Resolves),
         client.step = "sync" \/ client.phase = "settle 2" => Clear'
  PROVE  Calm'
<1>1. /\ client.phase \in {"identify", "settle 1", "compare", "settle 2"}
      /\ ClientType /\ Where /\ result = "none" /\ ~closed' /\ faults' = <<>>
      /\ client.attempt = 1 /\ Chunks <= FlashChunks /\ board' = board
  BY EarlyFresh
<1>2. \/ Advances /\ board.armed
      \/ client.phase = "compare" /\ Ends("skipped")
      \/ client.phase = "identify" /\ Moves(ToStep(client, "drain")) /\ board.armed
      \/ client.phase = "identify" /\ client.step = "sync" /\ Moves(ToStep(client, "info"))
      \/ client.phase = "identify" /\ Moves(ToStep(client, "version")) /\ board.armed
  <2>1. CASE Resolves
    BY <1>1, <2>1, ResolvesIs DEF Where
  <2>2. CASE ~Resolves
    <3>1. PICK error : Rejects(error)
      BY <2>2
    <3>2. client.step = "version" => client.phase = "identify"
      BY <1>1 DEF Where
    <3> QED BY <1>1, <2>2, <3>1, <3>2, RejectsIs
  <2> QED BY <2>1, <2>2
<1>3. CASE Advances /\ board.armed
  BY <1>3, EarlyAdvances
<1>4. CASE client.phase = "compare" /\ Ends("skipped")
  BY <1>1, <1>4, HistoryFresh, CalmOver DEF Ends, ClientType
<1>5. ASSUME NEW s \in {"drain", "info", "version"}, Moves(ToStep(client, s)),
             client.phase = "identify", s = "info" => Clear', s # "info" => board.armed
      PROVE  Calm'
  <2>1. s \in Steps
    BY DEF Steps
  <2>2. /\ result' = result /\ client'.phase = "identify" /\ client'.step = s
        /\ client'.stage = (IF s = "drain" THEN "drain" ELSE "send")
    BY <1>1, <1>5, <2>1, StepMoves
  <2>3. client'.attempt = 1
    BY <1>1, <1>5, StepKeeps
  <2>4. History' /\ result' = "none"
    BY <1>1, <2>2, <2>3, HistoryFresh
  <2>5. Known' /\ client'.phase \in Early
    BY <1>1, <1>5, <2>2 DEF Known, Early
  <2> QED BY <1>1, <2>4, <2>5, CalmEarly
<1>6. CASE client.phase = "identify" /\ client.step = "sync" /\ Moves(ToStep(client, "info"))
  BY <1>5, <1>6
<1>7. CASE client.phase = "identify" /\ Moves(ToStep(client, "drain")) /\ board.armed
  BY <1>5, <1>7
<1>8. CASE client.phase = "identify" /\ Moves(ToStep(client, "version")) /\ board.armed
  BY <1>5, <1>8
<1> QED BY <1>2, <1>3, <1>4, <1>6, <1>7, <1>8

\* A frame that is given up is followed by a filler.
LEMMA FillerCalm ==
  ASSUME ClientType, client.phase \in {"xprogram", "program"}, client.stage # "none",
         Moves(ToStep(client, "filler")), Stays, ~closed, result = "none", board.armed, History',
         \/ to = <<>> /\ Holding(client.chunk - 1)'
         \/ to = <<Chunk>> /\ Overdue'
  PROVE  Calm'
<1>1. "filler" \in Steps
  BY DEF Steps
<1>2. /\ result' = result /\ client'.phase = client.phase /\ client'.step = "filler"
      /\ client'.stage = "send" /\ client'.chunk = client.chunk
  BY <1>1, StepMoves
<1>3. to' = to /\ board' = board /\ ~closed' /\ Chunk' = Chunk
  BY <1>2 DEF Stays, Chunk, FrameOp
<1>4. Writing'
  BY <1>2, <1>3 DEF Writing
<1> QED BY <1>2, <1>3, <1>4, CalmLate

\* What a wait that is in vain leaves alone, and what it may be in vain for.
LEMMA TimeoutIs ==
  ASSUME FlashInv, MishapInv, Timeout, Tame'
  PROVE  /\ Calm /\ TypeInv /\ Where /\ Within /\ ClientType /\ Stays /\ buf' = buf /\ Pipe' = Pipe
         /\ client.stage \in ReadStages \ {"drain"} /\ client.stage # "none" /\ ~closed
         /\ client.phase \notin {"guard", "over", "reboot"} /\ result = "none"
         /\ client.stage \notin {"poll", "percent", "poll status"} => Rejects("timeout")
         /\ \/ from = <<>> /\ to = <<>> /\ faults' = faults
            \/ Erasing /\ client.phase # "erase" /\ faults' = faults
            \/ Fault("late") /\ client.phase = "program"
         /\ from = <<>> => Len(Pipe) < Needs(client.stage)
<1>1. TypeInv /\ Where /\ Within /\ Cut /\ Ended
  BY DEF FlashInv
<1>2. ClientType /\ client.stage # "none" /\ Stays /\ buf' = buf
  BY <1>1, SilenceIs
<1>3. client.stage \in ReadStages \ {"drain"} /\ ~closed /\ Len(buf) < Needs(client.stage)
  BY DEF Timeout
<1>4. \/ from = <<>> /\ to = <<>> /\ faults' = faults
      \/ Erasing /\ client.phase # "erase" /\ faults' = faults
      \/ Fault(LateKind)
  BY DEF Timeout, Quiet
<1>5. Calm
  BY <1>1, <1>4, CalmBefore
<1>6. Fault(LateKind) => Fault("late") /\ client.phase = "program"
  <2> SUFFICES ASSUME Fault(LateKind) PROVE Fault("late") /\ client.phase = "program"
    OBVIOUS
  <2>1. /\ faults' # <<>> /\ faults'[1].kind = LateKind /\ faults'[1].phase = client.phase
        /\ Survivable(faults'[1])
    BY <1>1, FaultIs DEF MishapInv
  <2>2. LateKind \notin {"late resync", "refused", "cut"} /\ client.phase \in {"program", "xprogram"}
        /\ (client.phase = "xprogram" => LateKind \in {"refused", "cut"})
    <3> DEFINE f == faults'[1]
    <3>1. f.kind = LateKind /\ f.phase = client.phase /\ Survivable(f)
      BY <2>1
    <3> HIDE DEF f
    <3>2. /\ f.phase \in {"program", "xprogram"}
          /\ f.kind \notin {"failed", "unplugged", "late resync"}
          /\ f.phase = "xprogram" => f.kind \in {"refused", "cut"}
      BY <3>1, SurvivableIs
    <3>3. LateKind \in {"late", "late resync"}
      BY DEF LateKind
    <3> QED BY <3>1, <3>2, <3>3
  <2>3. LateKind = "late"
    BY <2>2 DEF LateKind
  <2> QED BY <2>2, <2>3
<1>7. client.phase \notin {"guard", "over", "reboot"}
  BY <1>1, <1>2, <1>3 DEF Where, ReadStages
<1>8. result = "none"
  BY <1>1, <1>7 DEF Ended
<1>9. client.stage \notin {"poll", "percent", "poll status"} => Rejects("timeout")
  BY DEF Timeout
<1>10. from = <<>> => Len(Pipe) < Needs(client.stage)
  BY <1>1, <1>3, AllArrived
<1>11. Pipe' = Pipe
  BY <1>2, SameLoad
<1> QED BY <1>1, <1>2, <1>3, <1>4, <1>5, <1>6, <1>7, <1>8, <1>9, <1>10, <1>11

\* The line is silent, and what a calm session waits for is not there.
LEMMA TimeoutEmpty ==
  ASSUME FlashInv, MishapInv, Timeout, Tame', faults' = faults
  PROVE  /\ from = <<>> /\ to = <<>>
         /\ Len(Pipe) < Needs(client.stage)
         /\ client.stage \in {"head", "status", "poll", "poll status", "percent"} => Pipe = <<>>
<1>1. /\ Calm /\ TypeInv /\ Where /\ client.phase \in Phases
      /\ client.phase \notin {"guard", "over", "reboot"}
      /\ client.stage \in ReadStages \ {"drain"}
      /\ \/ from = <<>> /\ to = <<>>
         \/ Erasing /\ client.phase # "erase"
         \/ Fault("late")
      /\ from = <<>> => Len(Pipe) < Needs(client.stage)
  BY TimeoutIs DEF TypeInv
<1>2. ~Fault("late")
  <2> SUFFICES ASSUME Fault("late") PROVE FALSE
    OBVIOUS
  <2>1. faults = <<>> /\ faults' # <<>>
    BY <1>1, FaultIs DEF MishapInv
  <2> QED BY <2>1
<1>3. ~(Erasing /\ client.phase # "erase")
  <2> SUFFICES ASSUME to # <<>>, Head(to).op = "CHIP_ERASE", client.phase # "erase" PROVE FALSE
    BY DEF Erasing
  <2>1. Head(to) = to[1] /\ 1 \in 1..Len(to)
    BY <1>1, LinkType
  <2>2. CASE client.phase \in Early
    BY <2>1, <2>2 DEF FlashInv, Untouched, Sends, Asking
  <2>3. CASE client.phase = "xerase"
    <3>1. ExtErasing /\ client.stage \in {"head", "status", "percent", "poll", "poll status"}
      BY <1>1, <2>3 DEF Calm, Where, Exchange, ReadStages
    <3>2. Going("EXTF_ERASE")
      BY <2>3, <3>1 DEF ExtErasing, Came
    <3> QED BY <2>1, <3>2 DEF Going
  <2>4. CASE client.phase \in {"xprogram", "program"}
    <3>1. Writing /\ client.stage \in {"head", "status"}
      BY <1>1, <2>4 DEF Calm, Where, Exchange, ReadStages
    <3>2. to = <<Chunk>> \/ Going("GET_SYNC")
      BY <1>1, <2>4, <3>1 DEF Writing, Acking, Came, Clear, Where
    <3>3. CASE to = <<Chunk>>
      BY <2>1, <3>3 DEF Chunk, FrameOp
    <3> QED BY <2>1, <3>2, <3>3 DEF Going
  <2>5. CASE client.phase \in {"xverify", "verify"}
    BY <2>1, <2>5 DEF FlashInv, Verifying, NoErase
  <2> QED BY <1>1, <2>2, <2>3, <2>4, <2>5 DEF Phases, Early
<1>4. from = <<>> /\ to = <<>> /\ Len(Pipe) < Needs(client.stage)
  BY <1>1, <1>2, <1>3
<1>5. client.stage \in {"head", "status", "poll", "poll status", "percent"} => Pipe = <<>>
  <2> SUFFICES ASSUME client.stage \in {"head", "status", "poll", "poll status", "percent"}
               PROVE Pipe = <<>>
    OBVIOUS
  <2>1. Len(Pipe) < 1
    BY <1>4 DEF Needs
  <2>2. Len(Pipe) \in Nat /\ Pipe \in Seq(Bytes)
    BY <1>1, LinkType, LenProperties
  <2>3. Len(Pipe) = 0
    BY <2>1, <2>2, BelowOne
  <2> QED BY <2>2, <2>3, EmptySeq
<1> QED BY <1>4, <1>5
\* What a field tells is chunks.
LEMMA TruthType ==
  ASSUME TypeInv
  PROVE  Truth \in Seq(Nat)
<1>1. board.flash \in Seq(Nat) /\ board.ext \in Seq(Nat) /\ client.chunk \in Nat \ {0}
      /\ setup.ext \in Nat
  BY ExtImageIs DEF TypeInv
<1>2. 1 \in Nat \ {0} /\ client.chunk \in Nat
  BY <1>1
<1> QED BY <1>1, <1>2, CellsType DEF Truth


\* Sequences that are not empty.
LEMMA NotEmpty ==
  /\ Ack("OK") # <<>> /\ <<Byte("OK")>> # <<>> /\ <<Byte("INVALID")>> # <<>>
  /\ \A op : Going(op) => to # <<>>
  /\ \A k \in 0..5 : Rest(EraseReply, k) # <<>>
  /\ <<Chunk>> # <<>>
<1>1. Len(<<>>) = 0 /\ \A w : Len(<<w>>) = 1
  OBVIOUS
<1>2. \A k \in 0..5 : Len(Rest(EraseReply, k)) >= 1
  BY RestOfErase
<1>3. \A k \in 0..5 : Rest(EraseReply, k) # <<>>
  BY <1>1, <1>2
<1>4. <<Byte("OK")>> # <<>> /\ <<Byte("INVALID")>> # <<>> /\ <<Chunk>> # <<>>
  BY <1>1
<1>5. \A op : Going(op) => to # <<>>
  BY <1>1 DEF Going
<1> QED BY <1>3, <1>4, <1>5, Acks

\* A silence before flash().
LEMMA TimeoutEarlyCalm ==
  ASSUME FlashInv, MishapInv, Timeout, Tame', faults' = faults, client.phase \in Early
  PROVE  Calm'
<1>1. /\ Calm /\ Where /\ Stays /\ Pipe' = Pipe
      /\ client.stage \in ReadStages \ {"drain"} /\ client.stage # "none"
      /\ client.phase \notin {"guard", "over", "reboot"}
      /\ client.stage \notin {"poll", "percent", "poll status"} => Rejects("timeout")
  BY TimeoutIs
<1>2. /\ to = <<>>
      /\ client.stage \in {"head", "status"} => Pipe = <<>>
  BY TimeoutEmpty
<1>3. Known /\ client.phase \in {"identify", "settle 1", "compare", "settle 2"}
  BY <1>1 DEF Calm, Early
<1>4. client.step # "sync"
  <2> SUFFICES ASSUME client.step = "sync" PROVE FALSE
    OBVIOUS
  <2>1. client.phase = "identify" /\ client.stage \in {"head", "status"}
    BY <1>1, <1>3 DEF Where, Exchange, ReadStages
  <2>2. Acking("GET_SYNC")
    BY <1>3, <2>1 DEF Known
  <2> QED BY <1>2, <2>1, <2>2, NotEmpty DEF Acking, Came
<1>5. board.armed
  <2>1. CASE client.phase = "identify" /\ client.step = "info"
    <3>1. client.stage \in {"field", "head", "status"}
      BY <1>1, <2>1 DEF Where, Fetch, Exchange, ReadStages
    <3> QED BY <1>2, <1>3, <2>1, <3>1, NotEmpty DEF Known
  <2>2. CASE ~(client.phase = "identify" /\ client.step = "info")
    BY <1>3, <1>4, <2>2 DEF Known
  <2> QED BY <2>1, <2>2
<1>6. client.phase = "settle 2" => Clear'
  BY <1>1, <1>2 DEF Where, Exchange, ReadStages, Clear, Stays
<1>7. client.stage \notin {"poll", "percent", "poll status"}
  BY <1>1, <1>3 DEF Where, Exchange, Fetch
<1>8. \E error : Rejects(error)
  BY <1>1, <1>7
<1> QED BY <1>1, <1>4, <1>5, <1>6, <1>8, EarlyOnCalm

\* A silence while a memory is erased or verified: there is none.
LEMMA TimeoutNever ==
  ASSUME FlashInv, MishapInv, Timeout, Tame', faults' = faults
  PROVE  client.phase \notin {"xerase", "erase", "xverify", "verify"}
<1>1. /\ Calm /\ TypeInv /\ Where /\ client.stage \in ReadStages \ {"drain"}
  BY TimeoutIs
<1>2. /\ to = <<>> /\ Len(Pipe) < Needs(client.stage)
      /\ client.stage \in {"head", "status", "poll", "poll status", "percent"} => Pipe = <<>>
  BY TimeoutEmpty
<1>3. client.phase # "xerase"
  <2> SUFFICES ASSUME client.phase = "xerase" PROVE FALSE
    OBVIOUS
  <2>1. ExtErasing /\ client.stage \in {"head", "status", "percent", "poll", "poll status"}
    BY <1>1 DEF Calm, Where, Exchange, ReadStages
  <2>2. /\ Rest(EraseReply, 1) # <<>> /\ Rest(EraseReply, 2) # <<>> /\ Rest(EraseReply, 3) # <<>>
        /\ Rest(EraseReply, 4) # <<>> /\ Rest(EraseReply, 5) # <<>> /\ EraseReply # <<>>
    BY NotEmpty, RestOfErase
  <2> QED BY <1>2, <2>1, <2>2, NotEmpty DEF ExtErasing, Came
<1>4. client.phase # "erase"
  <2> SUFFICES ASSUME client.phase = "erase" PROVE FALSE
    OBVIOUS
  <2>1. ChipErasing /\ client.stage \in {"poll", "poll status"}
    BY <1>1 DEF Calm, Where, ReadStages
  <2> QED BY <1>2, <2>1, NotEmpty DEF ChipErasing, Came
<1>5. client.phase \notin {"xverify", "verify"}
  <2> SUFFICES ASSUME client.phase \in {"xverify", "verify"} PROVE FALSE
    OBVIOUS
  <2>1. Checking /\ client.stage \in {"field", "head", "status"} /\ client.step \in {"crc", "rewind", "read"}
        /\ (client.step = "rewind" => client.stage \in {"head", "status"})
    BY <1>1 DEF Calm, Where, Exchange, Fetch, ReadStages
  <2>2. CASE client.step = "rewind"
    BY <1>2, <2>1, <2>2, NotEmpty DEF Checking, Acking, Came
  <2>3. CASE client.step # "rewind" /\ client.stage \in {"head", "status"}
    BY <1>2, <2>1, <2>3, NotEmpty DEF Checking, Came
  <2>4. CASE client.step # "rewind" /\ client.stage = "field"
    <3>1. Pipe = FieldReply(Truth)
      BY <1>2, <2>1, <2>4, NotEmpty DEF Checking, Came
    <3>2. Truth \in Seq(Nat)
      BY <1>1, TruthType
    <3>3. Len(Pipe) = 6 /\ Needs(client.stage) = 4
      BY <2>4, <3>1, <3>2, RestOfField DEF Needs
    <3> QED BY <1>2, <3>3, FieldFits
  <2> QED BY <2>1, <2>2, <2>3, <2>4
<1> QED BY <1>3, <1>4, <1>5

\* A frame that is given up for a silence, or a refusal, is sent again.
LEMMA GivesUpFrame ==
  ASSUME ClientType, client.phase \in {"xprogram", "program"}, client.step = "frame",
         Rejects("timeout") \/ Rejects("INVALID")
  PROVE  Moves(ToStep(client, "filler")) /\ client'.phase = client.phase
         /\ client'.attempt = client.attempt /\ client'.chunk = client.chunk
         /\ client'.step = "filler"
<1>1. Moves(ToStep(client, "filler"))
  BY DEF Rejects, Resends
<1>2. "filler" \in Steps
  BY DEF Steps
<1> QED BY <1>1, <1>2, StepMoves, StepKeeps

\* A frame that has been silent: what was lost is sent again.
LEMMA TimeoutLostCalm ==
  ASSUME FlashInv, MishapInv, Timeout, Tame', faults' = faults, client.phase \in {"xprogram", "program"}
  PROVE  Calm'
<1>1. /\ Calm /\ TypeInv /\ Where /\ ClientType /\ Stays /\ ~closed /\ result = "none"
      /\ client.stage \in ReadStages \ {"drain"} /\ client.stage # "none"
      /\ client.stage \notin {"poll", "percent", "poll status"} => Rejects("timeout")
  BY TimeoutIs
<1>2. /\ to = <<>>
      /\ client.stage \in {"head", "status"} => Pipe = <<>>
  BY TimeoutEmpty
<1>3. Writing /\ board.armed /\ History
  BY <1>1 DEF Calm, Known
<1>4. client.stage \in {"head", "status"} /\ client.step \in {"frame", "resend", "resync"}
  BY <1>1 DEF Where, Exchange, ReadStages
<1>5. client.step # "resync"
  BY <1>2, <1>3, <1>4, NotEmpty DEF Writing, Acking, Came
<1>6. client.step = "frame" /\ Spent(client.phase) /\ Holding(client.chunk - 1)
  BY <1>2, <1>3, <1>4, <1>5, NotEmpty DEF Writing, Came
<1>7. Moves(ToStep(client, "filler")) /\ client'.phase = client.phase
      /\ client'.attempt = client.attempt
  BY <1>1, <1>4, <1>6, GivesUpFrame
<1>8. History'
  BY <1>3, <1>6, <1>7, HistoryOn
<1>9. Holding(client.chunk - 1)'
  BY <1>1, <1>4, <1>6, <1>7, HoldingSame, GivesUpFrame DEF Stays
<1> QED BY <1>1, <1>2, <1>3, <1>7, <1>8, <1>9, FillerCalm

\* A frame whose answer is late may be written twice.
LEMMA TimeoutLateCalm ==
  ASSUME FlashInv, MishapInv, Timeout, Tame', Fault("late"), client.phase = "program"
  PROVE  Calm'
<1>1. /\ Calm /\ TypeInv /\ Where /\ Within /\ ClientType /\ Stays /\ ~closed /\ result = "none"
      /\ client.stage \in ReadStages \ {"drain"} /\ client.stage # "none"
      /\ client.stage \notin {"poll", "percent", "poll status"} => Rejects("timeout")
  BY TimeoutIs
<1>2. Writing /\ board.armed /\ History
  BY <1>1 DEF Calm, Known
<1>3. client.stage \in {"head", "status"} /\ client.step \in {"frame", "resend", "resync"}
  BY <1>1 DEF Where, Exchange, ReadStages
<1>4. faults = <<>> /\ ~Dirty /\ ~Spent("program")
  BY <1>1, FaultIs, Spotless DEF MishapInv
<1>5. client.step = "frame"
  BY <1>2, <1>3, <1>4 DEF History
<1>6. Moves(ToStep(client, "filler")) /\ client'.phase = client.phase
      /\ client'.attempt = client.attempt /\ client'.chunk = client.chunk
  BY <1>1, <1>3, <1>5, GivesUpFrame
<1>7. /\ History'
      /\ Dirty' <=> "late" \in {"corrupt", "ack lost", "late"}
      /\ Twice' = IF "late" \in {"ack lost", "late"} THEN 1 ELSE 0
  BY <1>1, <1>6, HistoryStruck
<1>8. Dirty' /\ Twice' = 1
  BY <1>7
<1> DEFINE n == client.chunk
<1>9. n \in Nat \ {0} /\ n - 1 \in Nat /\ Len(board.flash) \in Nat
  BY <1>1, Sizes
<1>10. board' = board /\ to' = to
  BY <1>1 DEF Stays
<1>11. CASE to = <<Chunk>> /\ board.mode = "idle" /\ Holding(n - 1)
  <2>1. board.flash = Numbered(n - 1)
    BY <1>4, <1>11 DEF Holding
  <2>2. Len(board.flash) = n - 1
    BY <1>9, <2>1, NumberedNext
  <2>3. Len(board.flash) <= n - 1
    BY <1>9, <2>2, Itself
  <2>4. Overdue'
    BY <1>6, <1>8, <1>10, <1>11, <2>3 DEF Overdue
  <2> QED BY <1>1, <1>2, <1>6, <1>7, <1>11, <2>4, FillerCalm
<1>12. CASE to = <<>> /\ Holding(n)
  <2>1. board.flash = Numbered(n)
    BY <1>4, <1>12 DEF Holding
  <2>2. Len(board.flash) = n /\ n \in Nat
    BY <1>9, <2>1, NumberedNext
  <2>3. Len(board.flash) <= (n - 1) + 1
    BY <1>9, <2>2, BackAndForth
  <2>4. Holding(n - 1)'
    BY <1>6, <1>8, <1>10, <2>3 DEF Holding
  <2> QED BY <1>1, <1>2, <1>6, <1>7, <1>12, <2>4, FillerCalm
<1> QED BY <1>2, <1>3, <1>4, <1>5, <1>11, <1>12 DEF Writing, Came

\* A read that times out.
LEMMA TimeoutCalm ==
  ASSUME FlashInv, MishapInv, Timeout, Tame'
  PROVE  Calm'
<1>1. client.phase \in Phases \ {"guard", "over", "reboot"}
      /\ (faults' = faults \/ (Fault("late") /\ client.phase = "program"))
  BY TimeoutIs DEF FlashInv, TypeInv
<1>2. CASE Fault("late") /\ client.phase = "program"
  BY <1>2, TimeoutLateCalm
<1>3. CASE faults' = faults
  BY <1>1, <1>3, TimeoutNever, TimeoutEarlyCalm, TimeoutLostCalm DEF Phases, Early
<1> QED BY <1>1, <1>2, <1>3

\* A port that is there does not fail.
LEMMA FailsClosedCalm ==
  ASSUME FlashInv, MishapInv, FailsClosed
  PROVE  ~Tame'
<1>1. faults' = faults /\ closed
  BY DEF FailsClosed
<1> QED BY <1>1, SameFaults DEF MishapInv, Calm

\* A drain ends when all that was sent has been taken and answered.
LEMMA DrainCalm ==
  ASSUME FlashInv, MishapInv, DrainEnds, Tame'
  PROVE  Calm'
<1>1. /\ TypeInv /\ Where /\ Ended
      /\ client.stage = "drain" /\ Moves(ToStep(client, "resync")) /\ Stays /\ buf' = buf
      /\ buf = <<>> /\ (Quiet \/ Erasing \/ closed) /\ faults' = faults
  BY DEF FlashInv, DrainEnds, Silent, link, Stays
<1>2. Calm /\ ClientType
  BY <1>1, SameFaults DEF MishapInv, TypeInv, ClientType
<1>3. ~closed /\ History /\ Known /\ Writing
  BY <1>2 DEF Calm
<1>4. client.step = "drain" /\ client.phase \in {"identify", "settle 1", "settle 2", "xprogram", "program"}
  BY <1>1, <1>2 DEF Where, ClientType, Phases, Steps, Exchange, Fetch
<1>5. "resync" \in Steps
  BY DEF Steps
<1>6. /\ result' = result /\ client'.phase = client.phase /\ client'.step = "resync"
      /\ client'.stage = "send" /\ client'.chunk = client.chunk /\ client'.attempt = client.attempt
  BY <1>1, <1>2, <1>5, StepMoves, StepKeeps
<1>7. result' = "none" /\ ~closed' /\ board' = board /\ to' = to
  BY <1>1, <1>3, <1>4, <1>6 DEF Ended, Stays
<1>8. board.armed
  BY <1>3, <1>4 DEF Known
<1>9. History'
  BY <1>1, <1>3, <1>4, <1>6, HistoryOn DEF History
<1>10. CASE client.phase \in {"identify", "settle 1", "settle 2"}
  <2>1. client'.phase \in Early
    BY <1>6, <1>10 DEF Early
  <2>2. Known'
    BY <1>6, <1>7, <1>8, <1>10 DEF Known
  <2> QED BY <1>7, <1>9, <2>1, <2>2, CalmEarly
<1>11. CASE client.phase \in {"xprogram", "program"}
  <2>1. \/ to = <<>> /\ board.mode = "idle" /\ Holding(client.chunk - 1)
        \/ Len(to) = 1 /\ to[1].op = "FILLER"
        \/ Len(to) = 2 /\ to[1] = Chunk
    BY <1>3, <1>4, <1>11 DEF Writing
  <2>2. to # <<>> => to[1].op # "CHIP_ERASE"
    BY <2>1 DEF Chunk, FrameOp
  <2>3. ~Erasing
    <3> SUFFICES ASSUME to # <<>>, Head(to).op = "CHIP_ERASE" PROVE FALSE
      BY DEF Erasing
    <3>1. Head(to) = to[1]
      BY <1>1, LinkType
    <3> QED BY <2>2, <3>1
  <2>4. to = <<>> /\ from = <<>>
    BY <1>1, <1>3, <2>3 DEF Quiet
  <2>5. board.mode = "idle" /\ Holding(client.chunk - 1)
    BY <2>1, <2>4
  <2>6. Pipe = <<>>
    BY <1>1, <2>4, AllArrived
  <2>7. Clear'
    BY <1>1, <1>7, <2>4, <2>6, SameLoad DEF Clear
  <2>8. Holding(client.chunk - 1)'
    BY <1>1, <1>6, <1>7, <2>5, HoldingSame
  <2>9. Writing'
    BY <1>6, <1>7, <2>5, <2>7, <2>8 DEF Writing, Acking
  <2> QED BY <1>6, <1>7, <1>8, <1>9, <1>11, <2>9, CalmLate
<1> QED BY <1>4, <1>10, <1>11

-----------------------------------------------------------------------------
(* What is read. *)

\* A session that goes on with its step before flash().
LEMMA EarlyStaysCalm ==
  ASSUME Calm, client.phase \in Early, Stays, faults' = faults, result = "none", result' = result,
         client'.phase = client.phase, client'.step = client.step,
         client'.attempt = client.attempt, Known'
  PROVE  Calm'
<1>1. History /\ ~closed
  BY DEF Calm
<1>2. client.phase \notin {"xprogram", "program"}
  BY DEF Early
<1>3. History'
  BY <1>1, <1>2, HistoryOn
<1>4. ~closed'
  BY <1>1 DEF Stays
<1> QED BY <1>3, <1>4, CalmEarly

\* What reading a byte leads to before flash().
LEMMA EarlyReadIs ==
  ASSUME TypeInv, Where, Cut, Read, client.phase \in {"identify", "settle 1", "compare", "settle 2"}
  PROVE  /\ \/ /\ result' = result /\ client'.phase = client.phase /\ client'.step = client.step
               /\ client'.attempt = client.attempt /\ client'.stage \in ReadStages
               /\ client.stage \notin {"head", "status"} \/ (client.stage = "head" /\ client'.stage = "status")
            \/ Resolves
            \/ \E error : Rejects(error)
         /\ client.stage = "head" /\ Head(buf).t = "INSYNC" =>
              Moves([client EXCEPT !.stage = "status"])
         /\ client.stage = "status" /\ Head(buf).t = "OK" => Resolves
<1>1. /\ ClientType /\ client.stage \in ReadStages
      /\ client.stage = "drain" => Moves(client)
      /\ client.stage = "field" =>
           Moves([client EXCEPT !.stage = "head", !.word = SubSeq(buf, 1, 4)])
      /\ client.stage = "version" => Moves([client EXCEPT !.stage = "refusal"])
                                       \/ Moves([client EXCEPT !.stage = "rest"])
      /\ client.stage = "rest" => Moves([client EXCEPT !.stage = "head"])
                                    \/ Moves(ToStep(client, "drain"))
      /\ client.stage = "refusal" => Resolves
      /\ client.stage = "head" => TakesHead(Head(buf))
      /\ client.stage = "status" => TakesStatus(Head(buf))
  BY ReadIs
<1>2. client.stage \notin {"poll", "percent", "poll status"}
  BY DEF Where, Exchange, Fetch
<1>3. ASSUME NEW g \in ReadStages, Moves([client EXCEPT !.stage = g])
      PROVE  /\ result' = result /\ client'.phase = client.phase /\ client'.step = client.step
             /\ client'.attempt = client.attempt /\ client'.stage = g
  BY <1>1, <1>3, StageMoves, StageKeeps DEF Stages
<1>4. /\ "status" \in ReadStages /\ "head" \in ReadStages /\ "refusal" \in ReadStages
      /\ "rest" \in ReadStages /\ "drain" \in ReadStages
  BY DEF ReadStages
<1>5. client.stage = "head" =>
        \/ Moves([client EXCEPT !.stage = "status"])
        \/ Head(buf).t # "INSYNC" /\ \E error : Rejects(error)
  BY <1>1 DEF TakesHead
<1>6. client.stage = "status" =>
        Resolves \/ (Head(buf).t # "OK" /\ \E error : Rejects(error))
  <2> SUFFICES ASSUME client.stage = "status"
               PROVE Resolves \/ (Head(buf).t # "OK" /\ \E error : Rejects(error))
    OBVIOUS
  <2>1. TakesStatus(Head(buf)) /\ client.phase # "xerase"
    BY <1>1
  <2>2. Resolves \/ (Head(buf).t # "OK" /\ Rejects(Head(buf).t))
    BY <2>1 DEF TakesStatus
  <2> QED BY <2>2
<1>7. CASE client.stage = "drain"
  BY <1>1, <1>4, <1>7 DEF Moves
<1>8. CASE client.stage = "field"
  BY <1>1, <1>4, <1>8 DEF Moves, ClientType
<1>9. CASE client.stage = "version"
  BY <1>1, <1>3, <1>4, <1>9
<1>10. CASE client.stage = "rest"
  <2>1. CASE Moves([client EXCEPT !.stage = "head"])
    BY <1>3, <1>4, <1>10, <2>1
  <2>2. CASE Moves(ToStep(client, "drain"))
    BY <1>10, <2>2 DEF Where, Exchange, Fetch, Rejects, Resends
  <2> QED BY <1>1, <1>10, <2>1, <2>2
<1>11. CASE client.stage = "head"
  BY <1>3, <1>4, <1>5, <1>11
<1>12. CASE client.stage \in {"status", "refusal"}
  BY <1>1, <1>6, <1>12
<1> QED BY <1>1, <1>2, <1>7, <1>8, <1>9, <1>10, <1>11, <1>12 DEF ReadStages

\* A byte that can be read is one that is under way.
LEMMA ReadLeaves ==
  ASSUME FlashInv, MishapInv, Read, Tame'
  PROVE  /\ Calm /\ TypeInv /\ Where /\ Within /\ ClientType /\ Stays /\ faults' = faults
         /\ ~closed /\ ~closed' /\ History
         /\ client.stage \in ReadStages /\ client.stage # "none"
         /\ client.phase \in Phases \ {"guard", "over", "reboot"} /\ result = "none"
         /\ board' = board /\ to' = to /\ setup' = setup
         /\ Pipe # <<>> /\ ~Clear /\ (\A op : ~Going(op))
         /\ client.stage \notin {"field", "rest", "drain"} =>
              Pipe' = Rest(Pipe, 1) /\ Head(buf) = Pipe[1]
         /\ client.stage = "field" => Pipe' = Rest(Pipe, 4) /\ SubSeq(buf, 1, 4) = SubSeq(Pipe, 1, 4)
<1>1. TypeInv /\ Where /\ Within /\ Cut /\ Ended
  BY DEF FlashInv
<1>2. /\ client.stage \in ReadStages /\ client.stage # "none" /\ ClientType /\ Stays /\ buf # <<>>
      /\ client.stage \in {"field", "rest"} => Takes(4)
      /\ client.stage \notin {"field", "rest", "drain"} => Takes(1)
  BY <1>1, ReadIs
<1>3. faults' = faults
  BY DEF Read
<1>4. Calm
  BY <1>3, SameFaults DEF MishapInv
<1>5. Pipe # <<>>
  BY <1>1, <1>2, LinkType
<1>6. client.phase \in Phases \ {"guard", "over", "reboot"}
  BY <1>1, <1>2 DEF Where, ReadStages, ClientType
<1>7. result = "none"
  BY <1>1, <1>6 DEF Ended
<1>8. 1 \in 1..4 /\ 4 \in 1..4
  OBVIOUS
<1>9. client.stage \notin {"field", "rest", "drain"} =>
        Pipe' = Rest(Pipe, 1) /\ Head(buf) = Pipe[1]
  BY <1>1, <1>2, <1>8, LeavesRest
<1>10. client.stage = "field" => Pipe' = Rest(Pipe, 4) /\ SubSeq(buf, 1, 4) = SubSeq(Pipe, 1, 4)
  BY <1>1, <1>2, <1>8, LeavesRest
<1>11. ~Clear /\ (\A op : ~Going(op))
  BY <1>5 DEF Clear, Going
<1>12. board' = board /\ to' = to /\ setup' = setup /\ closed' = closed
  BY <1>2 DEF Stays
<1>13. ~closed /\ History
  BY <1>4 DEF Calm
<1> QED BY <1>1, <1>2, <1>3, <1>4, <1>5, <1>6, <1>7, <1>9, <1>10, <1>11, <1>12, <1>13

\* An ack of which a byte is read.
LEMMA AckRead ==
  ASSUME Pipe' = Rest(Pipe, 1), Head(buf) = Pipe[1], NEW x \in Names
  PROVE  /\ Came(Ack(x)) /\ to' = to =>
              Came(<<Byte(x)>>)' /\ Head(buf).t = "INSYNC"
         /\ Came(<<Byte(x)>>) /\ to' = to => Clear' /\ Head(buf).t = x
<1>1. /\ Rest(Ack(x), 1) = <<Byte(x)>> /\ Rest(<<Byte(x)>>, 1) = <<>>
      /\ Ack(x)[1] = Byte("INSYNC") /\ <<Byte(x)>>[1] = Byte(x)
  BY RestOfAck
<1>2. Byte("INSYNC").t = "INSYNC" /\ Byte(x).t = x
  BY DEF Byte
<1>3. ASSUME Came(Ack(x)), to' = to PROVE Came(<<Byte(x)>>)' /\ Head(buf).t = "INSYNC"
  BY <1>1, <1>2, <1>3 DEF Came
<1>4. ASSUME Came(<<Byte(x)>>), to' = to PROVE Clear' /\ Head(buf).t = x
  BY <1>1, <1>2, <1>4 DEF Came, Clear
<1> QED BY <1>3, <1>4

\* What is read before flash().
LEMMA ReadEarlyCalm ==
  ASSUME FlashInv, MishapInv, Read, Tame', client.phase \in Early
  PROVE  Calm'
<1>1. /\ Calm /\ TypeInv /\ Where /\ ClientType /\ Stays /\ faults' = faults
      /\ client.stage \in ReadStages /\ client.stage # "none" /\ result = "none"
      /\ board' = board /\ to' = to
      /\ ~Clear /\ (\A op : ~Going(op)) /\ Pipe # <<>>
      /\ client.stage \notin {"field", "rest", "drain"} =>
           Pipe' = Rest(Pipe, 1) /\ Head(buf) = Pipe[1]
      /\ client.phase # "guard"
  BY ReadLeaves
<1>2. Known /\ client.phase \in {"identify", "settle 1", "compare", "settle 2"} /\ Cut /\ Settled
  BY <1>1 DEF Calm, Early, FlashInv
<1> DEFINE On == /\ result' = result /\ client'.phase = client.phase /\ client'.step = client.step
                 /\ client'.attempt = client.attempt /\ client'.stage \in ReadStages
<1>3. /\ \/ On /\ (client.stage \notin {"head", "status"} \/ (client.stage = "head" /\ client'.stage = "status"))
         \/ Resolves
         \/ \E error : Rejects(error)
      /\ client.stage = "head" /\ Head(buf).t = "INSYNC" =>
           Moves([client EXCEPT !.stage = "status"])
      /\ client.stage = "status" /\ Head(buf).t = "OK" => Resolves
  BY <1>1, <1>2, EarlyReadIs
<1>4. Moves([client EXCEPT !.stage = "status"]) => On /\ client'.stage = "status"
  BY <1>1, StageMoves, StageKeeps DEF Stages, ReadStages
<1>5. ASSUME On, Known' PROVE Calm'
  BY <1>1, <1>5, EarlyStaysCalm
<1>6. "OK" \in Names
  BY DEF Names
<1>7. CASE client.phase = "identify" /\ client.step = "sync"
  <2>1. Acking("GET_SYNC") /\ client.stage \in {"head", "status"}
    BY <1>1, <1>2, <1>7 DEF Known, Where, Exchange, ReadStages
  <2>2. CASE client.stage = "head"
    <3>1. Came(Ack("OK"))
      BY <1>1, <2>1, <2>2 DEF Acking
    <3>2. Came(<<Byte("OK")>>)' /\ Head(buf).t = "INSYNC"
      BY <1>1, <1>6, <2>2, <3>1, AckRead
    <3>3. On /\ client'.stage = "status"
      BY <1>3, <1>4, <2>2, <3>2
    <3>4. Known'
      BY <1>7, <3>2, <3>3 DEF Known, Acking
    <3> QED BY <1>5, <3>3, <3>4
  <2>3. CASE client.stage = "status"
    <3>1. Came(<<Byte("OK")>>)
      BY <2>1, <2>3 DEF Acking
    <3>2. Clear' /\ Head(buf).t = "OK"
      BY <1>1, <1>6, <2>3, <3>1, AckRead
    <3>3. Resolves
      BY <1>3, <2>3, <3>2
    <3> QED BY <1>1, <1>7, <3>2, <3>3, EarlyOnCalm
  <2> QED BY <2>1, <2>2, <2>3
<1>8. CASE ~(client.phase = "identify" /\ client.step = "sync")
  <2>1. client.step # "sync"
    BY <1>1, <1>2, <1>8 DEF Where
  <2>2. board.armed /\ (client.step = "info" /\ client.stage = "field" => to = <<>>)
    <3>1. CASE client.phase = "identify" /\ client.step = "info"
      <4>1. client.stage \in {"field", "head", "status"}
        BY <1>1, <3>1 DEF Where, Fetch, Exchange, ReadStages
      <4> QED BY <1>1, <1>2, <3>1, <4>1 DEF Known
    <3>2. CASE ~(client.phase = "identify" /\ client.step = "info")
      BY <1>1, <1>2, <1>8, <3>2 DEF Where, Known
    <3> QED BY <3>1, <3>2
  <2>3. ASSUME On, client.step # "info" \/ client'.stage # "field" PROVE Calm'
    <3>1. client'.stage # "send"
      BY <2>3 DEF ReadStages
    <3>2. Known'
      BY <1>1, <1>2, <2>1, <2>2, <2>3, <3>1 DEF Known
    <3> QED BY <1>5, <2>3, <3>2
  <2>4. CASE client.phase = "settle 2" /\ client.stage = "head"
    <3>1. to = <<>> /\ Pipe \in {Ack("OK"), <<Byte("INSYNC")>>}
      BY <1>1, <1>2, <2>4 DEF Where, Settled
    <3>2. Head(buf).t = "INSYNC"
      <4>1. Ack("OK")[1] = Byte("INSYNC") /\ <<Byte("INSYNC")>>[1] = Byte("INSYNC")
        BY <1>6, RestOfAck
      <4>2. Byte("INSYNC").t = "INSYNC"
        BY DEF Byte
      <4> QED BY <1>1, <2>4, <3>1, <4>1, <4>2
    <3>3. On
      BY <1>3, <1>4, <2>4, <3>2
    <3>4. client.step # "info"
      BY <1>1, <2>4 DEF Where
    <3> QED BY <2>3, <3>3, <3>4
  <2>5. CASE client.phase = "settle 2" /\ client.stage = "status"
    <3>1. to = <<>> /\ Pipe = <<Byte("OK")>>
      BY <1>1, <1>2, <2>5 DEF Where, Settled
    <3>2. Clear' /\ Head(buf).t = "OK"
      BY <1>1, <1>6, <2>5, <3>1, AckRead DEF Came
    <3>3. Resolves
      BY <1>3, <2>5, <3>2
    <3> QED BY <1>1, <2>1, <2>2, <3>2, <3>3, EarlyOnCalm
  <2>6. CASE client.phase = "settle 2" /\ client.stage \notin {"head", "status"}
    <3>1. client.stage = "drain" /\ client.step # "info"
      BY <1>1, <2>6 DEF Where, Exchange, ReadStages
    <3>2. Moves(client)
      BY <1>1, <1>2, <3>1, ReadIs
    <3>3. On
      BY <1>1, <3>1, <3>2 DEF Moves
    <3> QED BY <2>3, <3>1, <3>3
  <2>7. CASE client.phase # "settle 2"
    <3>1. CASE Resolves \/ \E error : Rejects(error)
      BY <1>1, <2>1, <2>2, <2>7, <3>1, EarlyOnCalm
    <3>2. CASE On /\ (client.stage \notin {"head", "status"} \/ (client.stage = "head" /\ client'.stage = "status"))
      <4>1. CASE client.step = "info" /\ client.stage = "field"
        <5>1. Moves([client EXCEPT !.stage = "head", !.word = SubSeq(buf, 1, 4)])
          BY <1>1, <1>2, <4>1, ReadIs
        <5>2. client'.stage = "head"
          BY <1>1, <5>1 DEF Moves, ClientType
        <5> QED BY <2>3, <3>2, <5>2
      <4>2. CASE client.step # "info"
        BY <2>3, <3>2, <4>2
      <4>3. CASE client.step = "info" /\ client.stage # "field"
        <5>1. client.stage \in {"head", "status"}
          BY <1>1, <1>2, <4>3 DEF Where, Fetch, Exchange, ReadStages
        <5>2. client'.stage # "field"
          BY <3>2, <5>1
        <5> QED BY <2>3, <3>2, <5>2
      <4> QED BY <4>1, <4>2, <4>3
    <3> QED BY <1>3, <3>1, <3>2
  <2> QED BY <2>4, <2>5, <2>6, <2>7
<1> QED BY <1>7, <1>8

\* A wait for the end of an erase takes the next byte for what it is.
LEMMA PollReads ==
  ASSUME TypeInv, Cut, Read
  PROVE  /\ client.stage = "poll" /\ Head(buf).t = "INSYNC" =>
              Moves([client EXCEPT !.stage = "poll status"])
         /\ client.stage = "poll status" /\ Head(buf).t = "OK" => Resolves
         /\ client.stage = "head" /\ Head(buf).t = "INSYNC" =>
              Moves([client EXCEPT !.stage = "status"])
         /\ client.stage = "status" /\ Head(buf).t = "OK" /\ client.phase = "xerase" =>
              Moves([client EXCEPT !.stage = "percent"])
         /\ client.stage = "percent" =>
              Moves([client EXCEPT !.stage = IF Head(buf).t = "90%" THEN "poll" ELSE "percent"])
<1>1. /\ client.stage = "poll" => Polls(Head(buf))
      /\ client.stage = "poll status" => PollsStatus(Head(buf))
      /\ client.stage = "head" => TakesHead(Head(buf))
      /\ client.stage = "status" => TakesStatus(Head(buf))
      /\ client.stage = "percent" =>
           Moves([client EXCEPT !.stage = IF Head(buf).t = "90%" THEN "poll" ELSE "percent"])
  BY DEF Read
<1>2. client.stage = "poll" /\ Head(buf).t = "INSYNC" =>
        Moves([client EXCEPT !.stage = "poll status"])
  BY <1>1 DEF Polls
<1>3. client.stage = "poll status" /\ Head(buf).t = "OK" => Resolves
  BY <1>1 DEF PollsStatus
<1>4. client.stage = "head" /\ Head(buf).t = "INSYNC" =>
        Moves([client EXCEPT !.stage = "status"])
  BY <1>1 DEF TakesHead
<1>5. client.stage = "status" /\ Head(buf).t = "OK" /\ client.phase = "xerase" =>
        Moves([client EXCEPT !.stage = "percent"])
  BY <1>1 DEF TakesStatus
<1> QED BY <1>1, <1>2, <1>3, <1>4, <1>5

\* An erased memory is written from its first chunk on.
LEMMA StartsFrames ==
  ASSUME FlashInv, MishapInv, Read, Tame', Clear', board.mode = "idle", Resolves,
         \/ client.phase = "xerase" /\ board.ext = <<>>
         \/ client.phase = "erase" /\ board.flash = <<>>
  PROVE  Calm'
<1>1. /\ Calm /\ TypeInv /\ Where /\ ClientType /\ faults' = faults /\ ~closed' /\ History
      /\ client.stage # "none" /\ result = "none" /\ board' = board
  BY ReadLeaves
<1>2. client.step = "erase" /\ board.armed
  BY <1>1 DEF Where, Calm, Known
<1>3. Advances
  BY <1>1, <1>2, ResolvesIs
<1> DEFINE p == IF client.phase = "xerase" THEN "xprogram" ELSE "program"
<1>4. Moves(ToPhase(client, p))
  BY <1>3, AdvancesIs
<1>5. p \in Phases \ {"guard", "over"} /\ 1 \in {1, 2} /\ p \in {"xprogram", "program"}
      /\ (p = "xprogram" => client.phase = "xerase") /\ (p = "program" => client.phase = "erase")
  BY DEF Phases
<1> HIDE DEF p
<1>6. /\ result' = result /\ client'.phase = p /\ client'.step = First(p)
      /\ client'.stage = (IF p \in {"settle 1", "settle 2"} THEN "drain" ELSE "send")
      /\ client'.chunk = 1 /\ client'.attempt = client.attempt
  BY <1>1, <1>4, <1>5, PhaseMoves, PhaseKeeps
<1>7. client'.step = "frame" /\ client'.stage = "send"
  BY <1>5, <1>6, FirstIs
<1>8. History'
  BY <1>1, <1>5, <1>6, <1>7, HistoryNext DEF Early
<1>9. Holding(client.chunk - 1)' /\ Holding(0)'
  <2>1. 0 \in Nat /\ Numbered(0) = <<>> /\ Len(<<>>) = 0
    BY NumberedNext
  <2>2. 1 - 1 = 0 /\ \A t \in {0, 1} : 0 <= 0 + t
    OBVIOUS
  <2>3. Twice' \in {0, 1}
    BY DEF Twice
  <2>4. CASE p = "xprogram"
    BY <1>1, <1>5, <1>6, <2>1, <2>2, <2>4 DEF Holding
  <2>5. CASE p = "program"
    BY <1>1, <1>5, <1>6, <2>1, <2>2, <2>3, <2>5 DEF Holding
  <2> QED BY <1>5, <2>4, <2>5
<1>10. Writing'
  BY <1>1, <1>5, <1>6, <1>7, <1>9 DEF Writing
<1> QED BY <1>1, <1>2, <1>5, <1>6, <1>8, <1>10, CalmLate

\* The reply to an erase, byte by byte.
LEMMA ReadEraseCalm ==
  ASSUME FlashInv, MishapInv, Read, Tame', client.phase \in {"xerase", "erase"}
  PROVE  Calm'
<1>1. /\ Calm /\ TypeInv /\ Where /\ Cut /\ ClientType /\ faults' = faults /\ ~closed' /\ History
      /\ client.stage \in ReadStages /\ result = "none" /\ board' = board /\ to' = to
      /\ (\A op : ~Going(op))
      /\ client.stage \notin {"field", "rest", "drain"} =>
           Pipe' = Rest(Pipe, 1) /\ Head(buf) = Pipe[1]
  BY ReadLeaves DEF FlashInv
<1>2. board.mode = "idle" /\ board.armed
  BY <1>1 DEF FlashInv, ExtErase, Erase, Calm, Known
<1>3. ASSUME NEW g \in ReadStages, Moves([client EXCEPT !.stage = g])
      PROVE  /\ result' = "none" /\ client'.phase = client.phase /\ client'.stage = g /\ History'
             /\ client'.step = client.step /\ client'.attempt = client.attempt
  BY <1>1, <1>3, StageMoves, StageKeeps, HistoryOn DEF Stages
<1>4. /\ client.stage = "poll" /\ Head(buf).t = "INSYNC" =>
           Moves([client EXCEPT !.stage = "poll status"])
      /\ client.stage = "poll status" /\ Head(buf).t = "OK" => Resolves
      /\ client.stage = "head" /\ Head(buf).t = "INSYNC" =>
           Moves([client EXCEPT !.stage = "status"])
      /\ client.stage = "status" /\ Head(buf).t = "OK" /\ client.phase = "xerase" =>
           Moves([client EXCEPT !.stage = "percent"])
      /\ client.stage = "percent" =>
           Moves([client EXCEPT !.stage = IF Head(buf).t = "90%" THEN "poll" ELSE "percent"])
  BY <1>1, PollReads
<1>5. \A x : Byte(x).t = x
  BY DEF Byte
<1>6. /\ "status" \in ReadStages /\ "percent" \in ReadStages /\ "poll" \in ReadStages
      /\ "poll status" \in ReadStages
  BY DEF ReadStages
<1>7. CASE client.phase = "xerase"
  <2>1. ExtErasing /\ client.stage \in {"head", "status", "percent", "poll", "poll status"}
    BY <1>1, <1>7 DEF Calm, Where, Exchange, ReadStages
  <2>2. board.ext = <<>>
    BY <1>1, <1>7, <2>1 DEF ExtErasing
  <2>3. ASSUME NEW g \in {"status", "percent", "poll", "poll status"},
               Moves([client EXCEPT !.stage = g]), ExtErasing'
        PROVE  Calm'
    <3>1. /\ result' = "none" /\ client'.phase = "xerase" /\ History'
      BY <1>3, <1>6, <1>7, <2>3
    <3> QED BY <1>1, <1>2, <2>3, <3>1, CalmLate
  <2>4. CASE client.stage = "head"
    <3>1. Pipe = Rest(EraseReply, 0) /\ to = <<>>
      BY <1>1, <1>7, <2>1, <2>4, RestOfErase DEF ExtErasing, Came
    <3>2. Pipe' = Rest(EraseReply, 1) /\ Head(buf).t = "INSYNC"
      BY <1>1, <1>5, <2>4, <3>1, RestOfErase
    <3>3. Moves([client EXCEPT !.stage = "status"])
      BY <1>4, <2>4, <3>2
    <3>4. client'.stage = "status"
      BY <1>3, <1>6, <3>3
    <3>5. ExtErasing'
      BY <1>1, <2>2, <3>1, <3>2, <3>4 DEF ExtErasing, Came
    <3> QED BY <2>3, <3>3, <3>5
  <2>5. CASE client.stage = "status"
    <3>1. Pipe = Rest(EraseReply, 1) /\ to = <<>>
      BY <1>7, <2>1, <2>5 DEF ExtErasing, Came
    <3>2. Pipe' = Rest(EraseReply, 2) /\ Head(buf).t = "OK"
      BY <1>1, <1>5, <2>5, <3>1, RestOfErase
    <3>3. Moves([client EXCEPT !.stage = "percent"])
      BY <1>4, <1>7, <2>5, <3>2
    <3>4. client'.stage = "percent"
      BY <1>3, <1>6, <3>3
    <3>5. ExtErasing'
      BY <1>1, <2>2, <3>1, <3>2, <3>4 DEF ExtErasing, Came
    <3> QED BY <2>3, <3>3, <3>5
  <2>6. CASE client.stage = "percent" /\ Pipe = Rest(EraseReply, 2)
    <3>1. to = <<>>
      BY <1>7, <2>1, <2>6 DEF ExtErasing, Came
    <3>2. Pipe' = Rest(EraseReply, 3) /\ Head(buf).t = "50%"
      BY <1>1, <1>5, <2>6, <3>1, RestOfErase
    <3>3. Moves([client EXCEPT !.stage = "percent"])
      BY <1>4, <2>6, <3>2
    <3>4. client'.stage = "percent"
      BY <1>3, <1>6, <3>3
    <3>5. ExtErasing'
      BY <1>1, <2>2, <3>1, <3>2, <3>4 DEF ExtErasing, Came
    <3> QED BY <2>3, <3>3, <3>5
  <2>7. CASE client.stage = "percent" /\ Pipe # Rest(EraseReply, 2)
    <3>1. Pipe = Rest(EraseReply, 3) /\ to = <<>>
      BY <1>7, <2>1, <2>7 DEF ExtErasing, Came
    <3>2. Pipe' = Rest(EraseReply, 4) /\ Head(buf).t = "90%"
      BY <1>1, <1>5, <2>7, <3>1, RestOfErase
    <3>3. Moves([client EXCEPT !.stage = "poll"])
      BY <1>4, <2>7, <3>2
    <3>4. client'.stage = "poll"
      BY <1>3, <1>6, <3>3
    <3>5. ExtErasing'
      BY <1>1, <2>2, <3>1, <3>2, <3>4 DEF ExtErasing, Came
    <3> QED BY <2>3, <3>3, <3>5
  <2>8. CASE client.stage = "poll"
    <3>1. Pipe = Rest(EraseReply, 4) /\ to = <<>>
      BY <1>7, <2>1, <2>8 DEF ExtErasing, Came
    <3>2. Pipe' = Rest(EraseReply, 5) /\ Head(buf).t = "INSYNC"
      BY <1>1, <1>5, <2>8, <3>1, RestOfErase
    <3>3. Moves([client EXCEPT !.stage = "poll status"])
      BY <1>4, <2>8, <3>2
    <3>4. client'.stage = "poll status"
      BY <1>3, <1>6, <3>3
    <3>5. ExtErasing'
      BY <1>1, <2>2, <3>1, <3>2, <3>4 DEF ExtErasing, Came
    <3> QED BY <2>3, <3>3, <3>5
  <2>9. CASE client.stage = "poll status"
    <3>1. Pipe = Rest(EraseReply, 5) /\ to = <<>>
      BY <1>7, <2>1, <2>9 DEF ExtErasing, Came
    <3>2. Pipe' = <<>> /\ Head(buf).t = "OK"
      BY <1>1, <1>5, <2>9, <3>1, RestOfErase
    <3>3. Clear' /\ Resolves
      BY <1>1, <1>4, <2>9, <3>1, <3>2 DEF Clear
    <3> QED BY <1>2, <1>7, <2>2, <3>3, StartsFrames
  <2> QED BY <2>1, <2>4, <2>5, <2>6, <2>7, <2>8, <2>9
<1>8. CASE client.phase = "erase"
  <2>1. ChipErasing /\ client.stage \in {"poll", "poll status"}
    BY <1>1, <1>8 DEF Calm, Where, ReadStages
  <2>2. board.flash = <<>> /\ "OK" \in Names
    BY <1>1, <1>8, <2>1 DEF ChipErasing, Names
  <2>3. CASE client.stage = "poll"
    <3>1. Came(Ack("OK"))
      BY <1>1, <1>8, <2>1, <2>3 DEF ChipErasing
    <3>2. Came(<<Byte("OK")>>)' /\ Head(buf).t = "INSYNC"
      BY <1>1, <2>2, <2>3, <3>1, AckRead
    <3>3. Moves([client EXCEPT !.stage = "poll status"])
      BY <1>4, <2>3, <3>2
    <3>4. client'.stage = "poll status" /\ result' = "none" /\ client'.phase = "erase" /\ History'
      BY <1>3, <1>6, <1>8, <3>3
    <3>5. ChipErasing'
      BY <1>1, <2>2, <3>2, <3>4 DEF ChipErasing
    <3> QED BY <1>1, <1>2, <3>4, <3>5, CalmLate
  <2>4. CASE client.stage = "poll status"
    <3>1. Came(<<Byte("OK")>>)
      BY <1>8, <2>1, <2>4 DEF ChipErasing
    <3>2. Clear' /\ Head(buf).t = "OK"
      BY <1>1, <2>2, <2>4, <3>1, AckRead
    <3>3. Resolves
      BY <1>4, <2>4, <3>2
    <3> QED BY <1>2, <1>8, <2>2, <3>2, <3>3, StartsFrames
  <2> QED BY <2>1, <2>3, <2>4
<1> QED BY <1>7, <1>8

\* The next chunk.
LEMMA ChunkMoves ==
  ASSUME ClientType, NEW s \in {"frame", "read"},
         Moves([ToStep(client, s) EXCEPT !.chunk = @ + 1])
  PROVE  /\ result' = result /\ client'.phase = client.phase /\ client'.step = s
         /\ client'.stage = "send" /\ client'.chunk = client.chunk + 1
         /\ client'.attempt = client.attempt
BY DEF ClientType, Moves, ToStep, Steps, Stages

\* Nothing is left after the last.
LEMMA LastOf == \A n, m \in Int : n <= m /\ ~(n < m) => n = m
OBVIOUS

\* The number of the chunk before.
LEMMA OneBack == \A n \in Int : (n + 1) - 1 = n
OBVIOUS

\* The revisions that have GET_CRC.
LEMMA AboveTwo == \A r \in 2..5 : r # 2 => r > 2
OBVIOUS

\* A chunk that is confirmed is followed by the next, or by the verify.
LEMMA FramesOn ==
  ASSUME FlashInv, MishapInv, Read, Tame', Clear', client.phase \in {"xprogram", "program"},
         board.mode = "idle", Holding(client.chunk), client.step \in {"frame", "resend"}, Resolves
  PROVE  Calm'
<1>1. /\ Calm /\ TypeInv /\ Where /\ Within /\ ClientType /\ faults' = faults /\ ~closed' /\ History
      /\ client.stage # "none" /\ result = "none" /\ board' = board /\ setup' = setup
  BY ReadLeaves
<1>2. NextChunk("frame") /\ board.armed
  BY <1>1, ResolvesIs DEF Calm, Known
<1>3. /\ client.chunk \in Int /\ setup.ext \in Int /\ Chunks \in Int /\ setup.rev \in 2..5
  BY <1>1, Sizes, ExtImageIs DEF TypeInv
<1>4. /\ client.phase = "xprogram" => client.chunk <= setup.ext
      /\ client.phase = "program" => client.chunk <= Chunks
      /\ client.phase = "xprogram" => Total = setup.ext
      /\ client.phase = "program" => Total = Chunks
  BY <1>1 DEF Within, Total
<1>5. CASE client.chunk < Total
  <2>1. Moves([ToStep(client, "frame") EXCEPT !.chunk = @ + 1])
    BY <1>2, <1>5 DEF NextChunk
  <2>2. /\ result' = "none" /\ client'.phase = client.phase /\ client'.step = "frame"
        /\ client'.stage = "send" /\ client'.chunk = client.chunk + 1
        /\ client'.attempt = client.attempt
    BY <1>1, <2>1, ChunkMoves
  <2>3. History'
    BY <1>1, <2>2, HistoryOn
  <2>4. client'.chunk - 1 = client.chunk
    BY <1>3, <2>2, OneBack
  <2>6. Holding(client.chunk - 1)'
    BY <1>1, <2>2, <2>4, SameFaults DEF Holding
  <2>7. Writing'
    BY <1>1, <2>2, <2>6 DEF Writing
  <2> QED BY <1>1, <1>2, <2>2, <2>3, <2>7, CalmLate
<1>6. CASE ~(client.chunk < Total)
  <2>1. Advances
    BY <1>2, <1>6 DEF NextChunk
  <2>2. Numbered(setup.ext) = ExtImage /\ Numbered(Chunks) = Image
    BY DEF Numbered, ExtImage, Image
  <2>3. CASE client.phase = "xprogram"
    <3>1. Moves(ToPhase(client, "xverify"))
      BY <2>1, <2>3, AdvancesIs
    <3>2. "xverify" \in Phases \ {"guard", "over"} /\ 1 \in {1, 2}
      BY DEF Phases
    <3>3. /\ result' = "none" /\ client'.phase = "xverify" /\ client'.step = "crc"
          /\ client'.stage = "send" /\ client'.attempt = client.attempt
      BY <1>1, <3>1, <3>2, PhaseMoves, PhaseKeeps, FirstIs
    <3>4. History'
      BY <1>1, <2>3, <3>3, HistoryNext DEF Early
    <3>5. client.chunk = setup.ext
      BY <1>3, <1>4, <1>6, <2>3, LastOf
    <3>6. board.ext = ExtImage
      BY <2>2, <2>3, <3>5 DEF Holding
    <3>7. ExtImage' = ExtImage
      BY <1>1 DEF ExtImage
    <3>8. Checking'
      BY <1>1, <3>3, <3>6, <3>7 DEF Checking
    <3> QED BY <1>1, <1>2, <3>3, <3>4, <3>8, CalmLate
  <2>4. CASE client.phase = "program"
    <3>1. Moves(ToPhase(client, "verify"))
      BY <2>1, <2>4, AdvancesIs
    <3>2. "verify" \in Phases \ {"guard", "over"} /\ 1 \in {1, 2}
      BY DEF Phases
    <3>3. /\ result' = "none" /\ client'.phase = "verify" /\ client'.step = First("verify")
          /\ client'.stage = "send" /\ client'.attempt = client.attempt /\ client'.chunk = 1
      BY <1>1, <3>1, <3>2, PhaseMoves, PhaseKeeps
    <3>4. History'
      BY <1>1, <2>4, <3>3, HistoryNext DEF Early
    <3>5. client.chunk = Chunks
      BY <1>3, <1>4, <1>6, <2>4, LastOf
    <3>6. Dirty \/ board.flash = Image
      BY <2>2, <2>4, <3>5 DEF Holding
    <3>7. (Dirty' <=> Dirty)
      BY <1>1, <3>3, SameFaults
    <3>8. First("verify") = IF setup.rev = 2 THEN "rewind" ELSE "crc"
      BY DEF First
    <3>9. client'.step \in {"rewind", "crc"} /\ (client'.step = "crc" => setup'.rev > 2)
      BY <1>1, <1>3, <3>3, <3>8, AboveTwo
    <3>10. Acking("CHIP_VERIFY")'
      BY <3>3 DEF Acking
    <3>11. Checking'
      BY <1>1, <3>3, <3>6, <3>7, <3>9, <3>10 DEF Checking
    <3> QED BY <1>1, <1>2, <3>3, <3>4, <3>11, CalmLate
  <2> QED BY <2>3, <2>4
<1> QED BY <1>5, <1>6

\* The reply to a chunk, and to the sync of one that is sent again.
LEMMA ReadWriteCalm ==
  ASSUME FlashInv, MishapInv, Read, Tame', client.phase \in {"xprogram", "program"}
  PROVE  Calm'
<1>1. /\ Calm /\ TypeInv /\ Where /\ Within /\ ClientType /\ faults' = faults /\ ~closed /\ ~closed'
      /\ History /\ Stays
      /\ client.stage \in ReadStages /\ client.stage # "none" /\ result = "none"
      /\ board' = board /\ to' = to /\ ~Clear /\ (\A op : ~Going(op)) /\ Pipe # <<>>
      /\ client.stage \notin {"field", "rest", "drain"} =>
           Pipe' = Rest(Pipe, 1) /\ Head(buf) = Pipe[1]
  BY ReadLeaves
<1>2. Writing /\ board.armed /\ Cut
  BY <1>1 DEF Calm, Known, FlashInv
<1>3. client.step \in {"frame", "resync", "resend", "drain"}
      /\ (client.step = "drain" => client.stage = "drain")
      /\ (client.step # "drain" => client.stage \in {"head", "status"})
  BY <1>1 DEF Where, Exchange, ReadStages
<1>4. "OK" \in Names /\ "INVALID" \in Names
  BY DEF Names
<1>5. /\ client.stage = "head" /\ Head(buf).t = "INSYNC" =>
           Moves([client EXCEPT !.stage = "status"])
      /\ client.stage = "status" /\ Head(buf).t = "OK" => Resolves
      /\ client.stage = "status" /\ Head(buf).t = "INVALID" => Rejects("INVALID")
  <2>1. /\ client.stage = "head" => TakesHead(Head(buf))
        /\ client.stage = "status" => TakesStatus(Head(buf))
    BY <1>1, <1>2, ReadIs
  <2>2. client.stage = "head" /\ Head(buf).t = "INSYNC" =>
           Moves([client EXCEPT !.stage = "status"])
    BY <2>1 DEF TakesHead
  <2>3. client.stage = "status" /\ Head(buf).t = "OK" => Resolves
    BY <2>1 DEF TakesStatus
  <2>4. client.stage = "status" /\ Head(buf).t = "INVALID" => Rejects("INVALID")
    <3> SUFFICES ASSUME client.stage = "status", Head(buf).t = "INVALID" PROVE Rejects("INVALID")
      OBVIOUS
    <3>1. Rejects(Head(buf).t)
      BY <2>1 DEF TakesStatus
    <3> QED BY <3>1
  <2> QED BY <2>2, <2>3, <2>4
<1>6. ASSUME Moves([client EXCEPT !.stage = "status"])
      PROVE  /\ result' = "none" /\ client'.phase = client.phase /\ client'.step = client.step
             /\ client'.stage = "status" /\ client'.attempt = client.attempt
             /\ client'.chunk = client.chunk /\ History'
             /\ (Holding(client.chunk) => Holding(client.chunk)')
             /\ (Holding(client.chunk - 1) => Holding(client.chunk - 1)')
             /\ (Spent(client.phase) => Spent(client.phase)')
  <2>1. "status" \in Stages
    BY DEF Stages, ReadStages
  <2>2. /\ result' = "none" /\ client'.phase = client.phase /\ client'.step = client.step
        /\ client'.stage = "status" /\ client'.attempt = client.attempt
        /\ client'.chunk = client.chunk
    BY <1>1, <1>6, <2>1, StageMoves, StageKeeps
  <2>3. (Dirty' <=> Dirty) /\ Twice' = Twice /\ (\A p : Spent(p)' <=> Spent(p))
    BY <1>1, <2>2, SameFaults
  <2>4. Holding(client.chunk) => Holding(client.chunk)'
    BY <1>1, <2>2, <2>3 DEF Holding
  <2>5. Holding(client.chunk - 1) => Holding(client.chunk - 1)'
    BY <1>1, <2>2, <2>3 DEF Holding
  <2>6. Spent(client.phase) => Spent(client.phase)'
    BY <2>2, <2>3
  <2>7. History'
    BY <1>1, <2>2, HistoryOn
  <2> QED BY <2>2, <2>4, <2>5, <2>6, <2>7
<1>7. CASE client.step = "drain"
  <2>1. Moves(client)
    BY <1>1, <1>2, <1>3, <1>7, ReadIs
  <2>2. client' = client /\ result' = "none"
    BY <1>1, <2>1 DEF Moves
  <2>3. History'
    BY <1>1, <2>2, HistoryOn
  <2>4. (\A n : Holding(n)' <=> Holding(n)) /\ (Overdue' <=> Overdue) /\ Chunk' = Chunk
    BY <1>1, <2>2, HoldingSame
  <2>5. Holding(client.chunk - 1) => Holding(client.chunk - 1)'
    BY <1>1, <2>2, SameFaults DEF Holding
  <2>6. \/ to = <<>> /\ board.mode = "idle" /\ Holding(client.chunk - 1)
        \/ Len(to) = 1 /\ to[1].op = "FILLER" /\ Holding(client.chunk - 1)
        \/ Len(to) = 2 /\ to[1] = Chunk /\ to[2].op = "FILLER" /\ Overdue
    BY <1>2, <1>7 DEF Writing
  <2>7. Writing'
    BY <1>1, <1>7, <2>2, <2>4, <2>5, <2>6 DEF Writing
  <2> QED BY <1>1, <1>2, <2>2, <2>3, <2>7, CalmLate
<1>8. CASE client.stage = "head"
  <2>1. \/ Came(Ack("OK")) /\ board.mode = "idle" /\ Holding(client.chunk)
             /\ client.step \in {"frame", "resend"}
        \/ Came(Ack("INVALID")) /\ board.mode = "idle" /\ client.step = "frame"
             /\ Spent(client.phase) /\ Holding(client.chunk - 1)
        \/ Came(Ack("OK")) /\ board.mode = "idle" /\ client.step = "resync" /\ Holding(client.chunk - 1)
    <3>1. CASE client.step \in {"frame", "resend"}
      BY <1>1, <1>2, <1>8, <3>1 DEF Writing
    <3>2. CASE client.step = "resync"
      BY <1>1, <1>2, <1>8, <3>2 DEF Writing, Acking
    <3> QED BY <1>3, <1>8, <3>1, <3>2
  <2>2. /\ Head(buf).t = "INSYNC"
        /\ Came(Ack("OK")) => Came(<<Byte("OK")>>)'
        /\ Came(Ack("INVALID")) => Came(<<Byte("INVALID")>>)'
    BY <1>1, <1>4, <1>8, <2>1, AckRead
  <2>3. Moves([client EXCEPT !.stage = "status"])
    BY <1>5, <1>8, <2>2
  <2>4. Acking("GET_SYNC")' \/ ~Came(Ack("OK"))
    BY <1>6, <2>2, <2>3 DEF Acking
  <2>5. Writing'
    <3>1. CASE Came(Ack("OK")) /\ board.mode = "idle" /\ Holding(client.chunk)
             /\ client.step \in {"frame", "resend"}
      BY <1>1, <1>6, <2>2, <2>3, <3>1 DEF Writing
    <3>2. CASE Came(Ack("INVALID")) /\ board.mode = "idle" /\ client.step = "frame"
             /\ Spent(client.phase) /\ Holding(client.chunk - 1)
      BY <1>1, <1>6, <2>2, <2>3, <3>2 DEF Writing
    <3>3. CASE Came(Ack("OK")) /\ board.mode = "idle" /\ client.step = "resync" /\ Holding(client.chunk - 1)
      BY <1>1, <1>6, <2>2, <2>3, <2>4, <3>3 DEF Writing
    <3> QED BY <2>1, <3>1, <3>2, <3>3
  <2> QED BY <1>1, <1>2, <1>6, <2>3, <2>5, CalmLate
<1>9. CASE client.stage = "status" /\ client.step = "resync"
  <2>1. Came(<<Byte("OK")>>) /\ board.mode = "idle" /\ Holding(client.chunk - 1)
    BY <1>2, <1>9 DEF Writing, Acking
  <2>2. Clear' /\ Head(buf).t = "OK"
    BY <1>1, <1>4, <1>9, <2>1, AckRead
  <2>3. Moves(ToStep(client, "resend"))
    BY <1>1, <1>5, <1>9, <2>2, ResolvesIs
  <2>4. "resend" \in Steps /\ Spent(client.phase)
    BY <1>1, <1>9 DEF Steps, History
  <2>5. /\ result' = "none" /\ client'.phase = client.phase /\ client'.step = "resend"
        /\ client'.stage = "send" /\ client'.chunk = client.chunk /\ client'.attempt = client.attempt
    BY <1>1, <2>3, <2>4, StepMoves, StepKeeps
  <2>6. History'
    BY <1>1, <2>4, <2>5, HistoryOn
  <2>7. Holding(client.chunk - 1)'
    BY <1>1, <2>1, <2>5, SameFaults DEF Holding
  <2>8. Writing'
    BY <1>1, <2>1, <2>2, <2>5, <2>7 DEF Writing
  <2> QED BY <1>1, <1>2, <2>5, <2>6, <2>8, CalmLate
<1>10. CASE client.stage = "status" /\ client.step \in {"frame", "resend"}
  <2>1. /\ board.mode = "idle"
        /\ \/ Came(<<Byte("OK")>>) /\ Holding(client.chunk)
           \/ /\ client.step = "frame" /\ Spent(client.phase) /\ Holding(client.chunk - 1)
              /\ Came(<<Byte("INVALID")>>)
    BY <1>2, <1>10 DEF Writing
  <2>2. CASE Came(<<Byte("OK")>>) /\ Holding(client.chunk)
    <3>1. Clear' /\ Head(buf).t = "OK"
      BY <1>1, <1>4, <1>10, <2>2, AckRead
    <3>2. Resolves
      BY <1>5, <1>10, <3>1
    <3> QED BY <1>10, <2>1, <2>2, <3>1, <3>2, FramesOn
  <2>3. CASE client.step = "frame" /\ Spent(client.phase) /\ Holding(client.chunk - 1)
              /\ Came(<<Byte("INVALID")>>)
    <3>1. Clear' /\ Head(buf).t = "INVALID"
      BY <1>1, <1>4, <1>10, <2>3, AckRead
    <3>2. Rejects("INVALID")
      BY <1>5, <1>10, <3>1
    <3>3. Moves(ToStep(client, "filler")) /\ client'.phase = client.phase
          /\ client'.attempt = client.attempt /\ client'.chunk = client.chunk
          /\ client'.step = "filler"
      BY <1>1, <2>3, <3>2, GivesUpFrame
    <3>4. History'
      BY <1>1, <2>3, <3>3, HistoryOn
    <3>5. Holding(client.chunk - 1)'
      BY <1>1, <2>3, <3>3, SameFaults DEF Holding
    <3>6. to = <<>>
      BY <2>3 DEF Came
    <3> QED BY <1>1, <1>2, <3>3, <3>4, <3>5, <3>6, FillerCalm
  <2> QED BY <2>1, <2>2, <2>3
<1> QED BY <1>3, <1>7, <1>8, <1>9, <1>10

\* What a field that is confirmed leads to.
LEMMA ConfirmedLeads ==
  ASSUME Resolves, client.phase \in {"xverify", "verify"}
  PROVE  /\ client.step = "crc" /\ Matching => Advances
         /\ client.step = "read" /\ Matching => NextChunk("read")
         /\ client.step \in {"crc", "read"} /\ client.phase = "verify" /\ ~Matching => Mismatches
<1>1. ASSUME client.step = "read" PROVE IF Matching THEN NextChunk("read") ELSE Mismatches
  BY <1>1 DEF Resolves
<1>2. ASSUME client.step = "crc", client.phase = "xverify"
      PROVE  IF Matching THEN Advances ELSE Ends("failed")
  BY <1>2 DEF Resolves
<1>3. ASSUME client.step = "crc", client.phase = "verify"
      PROVE  IF Matching THEN Advances ELSE Mismatches
  BY <1>3 DEF Resolves
<1>4. ASSUME client.step = "crc", Matching PROVE Advances
  BY <1>2, <1>3, <1>4
<1>5. ASSUME client.step \in {"crc", "read"}, client.phase = "verify", ~Matching PROVE Mismatches
  BY <1>1, <1>3, <1>5
<1>6. ASSUME client.step = "read", Matching PROVE NextChunk("read")
  BY <1>1, <1>6
<1> QED BY <1>4, <1>5, <1>6

\* A cell of the image.
LEMMA CellOfImage ==
  ASSUME NEW n \in Nat, NEW j \in Nat \ {0}, j <= n
  PROVE  Cells(Numbered(n), j, j) = <<j>>
<1> DEFINE s == Numbered(n)
<1>1. s \in Seq(Nat) /\ Len(s) = n
  BY NumberedNext
<1>2. j \in 1..n /\ s[j] = j
  BY DEF Numbered
<1> HIDE DEF s
<1>3. \A i \in 1..Len(s) : s[i] \in Nat
  BY <1>1, ElementOfSeq
<1>4. j \in Int /\ \A i \in j..j : s[i] \in Nat
  BY <1>1, <1>2, <1>3
<1>5. Cells(s, j, j) = SubSeq(s, j, j)
  BY <1>1, <1>2 DEF Cells
<1>6. SubSeq(s, j, j) \in Seq(Nat) /\ Len(SubSeq(s, j, j)) = 1
  BY <1>4, SubSeqProperties
<1>7. \A i \in 1..(j - j + 1) : SubSeq(s, j, j)[i] = s[j + i - 1]
  BY <1>4, SubSeqProperties
<1>8. 1 \in 1..(j - j + 1) /\ j + 1 - 1 = j
  OBVIOUS
<1>9. SubSeq(s, j, j)[1] = j
  BY <1>2, <1>7, <1>8
<1> DEFINE t == SubSeq(s, j, j)
<1>10. t \in Seq(Nat) /\ Len(t) = 1 /\ t[1] = j
  BY <1>6, <1>9
<1> HIDE DEF t
<1>11. <<j>> \in Seq(Nat) /\ Len(<<j>>) = 1 /\ <<j>>[1] = j
  OBVIOUS
<1>12. \A i \in 1..1 : t[i] = <<j>>[i]
  BY <1>10, <1>11
<1>13. t = <<j>>
  BY <1>10, <1>11, <1>12, SeqEqual
<1> QED BY <1>5, <1>13 DEF s, t

\* A memory that holds the image is found to.
LEMMA GoodMatches ==
  ASSUME FlashInv, Calm, client.phase \in {"xverify", "verify"},
         client.step \in {"crc", "read"}, client.word = Field(Truth)
  PROVE  Matching \/ (client.phase = "verify" /\ Dirty)
<1>1. TypeInv /\ Where /\ Checking
  BY DEF FlashInv, Calm
<1>2. CASE client.phase = "xverify"
  <2>1. client.step = "crc" /\ board.ext = ExtImage
    BY <1>1, <1>2 DEF Where, Checking
  <2>2. Truth = ExtImage
    BY <1>1, <1>2, <2>1, ExtImageIs, WholeImage DEF Truth
  <2>3. Expected = ExtImage
    BY <1>2, <2>1 DEF Expected
  <2> QED BY <2>2, <2>3 DEF Matching
<1>3. CASE client.phase = "verify" /\ ~Dirty
  <2>1. board.flash = Image /\ client.phase # "xverify"
    BY <1>1, <1>3 DEF Checking
  <2>2. CASE client.step = "crc"
    BY <2>1, <2>2 DEF Truth, Expected, Matching
  <2>3. CASE client.step = "read"
    <3>1. client.chunk <= Chunks /\ client.chunk \in Nat \ {0} /\ Chunks \in Nat
      BY <1>1, <1>3, <2>3, SizesAssumption DEF Checking, TypeInv
    <3>2. Image = Numbered(Chunks) /\ client.step # "crc"
      BY <2>3 DEF Image, Numbered
    <3>3. Truth = <<client.chunk>>
      BY <2>1, <3>1, <3>2, CellOfImage DEF Truth
    <3>4. Expected = <<client.chunk>>
      BY <1>3, <2>3 DEF Expected
    <3> QED BY <3>3, <3>4 DEF Matching
  <2> QED BY <2>2, <2>3
<1> QED BY <1>2, <1>3

\* A mismatch, when the image was damaged: the chip is erased once more.
LEMMA ErasesAgain ==
  ASSUME FlashInv, MishapInv, Read, Tame', Clear', client.phase = "verify", Dirty, Mismatches,
         board.mode = "idle"
  PROVE  Calm'
<1>1. /\ Calm /\ TypeInv /\ ClientType /\ faults' = faults /\ ~closed' /\ History
      /\ result = "none" /\ board' = board
  BY ReadLeaves
<1>2. board.armed /\ client.attempt = 1 /\ Spent("program")
  BY <1>1 DEF Calm, Known, Dirty
<1>3. Moves([ToPhase(client, "erase") EXCEPT !.attempt = 2])
  BY <1>2 DEF Mismatches
<1>4. "erase" \in Phases \ {"guard", "over"} /\ 2 \in {1, 2}
  BY DEF Phases
<1>5. /\ result' = "none" /\ client'.phase = "erase" /\ client'.stage = "send"
      /\ client'.attempt = 2
  BY <1>1, <1>3, <1>4, PhaseMoves, PhaseSets
<1>6. /\ \A p : Spent(p)' <=> Spent(p)
      /\ Chunks <= FlashChunks
  BY <1>1, SameFaults DEF History
<1>7. History'
  BY <1>2, <1>5, <1>6 DEF History, Early
<1>8. ChipErasing'
  BY <1>5 DEF ChipErasing
<1> QED BY <1>1, <1>2, <1>5, <1>7, <1>8, CalmLate

\* The status of a command that verifies.
LEMMA CheckOn ==
  ASSUME FlashInv, MishapInv, Read, Tame', Clear', client.phase \in {"xverify", "verify"},
         client.stage = "status", Resolves
  PROVE  Calm'
<1>1. /\ Calm /\ TypeInv /\ Where /\ ClientType /\ faults' = faults /\ ~closed' /\ History
      /\ client.stage # "none" /\ result = "none" /\ board' = board /\ setup' = setup /\ to' = to
  BY ReadLeaves
<1>2. Checking /\ board.armed /\ board.mode = "idle" /\ to = <<>>
  BY <1>1 DEF Calm, Known, Checking, Clear
<1>3. client.step \in {"crc", "rewind", "read"}
      /\ (client.phase = "xverify" => client.step = "crc")
  BY <1>1 DEF Where
<1>4. client.chunk \in Int /\ Chunks \in Nat \ {0}
  BY <1>1, SizesAssumption DEF TypeInv
<1>5. CASE client.step = "rewind"
  <2>1. client.phase = "verify" /\ client.chunk = 1 /\ board.cursor = 0
    BY <1>2, <1>3, <1>5 DEF Checking
  <2>2. Moves(ToStep(client, "read")) /\ "read" \in Steps
    BY <1>1, <1>5, ResolvesIs DEF Steps
  <2>3. /\ result' = "none" /\ client'.phase = "verify" /\ client'.step = "read"
        /\ client'.stage = "send" /\ client'.chunk = 1 /\ client'.attempt = client.attempt
    BY <1>1, <2>1, <2>2, StepMoves, StepKeeps
  <2>4. History'
    BY <1>1, <2>1, <2>3, HistoryOn
  <2>5. (Dirty' <=> Dirty)
    BY <1>1, <2>3, SameFaults
  <2>6. 1 <= Chunks /\ 1 - 1 = 0
    BY <1>4
  <2>7. Checking'
    BY <1>1, <1>2, <2>1, <2>3, <2>5, <2>6 DEF Checking
  <2> QED BY <1>1, <1>2, <2>3, <2>4, <2>7, CalmLate
<1>6. CASE client.step \in {"crc", "read"}
  <2>1. client.word = Field(Truth)
    BY <1>2, <1>6 DEF Checking
  <2>2. Matching \/ (client.phase = "verify" /\ Dirty)
    BY <1>1, <1>6, <2>1, GoodMatches
  <2>3. /\ client.step = "crc" /\ Matching => Advances
        /\ client.step = "read" /\ Matching => NextChunk("read")
        /\ client.step \in {"crc", "read"} /\ client.phase = "verify" /\ ~Matching => Mismatches
    BY ConfirmedLeads
  <2>4. CASE ~Matching
    BY <1>2, <1>6, <2>2, <2>3, <2>4, ErasesAgain
  <2>5. CASE Advances
    <3> DEFINE p == IF client.phase = "xverify" THEN "erase" ELSE "reboot"
    <3>1. Moves(ToPhase(client, p))
      BY <2>5, AdvancesIs
    <3>2. p \in Phases \ {"guard", "over"} /\ 1 \in {1, 2} /\ p \in {"erase", "reboot"}
          /\ (p = "erase" => client.phase = "xverify")
      BY DEF Phases
    <3> HIDE DEF p
    <3>3. /\ result' = "none" /\ client'.phase = p
          /\ client'.stage = "send" /\ client'.attempt = client.attempt
      BY <1>1, <3>1, <3>2, PhaseMoves, PhaseKeeps
    <3>4. History'
      BY <1>1, <3>2, <3>3, HistoryNext DEF Early
    <3>5. ChipErasing'
      BY <3>3 DEF ChipErasing
    <3> QED BY <1>1, <1>2, <3>2, <3>3, <3>4, <3>5, CalmLate
  <2>6. CASE Matching /\ client.step = "read" /\ client.chunk < Total
    <3>1. client.phase = "verify" /\ Total = Chunks
      BY <1>3, <2>6 DEF Total
    <3>2. Moves([ToStep(client, "read") EXCEPT !.chunk = @ + 1])
      BY <2>3, <2>6 DEF NextChunk
    <3>3. /\ result' = "none" /\ client'.phase = "verify" /\ client'.step = "read"
          /\ client'.stage = "send" /\ client'.chunk = client.chunk + 1
          /\ client'.attempt = client.attempt
      BY <1>1, <3>1, <3>2, ChunkMoves
    <3>4. History'
      BY <1>1, <3>1, <3>3, HistoryOn
    <3>5. (Dirty' <=> Dirty)
      BY <1>1, <3>3, SameFaults
    <3>6. board.cursor = client.chunk /\ client'.chunk - 1 = client.chunk
      BY <1>2, <1>4, <2>6, <3>1, <3>3, OneBack DEF Checking
    <3>7. client'.chunk <= Chunks
      BY <1>4, <2>6, <3>1, <3>3
    <3>8. Dirty \/ board.flash = Image
      BY <1>2, <3>1 DEF Checking
    <3>9. Checking'
      BY <1>1, <1>2, <3>3, <3>5, <3>6, <3>7, <3>8 DEF Checking
    <3> QED BY <1>1, <1>2, <3>3, <3>4, <3>9, CalmLate
  <2> QED BY <1>6, <2>3, <2>4, <2>5, <2>6 DEF NextChunk
<1> QED BY <1>3, <1>5, <1>6

\* A verify that goes on in the same step checks the same memory.
LEMMA CheckStays ==
  ASSUME Calm, client.phase \in {"xverify", "verify"}, client.step \in {"crc", "rewind", "read"},
         result' = "none", ~closed', faults' = faults, board' = board, setup' = setup, to' = to,
         client'.phase = client.phase, client'.step = client.step, client'.chunk = client.chunk,
         client'.attempt = client.attempt, client.stage # "send", to = <<>>,
         client.step \in {"crc", "read"} => client'.word = Field(Truth),
         \/ client'.stage = "head" /\ Came(Ack("OK"))' /\ client.step \in {"crc", "read"}
         \/ client'.stage = "status" /\ Came(<<Byte("OK")>>)'
  PROVE  Calm'
<1>1. Checking /\ History /\ board.armed
  BY DEF Calm, Known
<1>2. History'
  BY <1>1, HistoryOn
<1>3. Dirty' <=> Dirty
  BY SameFaults
<1>4. Truth' = Truth
  BY DEF Truth
<1>5. ExtImage' = ExtImage
  BY DEF ExtImage
<1>6. Acking("CHIP_VERIFY")' \/ client.step # "rewind"
  BY DEF Acking
<1>7. Field(Truth') = Field(Truth)
  BY <1>4
<1>8. Checking'
  BY <1>1, <1>3, <1>5, <1>6, <1>7 DEF Checking
<1> QED BY <1>1, <1>2, <1>8, CalmLate

\* The reply to a command that verifies.
LEMMA ReadCheckCalm ==
  ASSUME FlashInv, MishapInv, Read, Tame', client.phase \in {"xverify", "verify"}
  PROVE  Calm'
<1>1. /\ Calm /\ TypeInv /\ Where /\ ClientType /\ faults' = faults /\ ~closed'
      /\ client.stage \in ReadStages /\ client.stage # "none" /\ result = "none"
      /\ board' = board /\ to' = to /\ setup' = setup /\ ~Clear /\ (\A op : ~Going(op))
      /\ client.stage \notin {"field", "rest", "drain"} =>
           Pipe' = Rest(Pipe, 1) /\ Head(buf) = Pipe[1]
      /\ client.stage = "field" => Pipe' = Rest(Pipe, 4) /\ SubSeq(buf, 1, 4) = SubSeq(Pipe, 1, 4)
  BY ReadLeaves
<1>2. Checking /\ Cut
  BY <1>1 DEF FlashInv, Calm
<1>3. client.step \in {"crc", "rewind", "read"} /\ client.stage \in {"field", "head", "status"}
      /\ (client.step = "rewind" => client.stage # "field")
  BY <1>1 DEF Where, Fetch, Exchange, ReadStages
<1>4. "OK" \in Names /\ client.stage # "send"
  BY <1>3 DEF Names
<1>5. /\ client.stage = "field" => Came(FieldReply(Truth))
      /\ client.stage = "head" => Came(Ack("OK"))
      /\ client.stage = "status" => Came(<<Byte("OK")>>)
      /\ client.step \in {"crc", "read"} /\ client.stage # "field" => client.word = Field(Truth)
  <2>1. CASE client.step = "rewind"
    BY <1>1, <1>2, <1>3, <2>1 DEF Checking, Acking
  <2>2. CASE client.step \in {"crc", "read"}
    BY <1>1, <1>2, <1>3, <2>2 DEF Checking
  <2> QED BY <1>3, <2>1, <2>2
<1>6. to = <<>>
  BY <1>3, <1>5 DEF Came
<1>7. CASE client.stage = "field"
  <2>1. Pipe' = Ack("OK") /\ SubSeq(buf, 1, 4) = Field(Truth)
    BY <1>1, <1>5, <1>7, TruthType, RestOfField DEF Came
  <2>2. Moves([client EXCEPT !.stage = "head", !.word = SubSeq(buf, 1, 4)])
    BY <1>1, <1>2, <1>7, ReadIs
  <2>3. /\ result' = "none" /\ client'.phase = client.phase /\ client'.step = client.step
        /\ client'.stage = "head" /\ client'.chunk = client.chunk
        /\ client'.attempt = client.attempt /\ client'.word = SubSeq(buf, 1, 4)
    BY <1>1, <2>2 DEF Moves, ClientType
  <2>4. Came(Ack("OK"))' /\ client.step \in {"crc", "read"}
    BY <1>1, <1>3, <1>6, <1>7, <2>1 DEF Came
  <2> QED BY <1>1, <1>3, <1>4, <1>6, <2>1, <2>3, <2>4, CheckStays
<1>8. CASE client.stage = "head"
  <2>1. Came(<<Byte("OK")>>)' /\ Head(buf).t = "INSYNC"
    BY <1>1, <1>4, <1>5, <1>8, AckRead
  <2>2. TakesHead(Head(buf)) /\ "status" \in Stages
    BY <1>1, <1>2, <1>8, ReadIs DEF Stages, ReadStages
  <2>3. Moves([client EXCEPT !.stage = "status"])
    BY <2>1, <2>2 DEF TakesHead
  <2>4. /\ result' = "none" /\ client'.phase = client.phase /\ client'.step = client.step
        /\ client'.stage = "status" /\ client'.chunk = client.chunk
        /\ client'.attempt = client.attempt /\ client'.word = client.word
    BY <1>1, <2>2, <2>3, StageMoves, StageKeeps
  <2> QED BY <1>1, <1>3, <1>4, <1>5, <1>6, <1>8, <2>1, <2>4, CheckStays
<1>9. CASE client.stage = "status"
  <2>1. Clear' /\ Head(buf).t = "OK"
    BY <1>1, <1>4, <1>5, <1>9, AckRead
  <2>2. TakesStatus(Head(buf)) /\ client.phase # "xerase"
    BY <1>1, <1>2, <1>9, ReadIs
  <2>3. Resolves
    BY <2>1, <2>2 DEF TakesStatus
  <2> QED BY <1>9, <2>1, <2>3, CheckOn
<1> QED BY <1>3, <1>7, <1>8, <1>9

\* A read.
LEMMA ReadCalm ==
  ASSUME FlashInv, MishapInv, Read, Tame'
  PROVE  Calm'
<1>1. client.phase \in Phases \ {"guard", "over", "reboot"}
  BY ReadLeaves
<1>2. \/ client.phase \in Early \/ client.phase \in {"xerase", "erase"}
      \/ client.phase \in {"xprogram", "program"} \/ client.phase \in {"xverify", "verify"}
  BY <1>1 DEF Phases, Early
<1> QED BY <1>2, ReadEarlyCalm, ReadEraseCalm, ReadWriteCalm, ReadCheckCalm

-----------------------------------------------------------------------------
(* One mishap at most, and no failure. *)

\* The mishaps of a session are recorded as they happen.
LEMMA StepFaults ==
  ASSUME Next
  PROVE  faults' = faults \/ \E k : Fault(k)
<1>1. CASE Guard
  BY <1>1 DEF Guard
<1>2. CASE Send
  BY <1>2 DEF Send
<1>3. CASE Read
  BY <1>3 DEF Read
<1>4. CASE Timeout
  BY <1>4 DEF Timeout
<1>5. CASE DrainEnds
  BY <1>5 DEF DrainEnds
<1>6. CASE Arrive
  BY <1>6 DEF Arrive
<1>7. CASE Unplug
  BY <1>7 DEF Unplug
<1>8. CASE FailsClosed
  BY <1>8 DEF FailsClosed
<1>9. CASE Handle
  BY <1>9, HandleFaults
<1> QED BY <1>1, <1>2, <1>3, <1>4, <1>5, <1>6, <1>7, <1>8, <1>9 DEF Next

\* Every step keeps the mishap invariant.
LEMMA NextMishap ==
  ASSUME FlashInv, MishapInv, [Next]_vars
  PROVE  MishapInv'
<1>1. TypeInv /\ faults \in Seq(Mishaps)
  BY DEF FlashInv, MishapInv
<1>2. CASE Next
  <2>1. faults' \in Seq(Mishaps)
    BY <1>1, <1>2, StepFaults, FaultIs
  <2>2. ASSUME Tame' PROVE Calm'
    <3>1. ~Unplug /\ ~FailsClosed
      BY <2>2, UnplugCalm, FailsClosedCalm
    <3> QED BY <1>2, <2>2, <3>1, GuardCalm, SendCalm, ReadCalm, TimeoutCalm, DrainCalm,
               ArriveCalm, HandleCalm DEF Next
  <2> QED BY <2>1, <2>2 DEF MishapInv
<1>3. CASE UNCHANGED vars
  <2>1. UNCHANGED <<client, result, closed, to, board, setup, faults>> /\ buf' = buf /\ from' = from
    BY <1>3 DEF vars, link
  <2>2. Pipe' = Pipe
    BY <2>1 DEF Pipe
  <2>3. Tame' => Calm'
    BY <2>1, <2>2, CalmSame, SameFaults DEF MishapInv
  <2> QED BY <1>1, <2>1, <2>3 DEF MishapInv
<1> QED BY <1>2, <1>3

\* With one mishap at most, each command is answered by its own reply or, where
\* the mishap struck, by what programChunk expects: a refusal or nothing.
THEOREM MishapInvAlways == Spec => []MishapInv
<1>1. Init => MishapInv
  BY InitMishap
<1>2. FlashInv /\ MishapInv /\ [Next]_vars => MishapInv'
  BY NextMishap
<1> QED BY <1>1, <1>2, FlashInvAlways, PTL DEF Spec

\* A session that meets no mishap, or one that it survives, does not fail: one
\* resend of programChunk, or the second attempt of flash(), is enough for every
\* image, wherever in it the mishap strikes, if there is room for a chunk that
\* is written twice.
THEOREM SurvivesOneFaultAlways == Spec => []SurvivesOneFault
<1>1. MishapInv => SurvivesOneFault
  <2> SUFFICES ASSUME MishapInv, result = "failed" PROVE SurvivesOneFault
    BY DEF SurvivesOneFault
  <2>1. ~Tame
    BY DEF MishapInv, Calm
  <2> QED BY <2>1 DEF Tame, SurvivesOneFault
<1> QED BY <1>1, MishapInvAlways, PTL
==============================================================================
