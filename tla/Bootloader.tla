----------------------------- MODULE Bootloader -----------------------------
(***************************************************************************)
(* Flashing over the serial bootloader: writeFirmware (FirmwareFlasher)    *)
(* drives BootloaderClient (bootloader.ts) over WebSerialBootloaderSerial. *)
(* The protocol has no request numbers: a reply is the next bytes that     *)
(* arrive, so one that comes late is read as the answer to the command     *)
(* after it.                                                               *)
(*                                                                         *)
(* A byte of a reply is [t, v]: its kind and, for the bytes of a fixed     *)
(* width field, the value of the field.  Firmware is a sequence of chunks, *)
(* numbered from 1, and a CRC is the firmware it is computed from.  The    *)
(* bootloader is external: it is modelled from what the comments of the    *)
(* client say of bl_protocol.cpp.                                          *)
(***************************************************************************)
EXTENDS Naturals, Sequences

CONSTANTS
  Revisions,    \* bootloader revisions: 2 reads back, 3 to 5 have GET_CRC
  Pairings,     \* how the ids of firmware and board relate, see Permits
  Chunks,       \* PROG_MULTI frames of the image
  ExtChunks,    \* frames of the external-flash image, where there is one
  FlashChunks,  \* frames the flash has room for
  Faults,       \* the faults in play
  MaxFaults     \* bound: faults in one session

FaultKinds == {"late", "late resync", "ack lost", "refused", "cut",
               "corrupt", "failed", "unplugged"}

ASSUME SizesAssumption ==
  /\ Chunks \in Nat \ {0} /\ ExtChunks \in Nat /\ FlashChunks \in Nat
  /\ MaxFaults \in Nat
ASSUME FaultsAssumption == Faults \subseteq FaultKinds
ASSUME RevisionsAssumption == Revisions \subseteq 2..5

VARIABLES
  client,   \* [phase, step, stage, chunk, attempt, word]
  result,   \* how the session ended
  closed,   \* the port is gone
  buf,      \* bytes the read pump holds
  from, to, \* bytes and writes under way
  board,    \* external: [mode, armed, flash, ext, cursor]
  setup,    \* what the session is about: [rev, pairing, old, ext]
  faults    \* faults so far

link == <<buf, from, to>>
vars == <<client, result, closed, link, board, setup, faults>>

Image == [k \in 1..Chunks |-> k]
ExtImage == [k \in 1..setup.ext |-> k]
Damaged == Chunks + ExtChunks + 1
OldFirmware == <<Damaged>>

(* What a memory holds from a to b; what is past its end is erased. *)
Cells(mem, a, b) == SubSeq(mem, a, IF b <= Len(mem) THEN b ELSE Len(mem))

Byte(t) == [t |-> t, v |-> <<>>]
Field(v) == [k \in 1..4 |-> [t |-> "DATA", v |-> v]]
Ack(status) == <<Byte("INSYNC"), Byte(status)>>

-----------------------------------------------------------------------------
(* The phases of writeFirmware and flash(), and the steps of each. *)
First(phase) ==
  CASE phase = "identify" -> "sync"
    [] phase \in {"settle 1", "settle 2"} -> "drain"
    [] phase \in {"compare", "xverify"} -> "crc"
    [] phase \in {"xerase", "erase"} -> "erase"
    [] phase \in {"xprogram", "program"} -> "frame"
    [] phase = "verify" -> IF setup.rev = 2 THEN "rewind" ELSE "crc"
    [] phase = "reboot" -> "reboot"

NextPhase(phase) ==
  CASE phase = "identify" -> "settle 1"
    [] phase = "settle 1" -> "compare"
    [] phase = "compare" -> "settle 2"
    [] phase = "settle 2" -> IF setup.ext > 0 THEN "xerase" ELSE "erase"
    [] phase = "xerase" -> "xprogram"
    [] phase = "xprogram" -> "xverify"
    [] phase = "xverify" -> "erase"
    [] phase = "erase" -> "program"
    [] phase = "program" -> "verify"
    [] phase = "verify" -> "reboot"

ToStep(c, step) ==
  [c EXCEPT !.step = step, !.stage = IF step = "drain" THEN "drain" ELSE "send"]
ToPhase(c, phase) ==
  ToStep([c EXCEPT !.phase = phase, !.chunk = 1], First(phase))

(* checkBoardMatch, with and without revision and flash size: the second   *)
(* exception needs both.                                                   *)
Permits(pairing, informed) ==
  \/ pairing \in {"same", "listed"}
  \/ pairing = "large v2" /\ informed

Init ==
  /\ setup \in [rev: Revisions, pairing: Pairings,
                old: {OldFirmware, Image}, ext: {0, ExtChunks}]
  /\ client = [phase |-> "guard", step |-> "none", stage |-> "none",
               chunk |-> 1, attempt |-> 1, word |-> <<>>]
  /\ result = "none" /\ closed = FALSE
  /\ buf = <<>> /\ from = <<>> /\ to = <<>>
  /\ board = [mode |-> "idle", armed |-> FALSE, flash |-> setup.old,
              ext |-> <<>>, cursor |-> 0]
  /\ faults = <<>>

Fault(kind) ==
  /\ kind \in Faults /\ Len(faults) < MaxFaults
  /\ faults' = Append(faults, [kind |-> kind, phase |-> client.phase])

Ends(r) == result' = r /\ client' = [client EXCEPT !.phase = "over", !.stage = "none"]
Moves(c) == client' = c /\ UNCHANGED result

(* The guards of writeFirmware; checkImageFitsFlash is the same in both. *)
Guard ==
  /\ client.phase = "guard"
  /\ IF Permits(setup.pairing, TRUE) /\ Chunks <= FlashChunks
       THEN Moves(ToPhase(client, "identify"))
       ELSE Ends("refused")
  /\ UNCHANGED <<closed, link, board, setup, faults>>

-----------------------------------------------------------------------------
(* What follows when the promise of a step resolves or rejects. *)

(* A phase is through; flash() begins with guards of its own. *)
EntersFlash(phase) == phase = "settle 2"
Advances ==
  IF EntersFlash(client.phase) /\ ~Permits(setup.pairing, FALSE)
    THEN Ends("refused")
    ELSE Moves(ToPhase(client, NextPhase(client.phase)))

(* A mismatch, once per flash(), erases and programs again. *)
Expected ==
  CASE client.step = "read" -> <<client.chunk>>
    [] client.phase = "xverify" -> ExtImage
    [] OTHER -> Image
Matching == client.word = Field(Expected)

RetryIsTrusted ==
  IF client.attempt = 1
    THEN Moves([ToPhase(client, "erase") EXCEPT !.attempt = 2])
    ELSE Advances
Mismatches ==
  IF client.attempt = 1
    THEN Moves([ToPhase(client, "erase") EXCEPT !.attempt = 2])
    ELSE Ends("failed")

Total == IF client.phase = "xprogram" THEN setup.ext ELSE Chunks
NextChunk(step) ==
  IF client.chunk < Total
    THEN Moves([ToStep(client, step) EXCEPT !.chunk = @ + 1])
    ELSE Advances

Resolves ==
  CASE client.step = "sync" -> Moves(ToStep(client, "info"))
    [] client.step = "info" -> Moves(ToStep(client, "version"))
    [] client.step = "resync" /\ client.phase \in {"xprogram", "program"} ->
         Moves(ToStep(client, "resend"))
    [] client.step \in {"frame", "resend"} -> NextChunk("frame")
    [] client.step = "rewind" -> Moves(ToStep(client, "read"))
    [] client.step = "read" -> IF Matching THEN NextChunk("read") ELSE Mismatches
    [] client.step = "crc" /\ client.phase = "compare" ->
         \/ Advances
         \/ Matching /\ Ends("skipped")
    [] client.step = "crc" /\ client.phase = "xverify" ->
         IF Matching THEN Advances ELSE Ends("failed")
    [] client.step = "crc" /\ client.phase = "verify" ->
         IF Matching THEN Advances ELSE Mismatches
    [] OTHER -> Advances

(* programChunk resends after a refusal and after a silence. *)
ResendsRefused(error) == client.step = "frame" /\ error = "INVALID"
Resends(error) ==
  client.step = "frame" /\ error \in {"INVALID", "timeout"}

Rejects(error) ==
  CASE client.step = "version" -> Moves(ToStep(client, "drain"))
    [] client.phase \in {"identify", "settle 1", "settle 2", "compare"}
         /\ client.step # "version" -> Advances
    [] Resends(error) -> Moves(ToStep(client, "filler"))
    [] OTHER -> Ends("failed")

-----------------------------------------------------------------------------
(* Writes. *)
Data ==
  CASE client.phase = "program" -> Image[client.chunk]
    [] client.phase = "xprogram" -> ExtImage[client.chunk]
    [] OTHER -> 0

Opcode ==
  CASE client.step \in {"sync", "resync"} -> "GET_SYNC"
    [] client.step = "info" -> "GET_DEVICE"
    [] client.step = "version" -> "GET_VERSION"
    [] client.step = "crc" -> IF client.phase = "xverify" THEN "EXTF_GET_CRC" ELSE "GET_CRC"
    [] client.step = "erase" -> IF client.phase = "xerase" THEN "EXTF_ERASE" ELSE "CHIP_ERASE"
    [] client.step \in {"frame", "resend"} ->
         IF client.phase = "xprogram" THEN "EXTF_PROG_MULTI" ELSE "PROG_MULTI"
    [] client.step = "filler" -> "FILLER"
    [] client.step = "rewind" -> "CHIP_VERIFY"
    [] client.step = "read" -> "READ_MULTI"
    [] client.step = "reboot" -> "REBOOT"

(* flushInput precedes every command but CHIP_ERASE, the filler and the    *)
(* frame that is resent.                                                   *)
Flushes ==
  /\ client.step \notin {"filler", "resend", "reboot"}
  /\ client.phase # "erase"

(* The read that a command's reply starts with. *)
FirstRead ==
  CASE client.step \in {"info", "crc", "read"} -> "field"
    [] client.step = "version" -> "version"
    [] client.phase = "erase" -> "poll"
    [] OTHER -> "head"

Send ==
  /\ client.stage = "send" /\ ~closed
  /\ buf' = IF Flushes THEN <<>> ELSE buf
  /\ to' = Append(to, [op |-> Opcode, data |-> Data])
  /\ CASE client.step = "reboot" -> Ends("flashed")
       [] client.step = "filler" -> Moves(ToStep(client, "drain"))
       [] OTHER -> Moves([client EXCEPT !.stage = FirstRead])
  /\ UNCHANGED <<closed, from, board, setup, faults>>

-----------------------------------------------------------------------------
(* Reads. *)
Needs(stage) == IF stage \in {"field", "rest"} THEN 4 ELSE 1
ReadStages == {"field", "version", "rest", "refusal", "head", "status",
               "percent", "poll", "poll status", "drain"}

(* getSync. *)
TakesHead(b) ==
  IF b.t = "INSYNC" THEN Moves([client EXCEPT !.stage = "status"])
                    ELSE Rejects("no sync")
TakesStatus(b) ==
  CASE b.t = "OK" /\ client.phase = "xerase" -> Moves([client EXCEPT !.stage = "percent"])
    [] b.t = "OK" /\ client.phase # "xerase" -> Resolves
    [] OTHER -> Rejects(b.t)

(* trySync of the erases: only a status says that an erase failed. *)
Polls(b) ==
  Moves([client EXCEPT !.stage = IF b.t = "INSYNC" THEN "poll status" ELSE "poll"])
PollsStatus(b) ==
  CASE b.t = "OK" -> Resolves
    [] b.t \in {"INVALID", "FAILED"} -> Rejects(b.t)
    [] OTHER -> Moves([client EXCEPT !.stage = "poll"])

(* getVersion: a refusal or a length; a length that is none is settled (a  *)
(* settle that fails there is tried once more, which changes nothing: both *)
(* tries swallow their failure).                                           *)
TakesVersion(b) ==
  Moves([client EXCEPT !.stage = IF b.t = "INSYNC" THEN "refusal" ELSE "rest"])
TakesRest(bytes) ==
  IF \A k \in 1..4 : bytes[k].t = "TEXT"
    THEN Moves([client EXCEPT !.stage = "head"])
    ELSE Moves(ToStep(client, "drain"))

Read ==
  LET n == Needs(client.stage)
      b == Head(buf)
  IN /\ client.stage \in ReadStages /\ Len(buf) >= n
     /\ buf' = IF client.stage = "drain" THEN <<>> ELSE SubSeq(buf, n + 1, Len(buf))
     /\ CASE client.stage = "field" ->
               Moves([client EXCEPT !.stage = "head", !.word = SubSeq(buf, 1, n)])
          [] client.stage = "version" -> TakesVersion(b)
          [] client.stage = "rest" -> TakesRest(SubSeq(buf, 1, n))
          [] client.stage = "refusal" -> Resolves
          [] client.stage = "head" -> TakesHead(b)
          [] client.stage = "status" -> TakesStatus(b)
          [] client.stage = "percent" ->
               Moves([client EXCEPT !.stage = IF b.t = "90%" THEN "poll" ELSE "percent"])
          [] client.stage = "poll" -> Polls(b)
          [] client.stage = "poll status" -> PollsStatus(b)
          [] client.stage = "drain" -> Moves(client)
     /\ UNCHANGED <<closed, from, to, board, setup, faults>>

(* Nothing is under way; or the chip erase, which takes longer than a      *)
(* reply may, is.                                                          *)
Quiet == from = <<>> /\ to = <<>>
Erasing == to # <<>> /\ Head(to).op = "CHIP_ERASE"

LateKind == IF client.phase = "settle 2" THEN "late resync" ELSE "late"

(* A read that times out.  The erases poll until their deadline. *)
NeverEnds == Moves(client)
Deadline == Rejects("deadline")

Timeout ==
  /\ client.stage \in ReadStages \ {"drain"}
  /\ Len(buf) < Needs(client.stage)
  /\ ~closed
  /\ \/ Quiet /\ UNCHANGED faults
     \/ Erasing /\ client.phase # "erase" /\ UNCHANGED faults
     \/ ~Quiet /\ Fault(LateKind)
  /\ CASE client.stage \in {"poll", "percent"} -> Deadline
       [] client.stage = "poll status" -> Moves([client EXCEPT !.stage = "poll"])
       [] OTHER -> Rejects("timeout")
  /\ UNCHANGED <<closed, link, board, setup>>

(* drainInput: the line has been silent.  A reply that comes late comes    *)
(* before the silence ends, and no reply is long enough for the limit of   *)
(* the drain.                                                              *)
NoDrain == TRUE
Silent == buf = <<>> /\ (Quiet \/ Erasing \/ closed)
DrainEnds ==
  /\ client.stage = "drain" /\ Silent
  /\ Moves(ToStep(client, "resync"))
  /\ UNCHANGED <<closed, link, board, setup, faults>>

-----------------------------------------------------------------------------
(* The port. *)
Arrive ==
  /\ from # <<>>
  /\ buf' = Append(buf, Head(from)) /\ from' = Tail(from)
  /\ UNCHANGED <<client, result, closed, to, board, setup, faults>>

Unplug ==
  /\ client.phase \notin {"guard", "over"} /\ ~closed /\ Fault("unplugged")
  /\ closed' = TRUE /\ from' = <<>> /\ to' = <<>>
  /\ UNCHANGED <<client, result, buf, board, setup>>

(* Every write and every read that lacks bytes rejects.  A verified flash  *)
(* does not need the reboot.                                               *)
FailsClosed ==
  /\ closed
  /\ \/ client.stage = "send" /\ client.step = "reboot" /\ Ends("flashed")
     \/ client.stage = "send" /\ client.step # "reboot" /\ Rejects("closed")
     \/ /\ client.stage \in ReadStages \ {"drain"}
        /\ Len(buf) < Needs(client.stage)
        /\ IF client.stage = "poll status" THEN Moves([client EXCEPT !.stage = "poll"])
           ELSE IF client.stage \in {"poll", "percent"} THEN Deadline
           ELSE Rejects("closed")
  /\ UNCHANGED <<closed, link, board, setup, faults>>

-----------------------------------------------------------------------------
(* The bootloader, external: one command at a time. *)
Says(bytes) == from' = from \o bytes /\ UNCHANGED faults
SaysNothing == UNCHANGED <<from, faults>>
IsFrame(w) == w.op \in {"PROG_MULTI", "EXTF_PROG_MULTI"}

Written(w, chunk) ==
  IF w.op = "PROG_MULTI" THEN [board EXCEPT !.flash = Append(@, chunk)]
                         ELSE [board EXCEPT !.ext = Append(@, chunk)]

(* A frame: written, refused, cut off on its way so that the bootloader    *)
(* waits for the rest of its payload, or damaged.                          *)
Frame(w) ==
  \/ w.op = "PROG_MULTI" /\ Len(board.flash) >= FlashChunks
     /\ Says(Ack("INVALID")) /\ UNCHANGED board
  \/ /\ w.op = "PROG_MULTI" => Len(board.flash) < FlashChunks
     /\ \/ Says(Ack("OK")) /\ board' = Written(w, w.data)
        \/ Fault("refused") /\ from' = from \o Ack("INVALID") /\ UNCHANGED board
        \/ Fault("failed") /\ from' = from \o Ack("FAILED") /\ UNCHANGED board
        \/ Fault("cut") /\ board' = [board EXCEPT !.mode = "payload"] /\ UNCHANGED from
        \/ Fault("corrupt") /\ from' = from \o Ack("OK") /\ board' = Written(w, Damaged)
        \/ Fault("ack lost") /\ board' = Written(w, w.data) /\ UNCHANGED from

(* CHIP_ERASE and GET_CRC are refused before GET_DEVICE. *)
Chip(w) ==
  \/ w.op = "CHIP_ERASE" /\ ~board.armed /\ Says(Ack("INVALID")) /\ UNCHANGED board
  \/ /\ w.op = "CHIP_ERASE" /\ board.armed
     /\ board' = [board EXCEPT !.flash = <<>>]
     /\ \/ Says(Ack("OK"))
        \/ Fault("failed") /\ from' = from \o Ack("FAILED")
  \/ /\ w.op = "GET_CRC" /\ UNCHANGED board
     /\ IF board.armed /\ setup.rev > 2
          THEN Says(Field(board.flash) \o Ack("OK"))
          ELSE Says(Ack("INVALID"))
  \/ /\ w.op = "EXTF_ERASE" /\ board' = [board EXCEPT !.ext = <<>>]
     /\ Says(Ack("OK") \o <<Byte("50%"), Byte("90%")>> \o Ack("OK"))
  \/ /\ w.op = "EXTF_GET_CRC" /\ UNCHANGED board
     /\ Says(Field(Cells(board.ext, 1, setup.ext)) \o Ack("OK"))

Query(w) ==
  \/ w.op = "GET_SYNC" /\ Says(Ack("OK")) /\ UNCHANGED board
  \/ /\ w.op = "GET_DEVICE" /\ Says(Field(<<>>) \o Ack("OK"))
     /\ board' = [board EXCEPT !.armed = TRUE]
  \/ /\ w.op = "GET_VERSION" /\ UNCHANGED board
     /\ \/ Says(Ack("INVALID"))
        \/ Says(<<Byte("DATA"), Byte("TEXT"), Byte("TEXT"), Byte("TEXT"), Byte("TEXT")>> \o Ack("OK"))
  \/ /\ w.op = "CHIP_VERIFY" /\ Says(Ack("OK"))
     /\ board' = [board EXCEPT !.cursor = 0]
  \/ /\ w.op = "READ_MULTI"
     /\ Says(Field(Cells(board.flash, board.cursor + 1, board.cursor + 1)) \o Ack("OK"))
     /\ board' = [board EXCEPT !.cursor = @ + 1]
  \/ w.op \in {"FILLER", "REBOOT"} /\ SaysNothing /\ UNCHANGED board

(* A bootloader in the middle of a payload takes what comes for the rest   *)
(* of it; the filler and another frame are long enough to end it.          *)
Payload(w) ==
  IF w.op = "FILLER" \/ IsFrame(w)
    THEN Says(Ack("INVALID")) /\ board' = [board EXCEPT !.mode = "idle"]
    ELSE SaysNothing /\ UNCHANGED board

Handle ==
  /\ to # <<>> /\ to' = Tail(to)
  /\ LET w == Head(to)
     IN \/ board.mode = "payload" /\ Payload(w)
        \/ board.mode = "idle" /\ (Query(w) \/ Chip(w) \/ (IsFrame(w) /\ Frame(w)))
  /\ UNCHANGED <<client, result, closed, buf, setup>>

-----------------------------------------------------------------------------
Next ==
  \/ Guard \/ Send \/ Read \/ Timeout \/ DrainEnds
  \/ Arrive \/ Unplug \/ FailsClosed \/ Handle

Spec == Init /\ [][Next]_vars

(* Reads end by their timers, and a bootloader that is there answers. *)
FairSpec ==
  /\ Spec
  /\ WF_vars(Guard \/ Send \/ Read \/ DrainEnds \/ FailsClosed)
  /\ WF_vars(Timeout)
  /\ WF_vars(Arrive) /\ WF_vars(Handle)

-----------------------------------------------------------------------------
Holds(mem, image) == Cells(mem, 1, Len(image)) = image

(* A flash that resolves, and one that is skipped because the CRC matches, *)
(* leave the image on the board, whatever was lost, late, damaged or read  *)
(* for another command's answer ("Verify passed, so the flash is good").   *)
FlashedIsImage ==
  /\ result \in {"flashed", "skipped"} => Holds(board.flash, Image)
  /\ result = "flashed" => Holds(board.ext, ExtImage)

(* No chunk is sent to a chip that is still being erased: no late reply is *)
(* taken for the end of the erase ("Nothing a timed-out command answered   *)
(* late may be read as the next reply").                                   *)
ErasedBeforeWritten ==
  client.phase \in {"program", "verify", "reboot"} =>
    \A k \in 1..Len(to) : to[k].op # "CHIP_ERASE"

(* A session without a mishap does not fail, and one mishap while the      *)
(* image is written does not fail it either: a chunk that was refused or   *)
(* cut off is sent again, and one that was damaged, or written twice       *)
(* because its ack was lost or late, is found by the verify and the image  *)
(* is written once more.  A chunk that is written twice needs room: of an  *)
(* image that fills the flash, the last chunk is refused and then nothing  *)
(* is tried again.                                                         *)
Survivable(f) ==
  \/ f.phase = "program" /\ f.kind \in {"refused", "cut", "corrupt"}
  \/ f.phase = "program" /\ f.kind \in {"late", "ack lost"} /\ Chunks < FlashChunks
  \/ f.phase = "xprogram" /\ f.kind \in {"refused", "cut"}
SurvivesOneFault ==
  result = "failed" =>
    /\ faults # <<>>
    /\ Len(faults) = 1 => ~Survivable(faults[1])

(* Every session ends. *)
SessionEnds == <>(client.phase = "over")
=============================================================================
