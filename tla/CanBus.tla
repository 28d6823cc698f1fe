------------------------------- MODULE CanBus --------------------------------
(***************************************************************************)
(* CanBusService as a whole: the parameters of a node (CanNode) and its    *)
(* firmware update, in which the application is the file server            *)
(* (startFirmwareUpdate, handleFileReadRequest, serviceFirmwareUpdate).    *)
(*                                                                         *)
(* An image is a number of full chunks and, if tail is 1, a shorter one.   *)
(* Offsets are in chunks.  The node is external: BeginFirmwareUpdate makes *)
(* it read from the start, chunk by chunk, again when no answer comes; it  *)
(* takes an answer only to its latest read, and a chunk that is not full   *)
(* ends the file and starts what was read.  While it reads it does         *)
(* nothing else.  The CAN tab disables the other operations of a node      *)
(* while an update is in progress.                                         *)
(***************************************************************************)
EXTENDS CanNode

CONSTANTS
  Images,     \* [name, full, tail]: the files the operator chooses
  Overlaps,   \* bound: an update may begin amid a walk, a write or a SAVE
  MaxBegins,  \* FIRMWARE_MAX_BEGIN_ATTEMPTS
  TidMod      \* 32 in the protocol: transfer IDs wrap here

ASSUME ImagesAssumption == \A m \in Images : m.full \in Nat /\ m.tail \in {0, 1} /\ m.full + m.tail > 0
ASSUME BeginsAssumption == MaxBegins \in Nat \ {0} /\ TidMod \in Nat \ {0}

VARIABLES
  update,   \* firmwareUpdate, or NoUpdate
  boot,     \* the node's bootloader: [reading, ofs, tid, got, runs]
  ask,      \* begins and answers on their way to the node
  reply     \* what the node sends

updating == <<update, boot, ask, reply>>
busVars == <<vars, updating>>

NoImage == [name |-> "none", full |-> 0, tail |-> 0]
NoUpdate == [image |-> NoImage, status |-> "none", served |-> 0, begins |-> 0, first |-> FALSE]

BusInit ==
  /\ Init /\ update = NoUpdate /\ ask = <<>> /\ reply = <<>>
  /\ boot = [reading |-> FALSE, ofs |-> 0, tid |-> 0, got |-> <<>>, runs |-> <<>>]

Size(m) == m.full + m.tail
InUpdate == update.status \in {"starting", "in_progress"}
FileSends(m) == ask' = IF status = "active" THEN Fitting(ask, <<m>>) ELSE ask
FileSilence == ask = <<>> /\ reply = <<>>
FileFires == IF FileSilence THEN UNCHANGED used ELSE Fault

\* What stays when the update does something.
NodeUnchanged ==
  UNCHANGED <<status, calls, known, walk, queues, loops, dropping, up, down, cleanWalk>>

AtRest == ~InProgress /\ loops = <<>> /\ ~dropping /\ up = <<>> /\ down = <<>>

------------------------------------------------------------------------------
(* The service.                                                             *)

\* startFirmwareUpdate.
CallUpdate(m) ==
  /\ Calls("update") /\ status = "active" /\ ~InUpdate /\ known
  /\ Overlaps \/ AtRest
  /\ update' = [image |-> m, status |-> "starting", served |-> 0, begins |-> 1,
                first |-> ~boot.reading /\ FileSilence]
  /\ FileSends([kind |-> "begin"])
  /\ job' = NoJob /\ NodeUnchanged /\ UNCHANGED <<node, boot, reply>>

\* cancelFirmwareUpdate: stops one in progress, dismisses one that is over.
CallCancel ==
  /\ update # NoUpdate
  /\ IF InUpdate THEN Calls("cancel") /\ update' = [update EXCEPT !.status = "error"]
                 ELSE UNCHANGED used /\ update' = NoUpdate
  /\ NodeUnchanged /\ UNCHANGED <<job, node, boot, ask, reply>>

\* serviceFirmwareUpdate, from tick: send BeginFirmwareUpdate again, or give up
\* on a node that does not start or goes quiet.
BeginAgain ==
  /\ status = "active" /\ update.status = "starting" /\ update.begins < MaxBegins /\ FileFires
  /\ update' = [update EXCEPT !.begins = @ + 1]
  /\ FileSends([kind |-> "begin"])
  /\ NodeUnchanged /\ UNCHANGED <<job, node, boot, reply>>

UpdateTimeout ==
  /\ status = "active" /\ InUpdate /\ FileFires
  /\ update.status = "starting" => update.begins = MaxBegins
  /\ update' = [update EXCEPT !.status = "error"]
  /\ NodeUnchanged /\ UNCHANGED <<job, node, boot, ask, reply>>

\* handleBeginFirmwareUpdateResponse.
OnBegun(ok) ==
  /\ update' = IF update.status = "starting" /\ ~ok THEN [update EXCEPT !.status = "error"]
               ELSE update
  /\ UNCHANGED ask

\* What handleFileReadRequest makes of a read at offset k.
FullAt(m, k) == k < m.full
EmptyAt(m, k) == k >= Size(m)
EndAt(m, k) == IF k < Size(m) THEN k + 1 ELSE Size(m)
OneChunk(m) == Size(m) = 1

\* Mutant: the update ends with the last full chunk.
EndsWithFullChunks(k) ==
  [update EXCEPT !.served = EndAt(update.image, k),
                 !.status = IF k > 0 /\ k + 1 >= update.image.full THEN "completed" ELSE "in_progress"]

\* The update after a read at offset k: an answer that is not full ends the file,
\* and a first read past its end is a mistake of the node.
AfterRead(k) ==
  LET m == update.image
      progress == update.served > 0 \/ OneChunk(m)
      credited == ~EmptyAt(m, k) \/ progress
      served == IF credited /\ EndAt(m, k) > update.served THEN EndAt(m, k) ELSE update.served
  IN [update EXCEPT
        !.served = served,
        !.status = IF ~FullAt(m, k) /\ progress THEN "completed"
                   ELSE IF EmptyAt(m, k) /\ ~progress THEN "error" ELSE "in_progress"]

\* The answer to a read.
Chunk(k, tid) == [kind |-> "chunk", tid |-> tid, image |-> update.image.name, at |-> k,
                  last |-> ~FullAt(update.image, k), empty |-> EmptyAt(update.image, k)]

\* handleFileReadRequest: a completed update still answers, and stays as it is.
OnFileRead(k, tid) ==
  IF update.status \in {"none", "error"} THEN UNCHANGED <<update, ask>>
  ELSE /\ FileSends(Chunk(k, tid))
       /\ update' = IF update.status = "completed" THEN update ELSE AfterRead(k)

FileReceive ==
  /\ reply # <<>> /\ reply' = Tail(reply)
  /\ LET m == Head(reply)
     IN \/ status # "active" /\ UNCHANGED <<update, ask>>
        \/ status = "active" /\ m.kind = "begun" /\ OnBegun(m.ok)
        \/ status = "active" /\ m.kind = "fileRead" /\ OnFileRead(m.at, m.tid)
  /\ NodeUnchanged /\ UNCHANGED <<job, node, boot, used>>

------------------------------------------------------------------------------
(* External: the bootloader of the node.                                    *)

NodeReads(k, tid) == [kind |-> "fileRead", at |-> k, tid |-> tid]
NextTid == (boot.tid + 1) % TidMod

\* The node leaves its bootloader for what it has.
Boots == [node EXCEPT !.here = (node.flash[IdParam] = 0), !.ram = node.flash]

OnChunk(m) ==
  LET got == IF m.empty THEN boot.got ELSE Append(boot.got, <<m.image, m.at>>)
  IN IF m.tid # boot.tid \/ ~boot.reading THEN UNCHANGED <<node, boot, reply>>
     ELSE IF m.last
     THEN /\ boot' = [boot EXCEPT !.reading = FALSE, !.got = <<>>, !.runs = got]
          /\ node' = Boots /\ UNCHANGED reply
     ELSE /\ boot' = [boot EXCEPT !.ofs = @ + 1, !.tid = NextTid, !.got = got]
          /\ reply' = Fitting(reply, <<NodeReads(boot.ofs + 1, NextTid)>>)
          /\ UNCHANGED node

\* A begin that is late takes the node away from an Apply & Save, and its RAM.
BootServes ==
  /\ ask # <<>> /\ ask' = Tail(ask)
  /\ LET m == Head(ask)
     IN \/ m.kind = "chunk" /\ OnChunk(m) /\ UNCHANGED <<job, used>>
        \/ /\ m.kind = "begin" /\ (node.here \/ boot.reading) /\ UNCHANGED used /\ job' = NoJob
           /\ boot' = [boot EXCEPT !.reading = TRUE, !.ofs = 0, !.tid = NextTid, !.got = <<>>]
           /\ node' = [node EXCEPT !.here = FALSE]
           /\ reply' = Fitting(reply, <<[kind |-> "begun", ok |-> TRUE], NodeReads(0, NextTid)>>)
        \/ /\ m.kind = "begin" /\ (node.here \/ boot.reading) /\ Fault
           /\ reply' = Fitting(reply, <<[kind |-> "begun", ok |-> FALSE]>>)
           /\ UNCHANGED <<job, node, boot>>
        \/ /\ m.kind = "begin" /\ ~node.here /\ ~boot.reading
           /\ UNCHANGED <<job, node, boot, reply, used>>
  /\ NodeUnchanged /\ UNCHANGED update

\* No answer came: the node reads the same chunk again.
ReadsAgain ==
  /\ boot.reading /\ FileFires
  /\ boot' = [boot EXCEPT !.tid = NextTid]
  /\ reply' = Fitting(reply, <<NodeReads(boot.ofs, NextTid)>>)
  /\ NodeUnchanged /\ UNCHANGED <<job, node, update, ask>>

\* The operator cycles the power of a node that is left waiting for firmware.
PowerCycle ==
  /\ boot.reading /\ update.status \in {"none", "error"} /\ Calls("powerCycle")
  /\ boot' = [boot EXCEPT !.reading = FALSE, !.got = <<>>] /\ node' = Boots
  /\ NodeUnchanged /\ UNCHANGED <<job, update, ask, reply>>

FileLose ==
  /\ Fault
  /\ \/ ask # <<>> /\ ask' = Tail(ask) /\ UNCHANGED reply
     \/ reply # <<>> /\ reply' = Tail(reply) /\ UNCHANGED ask
  /\ NodeUnchanged /\ UNCHANGED <<job, node, update, boot>>

------------------------------------------------------------------------------
BusNext ==
  \/ Operator /\ ~InUpdate /\ UNCHANGED updating
  \/ Runs /\ UNCHANGED updating
  \/ Clearing /\ update' = NoUpdate /\ UNCHANGED <<boot, ask, reply>>
  \/ \E m \in Images : CallUpdate(m)
  \/ CallCancel \/ BeginAgain \/ UpdateTimeout \/ FileReceive
  \/ BootServes \/ ReadsAgain \/ PowerCycle \/ FileLose

BusSpec == BusInit /\ [][BusNext]_busVars

(* Fairness: the program and the tunnel do not stand still.  A timer that is *)
(* due fires, start() and stop() come back from their send, or something     *)
(* under way arrives or is lost; which of them comes first is left open, and *)
(* the node need not answer.  A node that reads a file goes on.              *)
BusFairSpec ==
  /\ BusSpec
  /\ WF_busVars(Proceeds /\ UNCHANGED updating)
  /\ WF_busVars(BeginAgain \/ UpdateTimeout \/ FileReceive \/ BootServes \/ ReadsAgain \/ FileLose)

------------------------------------------------------------------------------
(* Properties.                                                              *)

Whole(m) == [i \in 1..Size(m) |-> <<m.name, i - 1>>]

\* An update is reported as completed only when the node starts the whole image,
\* or has it but for the answer under way; unless the node was in its bootloader
\* when the update began (handleFileReadRequest, "a node left un-flashed but
\* reported as updated").
CompletedIsWhole ==
  update.status = "completed" /\ update.first =>
    \/ boot.runs = Whole(update.image)
    \/ boot.reading /\ Len(boot.got) + 1 >= Size(update.image)

\* What was begun ends.  A walk, a write and a SAVE do though the node never
\* answers again (MAX_GET_SET_RETRIES, MAX_WRITE_RETRIES, MAX_SAVE_RETRIES), and
\* so does an update; a node whose update is reported as completed leaves its
\* bootloader, though the answer that ends the file is lost
\* (handleFileReadRequest, "ignoring it would strand the node in its bootloader").
BusSettles ==
  /\ InProgress ~> ~InProgress
  /\ InUpdate ~> ~InUpdate
  /\ update.status = "completed" ~>
       ~boot.reading \/ update.status # "completed" \/ status # "active"
==============================================================================
