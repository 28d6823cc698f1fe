----------------------------- MODULE CanBusProofs ------------------------------
(***************************************************************************)
(* Invariants of the CAN bus service, for every list of parameters,         *)
(* batch, image and bound.                                                  *)
(*                                                                         *)
(* SaveAwaitsWrites needs nothing but the shape of the pending writes.      *)
(*                                                                         *)
(* CompleteWalkIsWhole is not inductive: the answer that ends the list is   *)
(* on its way long before it arrives.  WalkInv follows it back to the read  *)
(* that asked past the end, which a walk sends only when it has counted as  *)
(* many names as there are: as long as a name is missing, neither that read *)
(* nor its answer is under way.                                             *)
(*                                                                         *)
(* SavedBatchInFlash is about a SAVE that was sent when the writes had long *)
(* been acknowledged.  JobWriting holds while the SAVE waits: nothing is    *)
(* under way but requests of the job and answers to them, and a write that  *)
(* is not pending any more is in RAM.  JobSaving holds while the SAVE is    *)
(* under way: RAM has the whole batch, and an ack that comes is true of the *)
(* flash.  JobOver is the end.  A node that is still in its bootloader has  *)
(* answered nothing (BootInv).                                              *)
(*                                                                         *)
(* CompletedIsWhole is about what the node holds when it asks for the end   *)
(* of the file (FileInv, in the last part).                                *)
(***************************************************************************)
EXTENDS CanBus, FiniteSetTheorems, SequenceTheorems, TLAPS

------------------------------------------------------------------------------
(* What is on the wire.                                                     *)

UpMsg ==
  [kind : {"read"}, index : Nat] \cup [kind : {"write"}, name : Param, value : {0, 1}]
    \cup {Save, Restart}
DownMsg ==
  [kind : {"param"}, name : Param] \cup {[kind |-> "end"]} \cup [kind : {"saved"}, ok : BOOLEAN]

\* Requests that do not ask past the end of the list, and answers that do not
\* tell its end.
Early == {m \in UpMsg : m.kind = "read" => m.index < Len(Names)}
NoEnd == {m \in DownMsg : m.kind # "end"}

\* What a call of applyAndSave has left to send.
Todo == Seq(Write) \ {<<>>}

Pending == [value : {0, 1}, tries : Nat]

WalkType ==
  [status : {"idle", "fetching", "complete", "stopped"}, next : Nat, tries : Nat,
   held : SUBSET Param]

\* The types of the walk, the writes and the wire.
Shape ==
  /\ walk \in WalkType
  /\ DOMAIN pending \subseteq Param /\ pending \in [DOMAIN pending -> Pending]
  /\ saveAfter \in BOOLEAN
  /\ loops \in Seq(Todo)
  /\ up \in Seq(UpMsg) /\ down \in Seq(DownMsg)
  /\ cleanWalk \in BOOLEAN

WalkInv ==
  /\ walk.next <= Cardinality(walk.held)
  /\ cleanWalk /\ walk.held # Param =>
       walk.status # "complete" /\ up \in Seq(Early) /\ down \in Seq(NoEnd)

BusInv == Shape /\ WalkInv /\ SaveAwaitsWrites

\* There are no more parameters than names in the list.
LEMMA ParamsCounted ==
  IsFiniteSet(Param) /\ Cardinality(Param) <= Len(Names) /\ Len(Names) \in Nat \ {0}
<1>1. Names \in [1..Len(Names) -> Param] /\ Len(Names) \in Nat /\ DOMAIN Names = 1..Len(Names)
  BY NamesAssumption, LenProperties
<1>2. Names \in Surjection(1..Len(Names), Param)
  BY <1>1 DEF Surjection, Param, Range
<1>3. IsFiniteSet(1..Len(Names)) /\ Cardinality(1..Len(Names)) = Len(Names)
  <2>1. \A n \in Nat : IsFiniteSet(1..n) /\ Cardinality(1..n) = IF 1 > n THEN 0 ELSE n - 1 + 1
    BY FS_Interval
  <2>2. \A n \in Nat : (IF 1 > n THEN 0 ELSE n - 1 + 1) = n
    OBVIOUS
  <2> QED BY <1>1, <2>1, <2>2
<1>4. Len(Names) # 0
  BY <1>1, NamesAssumption DEF Param, Range
<1> QED BY <1>1, <1>2, <1>3, <1>4, FS_Surjection

\* The names a walk holds are no more than there are, and all of them when as many.
LEMMA HeldCounted ==
  ASSUME NEW held \in SUBSET Param
  PROVE  /\ IsFiniteSet(held) /\ Cardinality(held) \in Nat
         /\ held # Param => Cardinality(held) < Len(Names)
<1>1. IsFiniteSet(held) /\ Cardinality(held) <= Cardinality(Param)
        /\ (Cardinality(Param) = Cardinality(held) => Param = held)
  BY ParamsCounted, FS_Subset
<1>2. Cardinality(held) \in Nat /\ Cardinality(Param) \in Nat
  BY <1>1, ParamsCounted, FS_CardinalityType
<1> QED BY <1>1, <1>2, ParamsCounted

\* The tunnel adds nothing.
LEMMA FittingType ==
  ASSUME NEW S, NEW q \in Seq(S), NEW ms \in Seq(S)
  PROVE  Fitting(q, ms) \in Seq(S)
<1> DEFINE all == q \o ms
           n == IF Len(all) < MaxWire THEN Len(all) ELSE MaxWire
<1>1. all \in Seq(S) /\ Len(all) \in Nat
  BY ConcatProperties, LenProperties
<1>2. n \in Int /\ n <= Len(all)
  BY <1>1, WireAssumption
<1>3. \A i \in 1..n : all[i] \in S
  BY <1>1, <1>2, ElementOfSeq
<1> HIDE DEF all, n
<1>4. SubSeq(all, 1, n) \in Seq(S)
  BY <1>2, <1>3, SubSeqProperties
<1> QED BY <1>4 DEF Fitting, all, n

LEMMA SendsType ==
  ASSUME NEW S, NEW ms \in Seq(S), up \in Seq(S), Sends(ms)
  PROVE  up' \in Seq(S)
BY FittingType DEF Sends

LEMMA AnswersType ==
  ASSUME NEW S, NEW m \in S, down \in Seq(S), Answers(m)
  PROVE  down' \in Seq(S)
<1>1. <<m>> \in Seq(S)
  OBVIOUS
<1> QED BY <1>1, FittingType DEF Answers

\* Every request but a read is early.
LEMMA EarlyRequests ==
  /\ Early \subseteq UpMsg
  /\ Save \in Early /\ Restart \in Early
  /\ \A n \in Param, v \in {0, 1} : WriteOf(n, v) \in Early
  /\ \A i \in Nat : ReadOf(i) \in UpMsg /\ (i < Len(Names) => ReadOf(i) \in Early)
BY DEF Early, UpMsg, Save, Restart, WriteOf, ReadOf

\* When no answer to a walk is due, nothing under way tells the end of the list.
LEMMA NotReading ==
  ASSUME Shape, ~Reading
  PROVE  up \in Seq(Early) /\ down \in Seq(NoEnd)
<1>1. Len(up) \in Nat /\ DOMAIN up = 1..Len(up) /\ up \in [1..Len(up) -> UpMsg]
  BY LenProperties DEF Shape
<1>2. Len(down) \in Nat /\ DOMAIN down = 1..Len(down) /\ down \in [1..Len(down) -> DownMsg]
  BY LenProperties DEF Shape
<1>3. up \in [1..Len(up) -> Early]
  BY <1>1 DEF Reading, Early
<1>4. down \in [1..Len(down) -> NoEnd]
  BY <1>2 DEF Reading, NoEnd
<1> QED BY <1>1, <1>2, <1>3, <1>4, SeqDef

LEMMA SendsEarly ==
  ASSUME Shape, NEW ms \in Seq(Early), Sends(ms)
  PROVE  up' \in Seq(UpMsg) /\ (up \in Seq(Early) => up' \in Seq(Early))
<1>1. ms \in Seq(UpMsg)
  BY EarlyRequests, SeqMonotonic
<1> QED BY <1>1, SendsType DEF Shape

\* What remains of a queue when its head is taken.
LEMMA TailType ==
  ASSUME NEW S, NEW q \in Seq(S), q # <<>>
  PROVE  Head(q) \in S /\ Tail(q) \in Seq(S)
BY HeadTailProperties

LEMMA FunctionIsSeq == ASSUME NEW S, NEW n \in Nat, NEW f \in [1..n -> S] PROVE f \in Seq(S)
BY SeqDef

\* A sequence that has an element is not empty.
LEMMA NonEmpty == \A q : Len(q) > 0 => q # <<>>
<1>1. Len(<<>>) = 0
  OBVIOUS
<1> QED BY <1>1

------------------------------------------------------------------------------
(* The pieces of the handlers.                                              *)

\* A step that leaves the walk alone, and adds to the wire neither a read past
\* the end nor the end of the list.
LEMMA WalkUndisturbed ==
  ASSUME WalkInv, UNCHANGED <<walk, cleanWalk>>,
         up \in Seq(Early) => up' \in Seq(Early), down \in Seq(NoEnd) => down' \in Seq(NoEnd)
  PROVE  WalkInv'
BY DEF WalkInv

\* A walk that starts over.
LEMMA WalkBegun ==
  ASSUME Shape, NEW held \in SUBSET Param, WalkBegins(held), Sends(<<ReadOf(0)>>),
         down \in Seq(NoEnd) => down' \in Seq(NoEnd)
  PROVE  /\ WalkInv' /\ up' \in Seq(UpMsg) /\ cleanWalk' \in BOOLEAN
         /\ walk' \in WalkType
<1>1. <<ReadOf(0)>> \in Seq(Early)
  BY EarlyRequests, ParamsCounted
<1>2. up' \in Seq(UpMsg) /\ (up \in Seq(Early) => up' \in Seq(Early))
  BY <1>1, SendsEarly
<1>3. /\ walk'.next = 0 /\ walk'.held = held /\ walk'.status = "fetching"
      /\ walk' \in WalkType
  BY DEF WalkBegins, WalkType
<1>4. 0 <= Cardinality(held)
  BY HeldCounted
<1>5. cleanWalk' \in BOOLEAN
  BY DEF WalkBegins
<1>6. cleanWalk' => up' \in Seq(Early) /\ down' \in Seq(NoEnd)
  BY <1>2, NotReading DEF WalkBegins
<1>7. WalkInv'
  BY <1>3, <1>4, <1>6 DEF WalkInv
<1> QED BY <1>2, <1>3, <1>5, <1>7

\* Registered writes are writes of parameters.
LEMMA PutAllType ==
  ASSUME Shape, NEW b \in Seq(Write), b # <<>>
  PROVE  LET p == PutAll(pending, b)
         IN DOMAIN p # {} /\ DOMAIN p \subseteq Param /\ p \in [DOMAIN p -> Pending]
<1> DEFINE p == PutAll(pending, b)
           D == DOMAIN pending \cup {w.name : w \in Range(b)}
<1>1. Len(b) \in Nat \ {0} /\ b \in [1..Len(b) -> Write] /\ DOMAIN b = 1..Len(b)
  BY EmptySeq, LenProperties
<1>2. Range(b) \subseteq Write /\ b[1] \in Range(b)
  BY <1>1 DEF Range
<1>3. DOMAIN p = D
  BY DEF PutAll
<1>4. D \subseteq Param /\ b[1].name \in D
  BY <1>2 DEF Shape, Write
<1>5. ASSUME NEW n \in D PROVE p[n] \in Pending
  <2>1. CASE \E w \in Range(b) : w.name = n
    <3> DEFINE c == CHOOSE w \in Range(b) : w.name = n
    <3>1. c \in Range(b)
      BY <2>1
    <3>2. c.value \in {0, 1}
      BY <3>1, <1>2 DEF Write
    <3>3. p[n] = [value |-> c.value, tries |-> 1]
      BY <2>1 DEF PutAll
    <3> QED BY <3>2, <3>3 DEF Pending
  <2>2. CASE ~\E w \in Range(b) : w.name = n
    <3>1. n \in DOMAIN pending /\ p[n] = pending[n]
      BY <2>2 DEF PutAll
    <3> QED BY <3>1 DEF Shape
  <2> QED BY <2>1, <2>2
<1>6. p \in [D -> Pending]
  BY <1>5 DEF PutAll
<1> HIDE DEF p, D
<1>7. DOMAIN p # {} /\ DOMAIN p \subseteq Param /\ p \in [DOMAIN p -> Pending]
  BY <1>3, <1>4, <1>6
<1> QED BY <1>7 DEF p

\* The end of the pending writes: the service has none, or keeps some of them.
LEMMA WithoutType ==
  ASSUME Shape, NEW ns
  PROVE  LET p == Without(pending, ns)
         IN DOMAIN p = DOMAIN pending \ ns /\ DOMAIN p \subseteq Param /\ p \in [DOMAIN p -> Pending]
BY DEF Shape, Without

------------------------------------------------------------------------------
(* One lemma per kind of step.                                              *)

LEMMA InitInv == BusInit => BusInv
<1> SUFFICES ASSUME Init PROVE BusInv
  BY DEF BusInit
<1>1. Cardinality({}) = 0
  BY FS_EmptySet
<1>2. Shape
  BY EmptySeq DEF Init, Shape, NoWalk, NoWrites, Pending, WalkType
<1>3. WalkInv
  BY <1>1 DEF Init, WalkInv, NoWalk
<1> QED BY <1>2, <1>3 DEF BusInv, SaveAwaitsWrites, Init

\* Steps that leave the walk, the writes and the wire of the parameters alone.
LEMMA QuietStep ==
  ASSUME BusInv, UNCHANGED <<walk, pending, saveAfter, loops, up, down, cleanWalk>>
  PROVE  BusInv'
BY DEF BusInv, Shape, WalkInv, SaveAwaitsWrites

\* Steps that send something, and change neither the walk nor the writes.
LEMMA SendStep ==
  ASSUME BusInv, NEW ms \in Seq(Early), Sends(ms),
         UNCHANGED <<walk, pending, saveAfter, loops, down, cleanWalk>>
  PROVE  BusInv'
<1>1. up' \in Seq(UpMsg) /\ (up \in Seq(Early) => up' \in Seq(Early))
  BY SendsEarly DEF BusInv
<1>2. WalkInv'
  BY <1>1, WalkUndisturbed DEF BusInv
<1> QED BY <1>1, <1>2 DEF BusInv, Shape, SaveAwaitsWrites

LEMMA ApplyStep ==
  ASSUME BusInv, NEW b \in Seq(Write), ApplyAndSave(b), UNCHANGED <<walk, down, cleanWalk>>
  PROVE  BusInv'
<1>1. CASE b = <<>>
  <2>1. <<Save>> \in Seq(Early)
    BY EarlyRequests
  <2> QED BY <1>1, <2>1, SendStep DEF ApplyAndSave
<1>2. CASE b # <<>>
  <2>1. Head(b) \in Write /\ Tail(b) \in Seq(Write) /\ Len(Tail(b)) = Len(b) - 1 /\ Len(b) \in Nat
    BY <1>2, HeadTailProperties, LenProperties
  <2>2. <<WriteOf(Head(b).name, Head(b).value)>> \in Seq(Early)
    BY <2>1, EarlyRequests DEF Write
  <2>3. up' \in Seq(UpMsg) /\ (up \in Seq(Early) => up' \in Seq(Early))
    BY <1>2, <2>2, SendsEarly DEF ApplyAndSave, BusInv
  <2>4. WalkInv'
    BY <2>3, WalkUndisturbed DEF BusInv
  <2>5. DOMAIN pending' # {} /\ DOMAIN pending' \subseteq Param
          /\ pending' \in [DOMAIN pending' -> Pending]
    BY <1>2, PutAllType DEF ApplyAndSave, BusInv
  <2>6. loops' \in Seq(Todo)
    <3>1. CASE Len(b) > 1
      <4>0. Len(Tail(b)) > 0
        BY <2>1, <3>1
      <4>1. Tail(b) # <<>>
        BY <4>0, NonEmpty, Zenon
      <4>2. Tail(b) \in Todo
        BY <2>1, <4>1 DEF Todo
      <4>3. loops \in Seq(Todo) /\ loops' = Append(loops, Tail(b))
        BY <1>2, <3>1 DEF ApplyAndSave, BusInv, Shape
      <4> QED BY <4>2, <4>3, AppendProperties
    <3>2. CASE ~(Len(b) > 1)
      BY <1>2, <3>2 DEF ApplyAndSave, BusInv, Shape
    <3> QED BY <3>1, <3>2
  <2>7. saveAfter' = TRUE
    BY <1>2 DEF ApplyAndSave
  <2>8. Shape'
    BY <2>3, <2>5, <2>6, <2>7 DEF BusInv, Shape
  <2> QED BY <2>4, <2>5, <2>8 DEF BusInv, SaveAwaitsWrites
<1> QED BY <1>1, <1>2

LEMMA WriteStep ==
  ASSUME BusInv, NEW w \in Write, CallWrite(w)
  PROVE  BusInv'
<1>1. <<w>> \in Seq(Write) /\ <<w>> # <<>>
  OBVIOUS
<1>2. <<WriteOf(w.name, w.value)>> \in Seq(Early)
  BY EarlyRequests DEF Write
<1>3. up' \in Seq(UpMsg) /\ (up \in Seq(Early) => up' \in Seq(Early))
  BY <1>2, SendsEarly DEF CallWrite, BusInv
<1>4. WalkInv'
  BY <1>3, WalkUndisturbed DEF BusInv, CallWrite
<1>5. DOMAIN pending' # {} /\ DOMAIN pending' \subseteq Param
        /\ pending' \in [DOMAIN pending' -> Pending]
  BY <1>1, PutAllType DEF CallWrite, BusInv
<1>6. Shape'
  BY <1>3, <1>5 DEF CallWrite, BusInv, Shape
<1> QED BY <1>4, <1>5, <1>6 DEF BusInv, SaveAwaitsWrites

\* The calls of the operator.
LEMMA OperatorStep == ASSUME BusInv, Operator PROVE BusInv'
<1>1. ASSUME NEW b \in Batches, CallApply(b) PROVE BusInv'
  <2>1. b \in Seq(Write)
    BY BatchAssumption
  <2> QED BY <1>1, <2>1, ApplyStep DEF CallApply
<1>2. ASSUME NEW b \in Batches, Len(b) = 1, CallWrite(b[1]) PROVE BusInv'
  <2>1. b \in Seq(Write)
    BY BatchAssumption
  <2>2. b[1] \in Write
    BY <1>2, <2>1, ElementOfSeq
  <2> QED BY <1>2, <2>2, WriteStep
<1>3. ASSUME NEW v \in {0, 1}, CallChangeNodeId(v) PROVE BusInv'
  <2>1. <<[name |-> IdParam, value |-> v]>> \in Seq(Write)
    BY NamesAssumption DEF Write
  <2> QED BY <1>3, <2>1, ApplyStep DEF CallChangeNodeId
<1>4. ASSUME CallSave PROVE BusInv'
  <2>1. <<Save>> \in Seq(Early)
    BY EarlyRequests
  <2> QED BY <1>4, <2>1, SendStep, QuietStep DEF CallSave
<1>5. ASSUME CallRestart PROVE BusInv'
  <2>1. <<Restart>> \in Seq(Early)
    BY EarlyRequests
  <2> QED BY <1>5, <2>1, SendStep DEF CallRestart, queues
<1>6. ASSUME CallFetchAll PROVE BusInv'
  <2>1. WalkBegins({}) /\ Sends(<<ReadOf(0)>>) /\ UNCHANGED <<pending, saveAfter, loops, down>>
    BY <1>6 DEF CallFetchAll, queues
  <2>2. /\ WalkInv' /\ up' \in Seq(UpMsg) /\ cleanWalk' \in BOOLEAN
        /\ walk' \in WalkType
    BY <2>1, WalkBegun DEF BusInv
  <2> QED BY <2>1, <2>2 DEF BusInv, Shape, SaveAwaitsWrites
<1> QED BY <1>1, <1>2, <1>3, <1>4, <1>5, <1>6 DEF Operator

\* applyAndSave sends its next write.
LEMMA SendNextStep == ASSUME BusInv, NEW i \in DOMAIN loops, SendNext(i) PROVE BusInv'
<1>1. loops \in Seq(Todo) /\ Len(loops) \in Nat /\ i \in 1..Len(loops)
  BY LenProperties DEF BusInv, Shape
<1>2. loops[i] \in Todo
  BY <1>1, ElementOfSeq
<1>3. loops[i] \in Seq(Write) /\ loops[i] # <<>>
  BY <1>2 DEF Todo
<1>4. Head(loops[i]) \in Write /\ Tail(loops[i]) \in Seq(Write)
        /\ Len(Tail(loops[i])) = Len(loops[i]) - 1 /\ Len(loops[i]) \in Nat
  BY <1>3, HeadTailProperties, LenProperties
<1>5. <<WriteOf(Head(loops[i]).name, Head(loops[i]).value)>> \in Seq(Early)
  BY <1>4, EarlyRequests DEF Write
<1>6. up' \in Seq(UpMsg) /\ (up \in Seq(Early) => up' \in Seq(Early))
  BY <1>5, SendsEarly DEF SendNext, BusInv
<1>7. WalkInv'
  BY <1>6, WalkUndisturbed DEF BusInv, SendNext
<1>8. loops' \in Seq(Todo)
  <2>1. CASE Len(loops[i]) > 1
    <3>1. Tail(loops[i]) # <<>>
      BY <1>4, <2>1, NonEmpty
    <3>2. Tail(loops[i]) \in Todo
      BY <1>4, <3>1 DEF Todo
    <3>3. loops' = [loops EXCEPT ![i] = Tail(loops[i])]
      BY <2>1, <1>1 DEF SendNext
    <3> QED BY <1>1, <3>2, <3>3, ExceptSeq
  <2>2. CASE ~(Len(loops[i]) > 1)
    <3>1. loops' = SubSeq(loops, 1, i - 1) \o SubSeq(loops, i + 1, Len(loops))
      BY <2>2 DEF SendNext, RemoveAt
    <3>2. \A k \in 1..Len(loops) : loops[k] \in Todo
      BY <1>1, ElementOfSeq
    <3>3. SubSeq(loops, 1, i - 1) \in Seq(Todo)
      BY <1>1, <3>2, SubSeqProperties
    <3>4. SubSeq(loops, i + 1, Len(loops)) \in Seq(Todo)
      BY <1>1, <3>2, SubSeqProperties
    <3> QED BY <3>1, <3>3, <3>4, ConcatProperties
  <2> QED BY <2>1, <2>2
<1>9. Shape'
  BY <1>6, <1>8 DEF BusInv, Shape, SendNext, queues
<1> QED BY <1>7, <1>9 DEF BusInv, SaveAwaitsWrites, SendNext, queues

\* The entry goes, or everything.
LEMMA ForgetStep ==
  ASSUME BusInv, walk' = NoWalk, cleanWalk' = FALSE, UNCHANGED <<loops, up, down>>,
         \/ UNCHANGED <<pending, saveAfter>>
         \/ pending' = NoWrites /\ saveAfter' = FALSE
  PROVE  BusInv'
<1>1. Cardinality({}) = 0
  BY FS_EmptySet
<1>2. WalkInv'
  BY <1>1 DEF WalkInv, NoWalk
<1>3. Shape'
  <2>1. CASE UNCHANGED <<pending, saveAfter>>
    BY <2>1 DEF BusInv, Shape, NoWalk, WalkType
  <2>2. CASE pending' = NoWrites /\ saveAfter' = FALSE
    BY <2>2 DEF BusInv, Shape, NoWalk, NoWrites, WalkType
  <2> QED BY <2>1, <2>2
<1>4. SaveAwaitsWrites'
  BY DEF BusInv, SaveAwaitsWrites
<1> QED BY <1>2, <1>3, <1>4 DEF BusInv

\* tick.
LEMMA TickStep ==
  ASSUME BusInv, NEW due \in SUBSET DOMAIN pending, NEW walkDue \in BOOLEAN, Tick(due, walkDue)
  PROVE  BusInv'
<1> DEFINE spent == {n \in due : pending[n].tries >= MaxWriteTries}
           asks == walkDue /\ walk.tries + 1 <= MaxWalkTries
           left == DOMAIN pending \ spent
           rest == due \ spent
           writes(again) == [k \in DOMAIN again |-> WriteOf(again[k], pending[again[k]].value)]
           read == IF asks THEN <<ReadOf(walk.next)>> ELSE <<>>
<1>1. PICK again \in SetToSeqs(rest) : Sends(writes(again) \o read)
  BY DEF Tick
<1>2. writes(again) \in Seq(Early)
  <2>1. rest \in SUBSET Param
    BY DEF BusInv, Shape
  <2>2. Cardinality(rest) \in Nat
    BY <2>1, HeldCounted
  <2>3. again \in [1..Cardinality(rest) -> rest]
    BY DEF SetToSeqs
  <2>4. \A n \in rest : WriteOf(n, pending[n].value) \in Early
    BY EarlyRequests DEF BusInv, Shape, Pending
  <2>5. writes(again) \in [1..Cardinality(rest) -> Early]
    BY <2>3, <2>4
  <2> HIDE DEF writes
  <2> QED BY <2>2, <2>5, FunctionIsSeq
<1>3. /\ walk.next \in Nat /\ walk.held \in SUBSET Param /\ walk.tries \in Nat
      /\ walk.next <= Cardinality(walk.held)
  BY DEF BusInv, Shape, WalkInv, WalkType
<1>4. read \in Seq(UpMsg) /\ (walk.held # Param => read \in Seq(Early))
  <2>1. ReadOf(walk.next) \in UpMsg
    BY <1>3, EarlyRequests
  <2>2. walk.held # Param => walk.next < Len(Names)
    BY <1>3, HeldCounted, ParamsCounted
  <2>3. walk.held # Param => ReadOf(walk.next) \in Early
    BY <1>3, <2>2, EarlyRequests
  <2> QED BY <2>1, <2>3, EmptySeq
<1>5. up' \in Seq(UpMsg) /\ (up \in Seq(Early) /\ walk.held # Param => up' \in Seq(Early))
  <2>1. writes(again) \in Seq(UpMsg)
    BY <1>2, EarlyRequests, SeqMonotonic
  <2>2. writes(again) \o read \in Seq(UpMsg)
    BY <2>1, <1>4, ConcatProperties
  <2>3. walk.held # Param => writes(again) \o read \in Seq(Early)
    BY <1>2, <1>4, ConcatProperties
  <2> QED BY <1>1, <2>2, <2>3, SendsType DEF BusInv, Shape
<1>6. /\ walk' \in WalkType
      /\ walk'.next = walk.next /\ walk'.held = walk.held
      /\ walk'.status = walk.status \/ walk'.status = "stopped"
  <2>1. walk' = IF ~walkDue THEN walk
                ELSE IF asks THEN [walk EXCEPT !.tries = walk.tries + 1]
                ELSE [walk EXCEPT !.status = "stopped", !.tries = 0]
    BY DEF Tick
  <2> HIDE DEF asks
  <2>2. CASE ~walkDue
    BY <2>1, <2>2 DEF BusInv, Shape
  <2>3. CASE walkDue /\ asks
    <3>1. walk' = [walk EXCEPT !.tries = walk.tries + 1]
      BY <2>1, <2>3
    <3>2. walk.tries + 1 \in Nat
      BY <1>3
    <3> QED BY <3>1, <3>2 DEF BusInv, Shape, WalkType
  <2>4. CASE walkDue /\ ~asks
    BY <2>1, <2>4, <1>3 DEF BusInv, Shape, WalkType
  <2> QED BY <2>2, <2>3, <2>4
<1>7. DOMAIN pending' = left /\ left \subseteq Param /\ pending' \in [DOMAIN pending' -> Pending]
  <2>1. pending' = [n \in left |-> [pending[n] EXCEPT !.tries = IF n \in due THEN @ + 1 ELSE @]]
    BY DEF Tick
  <2>2. \A n \in left : [pending[n] EXCEPT !.tries = IF n \in due THEN @ + 1 ELSE @] \in Pending
    BY DEF BusInv, Shape, Pending
  <2> QED BY <2>1, <2>2 DEF BusInv, Shape
<1>8. saveAfter' \in BOOLEAN /\ (saveAfter' => saveAfter /\ spent = {})
  BY DEF Tick
<1>9. UNCHANGED <<loops, down, cleanWalk>>
  BY DEF Tick
<1>10. Shape'
  BY <1>5, <1>6, <1>7, <1>8, <1>9 DEF BusInv, Shape
<1>11. WalkInv'
  BY <1>5, <1>6, <1>9 DEF BusInv, WalkInv
<1>12. SaveAwaitsWrites'
  BY <1>7, <1>8 DEF BusInv, SaveAwaitsWrites
<1> QED BY <1>10, <1>11, <1>12 DEF BusInv

------------------------------------------------------------------------------
(* What arrives.                                                            *)

\* A message is taken off the wire of the answers.
LEMMA Taken ==
  ASSUME BusInv, down # <<>>, down' = Tail(down)
  PROVE  /\ Head(down) \in DownMsg /\ down' \in Seq(DownMsg)
         /\ down \in Seq(NoEnd) => Head(down) \in NoEnd /\ down' \in Seq(NoEnd)
BY TailType DEF BusInv, Shape

\* An answer that names a parameter.
LEMMA ParamStep ==
  ASSUME BusInv, NEW n \in Param, OnParam(n), UNCHANGED loops,
         down' \in Seq(DownMsg), down \in Seq(NoEnd) => down' \in Seq(NoEnd)
  PROVE  BusInv'
<1> DEFINE left == Without(pending, {n})
           saves == saveAfter /\ DOMAIN left = {}
           first == IF saves THEN <<Save>> ELSE <<>>
           second == IF Fresh(n) THEN <<ReadOf(walk.next + 1)>> ELSE <<>>
<1>1. /\ walk.next \in Nat /\ walk.held \in SUBSET Param
      /\ walk.next <= Cardinality(walk.held)
  BY DEF BusInv, Shape, WalkInv, WalkType
<1>2. pending' = left /\ DOMAIN left \subseteq Param /\ left \in [DOMAIN left -> Pending]
  BY WithoutType DEF OnParam, BusInv
<1>3. saveAfter' \in BOOLEAN /\ (saveAfter' => DOMAIN left # {})
  BY DEF OnParam
<1>4. first \in Seq(Early)
  BY EarlyRequests, EmptySeq
<1>5. CASE Fresh(n)
  <2>1. /\ walk' \in WalkType
        /\ walk'.held = walk.held \cup {n} /\ walk'.next = walk.next + 1
        /\ walk'.status = walk.status
    <3>1. walk' = [walk EXCEPT !.held = walk.held \cup {n}, !.next = walk.next + 1, !.tries = 0]
      BY <1>5 DEF OnParam
    <3>2. walk.next + 1 \in Nat /\ walk.held \cup {n} \in SUBSET Param
      BY <1>1
    <3> QED BY <3>1, <3>2 DEF BusInv, Shape, WalkType
  <2>2. Cardinality(walk'.held) = Cardinality(walk.held) + 1 /\ Cardinality(walk.held) \in Nat
    BY <1>1, <1>5, <2>1, HeldCounted, FS_AddElement DEF Fresh
  <2>3. walk'.next <= Cardinality(walk'.held)
    BY <1>1, <2>1, <2>2
  <2>4. walk'.held # Param => walk.next + 1 < Len(Names)
    BY <2>1, <2>2, <2>3, <1>1, HeldCounted, ParamsCounted
  <2>5. ReadOf(walk.next + 1) \in UpMsg /\ (walk'.held # Param => ReadOf(walk.next + 1) \in Early)
    BY <1>1, <2>4, EarlyRequests
  <2>6. second \in Seq(UpMsg) /\ (walk'.held # Param => second \in Seq(Early))
    BY <1>5, <2>5
  <2>7. first \in Seq(UpMsg)
    BY <1>4, EarlyRequests, SeqMonotonic
  <2>8. Sends(first \o second)
    BY DEF OnParam
  <2>9. first \o second \in Seq(UpMsg) /\ (walk'.held # Param => first \o second \in Seq(Early))
    BY <1>4, <2>6, <2>7, ConcatProperties
  <2>10. up' \in Seq(UpMsg) /\ (walk'.held # Param /\ up \in Seq(Early) => up' \in Seq(Early))
    BY <2>8, <2>9, SendsType DEF BusInv, Shape
  <2>11. walk'.held # Param => walk.held # Param
    BY <1>1, <2>1
  <2>12. cleanWalk' = cleanWalk
    BY DEF OnParam
  <2>13. WalkInv'
    BY <2>1, <2>3, <2>10, <2>11, <2>12 DEF WalkInv, BusInv
  <2>14. Shape'
    BY <1>2, <1>3, <2>1, <2>10, <2>12 DEF BusInv, Shape
  <2> QED BY <1>2, <1>3, <2>13, <2>14 DEF BusInv, SaveAwaitsWrites
<1>6. CASE ~Fresh(n)
  <2>1. first \o second = first
    BY <1>4, <1>6, ConcatEmptySeq
  <2>2. Sends(first)
    BY <2>1 DEF OnParam
  <2>3. up' \in Seq(UpMsg) /\ (up \in Seq(Early) => up' \in Seq(Early))
    BY <1>4, <2>2, SendsEarly DEF BusInv
  <2>4. UNCHANGED <<walk, cleanWalk>>
    BY <1>6 DEF OnParam
  <2>5. WalkInv'
    BY <2>3, <2>4, WalkUndisturbed DEF BusInv
  <2>6. Shape'
    BY <1>2, <1>3, <2>3, <2>4 DEF BusInv, Shape
  <2> QED BY <1>2, <1>3, <2>5, <2>6 DEF BusInv, SaveAwaitsWrites
<1> QED BY <1>5, <1>6

\* The answer that ends the list: nothing is missing then.
LEMMA EndStep ==
  ASSUME BusInv, down # <<>>, down' = Tail(down), Head(down).kind = "end", OnEnd, UNCHANGED loops
  PROVE  BusInv'
<1>1. cleanWalk => walk.held = Param
  BY Taken DEF BusInv, WalkInv, NoEnd
<1>2. walk' \in WalkType
        /\ walk'.held = walk.held /\ walk'.next = walk.next
  BY DEF OnEnd, BusInv, Shape, WalkType
<1>3. UNCHANGED <<pending, saveAfter, up, cleanWalk>> /\ down' \in Seq(DownMsg)
  BY Taken DEF OnEnd, queues
<1>4. WalkInv'
  BY <1>1, <1>2, <1>3 DEF BusInv, WalkInv
<1>5. Shape'
  BY <1>2, <1>3 DEF BusInv, Shape
<1> QED BY <1>3, <1>4, <1>5 DEF BusInv, SaveAwaitsWrites

\* The acknowledgement of a SAVE.
LEMMA SavedStep ==
  ASSUME BusInv, NEW ok, OnSaved(ok), UNCHANGED loops,
         down' \in Seq(DownMsg), down \in Seq(NoEnd) => down' \in Seq(NoEnd)
  PROVE  BusInv'
<1>1. UNCHANGED <<pending, saveAfter>>
  BY DEF OnSaved, queues
<1>2. CASE WalkBegins({}) /\ Sends(<<ReadOf(0)>>)
  <2>1. /\ WalkInv' /\ up' \in Seq(UpMsg) /\ cleanWalk' \in BOOLEAN
        /\ walk' \in WalkType
    BY <1>2, WalkBegun DEF BusInv
  <2> QED BY <1>1, <2>1 DEF BusInv, Shape, SaveAwaitsWrites
<1>3. CASE UNCHANGED <<walk, cleanWalk>> /\ (UNCHANGED up \/ Sends(<<Restart>>))
  <2>1. <<Restart>> \in Seq(Early)
    BY EarlyRequests
  <2>2. up' \in Seq(UpMsg) /\ (up \in Seq(Early) => up' \in Seq(Early))
    BY <1>3, <2>1, SendsEarly DEF BusInv, Shape
  <2>3. WalkInv'
    BY <1>3, <2>2, WalkUndisturbed DEF BusInv
  <2> QED BY <1>1, <1>3, <2>2, <2>3 DEF BusInv, Shape, SaveAwaitsWrites
<1>4. \/ WalkBegins({}) /\ Sends(<<ReadOf(0)>>)
      \/ UNCHANGED <<walk, cleanWalk>> /\ (UNCHANGED up \/ Sends(<<Restart>>))
  BY DEF OnSaved
<1> QED BY <1>2, <1>3, <1>4

\* processCanFrame.
LEMMA ReceiveStep == ASSUME BusInv, Receive PROVE BusInv'
<1>1. down # <<>> /\ down' = Tail(down) /\ UNCHANGED loops
  BY DEF Receive
<1>2. /\ Head(down) \in DownMsg /\ down' \in Seq(DownMsg)
      /\ down \in Seq(NoEnd) => down' \in Seq(NoEnd)
  BY <1>1, Taken
<1>3. CASE UNCHANGED <<walk, queues, up, cleanWalk>>
  <2>1. UNCHANGED <<walk, pending, saveAfter, up, cleanWalk>>
    BY <1>3 DEF queues
  <2>2. WalkInv'
    BY <1>2, <2>1, WalkUndisturbed DEF BusInv
  <2> QED BY <1>1, <1>2, <2>1, <2>2 DEF BusInv, Shape, SaveAwaitsWrites
<1>4. CASE Head(down).kind = "param" /\ OnParam(Head(down).name)
  <2>1. Head(down).name \in Param
    BY <1>2, <1>4 DEF DownMsg
  <2> QED BY <1>1, <1>2, <1>4, <2>1, ParamStep
<1>5. CASE Head(down).kind = "end" /\ OnEnd
  BY <1>1, <1>5, EndStep
<1>6. CASE Head(down).kind = "saved" /\ OnSaved(Head(down).ok)
  BY <1>1, <1>2, <1>6, SavedStep
<1>7. \/ UNCHANGED <<walk, queues, up, cleanWalk>>
      \/ Head(down).kind = "param" /\ OnParam(Head(down).name)
      \/ Head(down).kind = "end" /\ OnEnd
      \/ Head(down).kind = "saved" /\ OnSaved(Head(down).ok)
  BY DEF Receive
<1> QED BY <1>3, <1>4, <1>5, <1>6, <1>7

\* The node answers past the end of the list only when it is asked to.
LEMMA NodeServesStep == ASSUME BusInv, NodeServes PROVE BusInv'
<1> DEFINE m == Head(up)
           answer == IF m.index < Len(Names) THEN [kind |-> "param", name |-> Names[m.index + 1]]
                                             ELSE [kind |-> "end"]
<1>1. up # <<>> /\ up' = Tail(up) /\ UNCHANGED <<walk, pending, saveAfter, loops, cleanWalk>>
  BY DEF NodeServes, queues
<1>2. /\ m \in UpMsg /\ up' \in Seq(UpMsg)
      /\ up \in Seq(Early) => m \in Early /\ up' \in Seq(Early)
  BY <1>1, TailType DEF BusInv, Shape
<1>3. /\ down' \in Seq(DownMsg)
      /\ m \in Early /\ down \in Seq(NoEnd) => down' \in Seq(NoEnd)
  <2>1. CASE UNCHANGED down
    BY <2>1 DEF BusInv, Shape
  <2>2. CASE m.kind = "read" /\ Answers(answer)
    <3>1. m.index \in Nat
      BY <1>2, <2>2 DEF UpMsg, Save, Restart
    <3>2. m.index < Len(Names) => Names[m.index + 1] \in Param
      BY <3>1, NamesAssumption, ElementOfSeq, ParamsCounted
    <3>3. answer \in DownMsg
      BY <3>2 DEF DownMsg
    <3>4. m \in Early => answer \in NoEnd
      BY <2>2, <3>2 DEF Early, NoEnd, DownMsg
    <3> HIDE DEF answer, m
    <3> QED BY <2>2, <3>3, <3>4, AnswersType DEF BusInv, Shape
  <2>3. CASE m.kind = "write" /\ Answers([kind |-> "param", name |-> m.name])
    <3>1. m.name \in Param
      BY <1>2, <2>3 DEF UpMsg, Save, Restart
    <3>2. [kind |-> "param", name |-> m.name] \in NoEnd /\ NoEnd \subseteq DownMsg
      BY <3>1 DEF NoEnd, DownMsg
    <3> HIDE DEF m
    <3> QED BY <2>3, <3>2, AnswersType DEF BusInv, Shape
  <2>4. ASSUME NEW ok \in BOOLEAN, Answers([kind |-> "saved", ok |-> ok])
        PROVE  /\ down' \in Seq(DownMsg)
               /\ m \in Early /\ down \in Seq(NoEnd) => down' \in Seq(NoEnd)
    <3>1. [kind |-> "saved", ok |-> ok] \in NoEnd /\ NoEnd \subseteq DownMsg
      BY DEF NoEnd, DownMsg
    <3> QED BY <2>4, <3>1, AnswersType DEF BusInv, Shape
  <2>5. \/ UNCHANGED down
        \/ m.kind = "read" /\ Answers(answer)
        \/ m.kind = "write" /\ Answers([kind |-> "param", name |-> m.name])
        \/ \E ok \in BOOLEAN : Answers([kind |-> "saved", ok |-> ok])
    BY DEF NodeServes
  <2> QED BY <2>1, <2>2, <2>3, <2>4, <2>5
<1>4. WalkInv'
  BY <1>1, <1>2, <1>3 DEF BusInv, WalkInv
<1> QED BY <1>1, <1>2, <1>3, <1>4 DEF BusInv, Shape, SaveAwaitsWrites

LEMMA LoseStep == ASSUME BusInv, Lose PROVE BusInv'
<1>1. UNCHANGED <<walk, pending, saveAfter, loops, cleanWalk>>
  BY DEF Lose, queues
<1>2. /\ up' \in Seq(UpMsg) /\ (up \in Seq(Early) => up' \in Seq(Early))
      /\ down' \in Seq(DownMsg) /\ (down \in Seq(NoEnd) => down' \in Seq(NoEnd))
  <2>0. up \in Seq(UpMsg) /\ down \in Seq(DownMsg)
    BY DEF BusInv, Shape
  <2>1. CASE up # <<>> /\ up' = Tail(up) /\ UNCHANGED down
    BY <2>0, <2>1, TailType
  <2>2. CASE down # <<>> /\ down' = Tail(down) /\ UNCHANGED up
    BY <2>0, <2>2, TailType
  <2> QED BY <2>1, <2>2 DEF Lose
<1>3. WalkInv'
  BY <1>1, <1>2, WalkUndisturbed DEF BusInv
<1> QED BY <1>1, <1>2, <1>3 DEF BusInv, Shape, SaveAwaitsWrites

\* A first sighting of the node.
LEMMA NodeStatusStep == ASSUME BusInv, NodeStatus PROVE BusInv'
<1>1. /\ WalkBegins(walk.held) /\ Sends(<<ReadOf(0)>>)
      /\ UNCHANGED <<pending, saveAfter, loops, down>>
  BY DEF NodeStatus, queues
<1>2. walk.held \in SUBSET Param
  BY DEF BusInv, Shape, WalkType
<1>3. /\ WalkInv' /\ up' \in Seq(UpMsg) /\ cleanWalk' \in BOOLEAN
      /\ walk' \in WalkType
  BY <1>1, <1>2, WalkBegun DEF BusInv
<1> QED BY <1>1, <1>3 DEF BusInv, Shape, SaveAwaitsWrites

\* The service, its timers and the tunnel.
LEMMA RunsStep == ASSUME BusInv, Runs PROVE BusInv'
<1>1. ASSUME NEW i \in DOMAIN loops, SendNext(i) PROVE BusInv'
  BY <1>1, SendNextStep
<1>2. ASSUME DropEntry PROVE BusInv'
  BY <1>2, ForgetStep DEF DropEntry, queues
<1>3. ASSUME CallStart \/ StartFails \/ CallStop PROVE BusInv'
  BY <1>3, QuietStep DEF CallStart, StartFails, CallStop, queues
<1>4. ASSUME StartSent PROVE BusInv'
  BY <1>4, ForgetStep DEF StartSent, queues
<1>5. ASSUME NEW due \in SUBSET DOMAIN pending, NEW walkDue \in BOOLEAN, Tick(due, walkDue)
      PROVE  BusInv'
  BY <1>5, TickStep
<1>6. ASSUME SaveAckTimeout PROVE BusInv'
  <2>1. <<Save>> \in Seq(Early)
    BY EarlyRequests
  <2> QED BY <1>6, <2>1, SendStep, QuietStep DEF SaveAckTimeout
<1> QED BY <1>1, <1>2, <1>3, <1>4, <1>5, <1>6, NodeStatusStep, ReceiveStep, NodeServesStep, LoseStep
        DEF Runs

\* The firmware update does not touch the parameters.
LEMMA UpdateStep ==
  ASSUME BusInv,
         \/ \E m \in Images : CallUpdate(m)
         \/ CallCancel \/ BeginAgain \/ UpdateTimeout \/ FileReceive
         \/ BootServes \/ ReadsAgain \/ PowerCycle \/ FileLose
  PROVE  BusInv'
<1>1. NodeUnchanged
  BY DEF CallUpdate, CallCancel, BeginAgain, UpdateTimeout, FileReceive, BootServes, ReadsAgain,
         PowerCycle, FileLose
<1> QED BY <1>1, QuietStep DEF NodeUnchanged, queues

LEMMA NextInv == BusInv /\ [BusNext]_busVars => BusInv'
<1> SUFFICES ASSUME BusInv, [BusNext]_busVars PROVE BusInv'
  OBVIOUS
<1>1. CASE UNCHANGED busVars
  BY <1>1, QuietStep DEF busVars, vars, queues
<1>2. CASE Clearing
  BY <1>2, ForgetStep DEF Clearing, StopSent, Reset, Clears
<1> QED BY <1>1, <1>2, OperatorStep, RunsStep, UpdateStep DEF BusNext

LEMMA Inductive == BusSpec => []BusInv
BY InitInv, NextInv, PTL DEF BusSpec

------------------------------------------------------------------------------
(* The last Apply & Save.                                                   *)

\* What is told of the writes ws: their requests, the answers that are true of
\* ram, and the acks of a SAVE that are true of flash.
Requests(ws) == {WriteOf(w.name, w.value) : w \in ws}
Told(ws, ram) ==
  {[kind |-> "param", name |-> w.name] : w \in {x \in ws : ram[x.name] = x.value}}
Acks(ws, flash) ==
  {m \in [kind : {"saved"}, ok : BOOLEAN] : m.ok => \A w \in ws : flash[w.name] = w.value}

\* Requests that write nothing but ws.
Agreeing(ws) == {m \in UpMsg : m.kind = "write" => m \in Requests(ws)}

Holds(memory) == \A w \in job.writes : memory[w.name] = w.value

\* Whatever is still to be written is of the job.
JobWrites ==
  /\ \A v, w \in job.writes : v.name = w.name => v = w
  /\ \A n \in DOMAIN pending : \E w \in job.writes : w.name = n /\ w.value = pending[n].value
  /\ loops \in Seq(Seq(job.writes))
  /\ up \in Seq(Agreeing(job.writes))

\* No walk goes on, and none can begin or go on from an answer.
WalkIsOver ==
  /\ known /\ ~dropping /\ walk.status \in {"complete", "stopped"}
  /\ \A w \in job.writes : w.name \in walk.held

\* The SAVE waits for the writes: one that is not pending any more is in RAM.
JobWriting ==
  /\ saveAfter /\ saving = 0 /\ ~job.saved /\ WalkIsOver
  /\ up \in Seq(Requests(job.writes)) /\ down \in Seq(Told(job.writes, node.ram))
  /\ \A w \in job.writes : w.name \in DOMAIN pending \/ node.ram[w.name] = w.value
  /\ boot.reading => down = <<>> /\ \A w \in job.writes : w.name \in DOMAIN pending

\* The SAVE is under way.
JobSaving ==
  /\ ~saveAfter /\ saving > 0 /\ ~job.saved /\ WalkIsOver /\ ~boot.reading
  /\ up \in Seq(Requests(job.writes) \cup {Save})
  /\ down \in Seq(Told(job.writes, node.ram) \cup Acks(job.writes, node.flash))
  /\ Holds(node.ram)

\* The SAVE is acknowledged, refused or given up.
JobOver ==
  /\ ~saveAfter /\ saving = 0
  /\ job.saved => Holds(node.ram) /\ Holds(node.flash) /\ ~boot.reading

JobInv == job.alone /\ job.writes # {} => JobWrites /\ (JobWriting \/ JobSaving \/ JobOver)

\* A node in its bootloader answers nothing else.
BootInv == boot.reading => ~node.here

\* The parts of the state that the job speaks of, the bootloader's as far as it matters.
JobShape ==
  /\ job \in [writes : SUBSET Write, alone : BOOLEAN, saved : BOOLEAN]
  /\ node \in [here : BOOLEAN, ram : [Param -> {0, 1}], flash : [Param -> {0, 1}]]
  /\ boot = [reading |-> boot.reading, ofs |-> boot.ofs, tid |-> boot.tid, got |-> boot.got,
             runs |-> boot.runs]
  /\ boot.reading \in BOOLEAN /\ saving \in Nat

SavedInv == JobShape /\ BootInv /\ JobInv

\* Fewer things are said of fewer messages.
LEMMA JobMessages ==
  ASSUME NEW ws \in SUBSET Write
  PROVE  /\ Requests(ws) \subseteq Agreeing(ws)
         /\ Requests(ws) \cup {Save} \subseteq Agreeing(ws)
         /\ Restart \in Agreeing(ws) /\ \A i \in Nat : ReadOf(i) \in Agreeing(ws)
<1>1. \A w \in ws : WriteOf(w.name, w.value) \in UpMsg
  BY DEF UpMsg, WriteOf, Write
<1>2. \A m \in Requests(ws) : m \in UpMsg
  BY <1>1 DEF Requests
<1>3. Save \in Agreeing(ws) /\ Restart \in Agreeing(ws)
  BY DEF Agreeing, UpMsg, Save, Restart
<1>4. \A i \in Nat : ReadOf(i) \in Agreeing(ws)
  BY DEF Agreeing, UpMsg, ReadOf
<1> QED BY <1>2, <1>3, <1>4 DEF Agreeing

\* What is on the wire of the requests goes on agreeing when requests of the job
\* are sent.
LEMMA RequestsSent ==
  ASSUME JobShape, NEW ms \in Seq(Requests(job.writes)), Sends(ms)
  PROVE  /\ up \in Seq(Requests(job.writes)) => up' \in Seq(Requests(job.writes))
         /\ up \in Seq(Requests(job.writes) \cup {Save})
              => up' \in Seq(Requests(job.writes) \cup {Save})
         /\ up \in Seq(Agreeing(job.writes)) => up' \in Seq(Agreeing(job.writes))
<1>1. job.writes \in SUBSET Write
  BY DEF JobShape
<1>2. ms \in Seq(Requests(job.writes) \cup {Save}) /\ ms \in Seq(Agreeing(job.writes))
  BY <1>1, JobMessages, SeqMonotonic
<1> QED BY <1>2, SendsType

\* A step that claims nothing of a job.
LEMMA NoClaim ==
  ASSUME JobShape', BootInv', ~job'.alone
  PROVE  SavedInv'
BY DEF SavedInv, JobInv

\* A step that only takes messages off the wires.
LEMMA WireKeeps ==
  ASSUME SavedInv, JobShape',
         UNCHANGED <<known, walk, pending, saveAfter, saving, loops, dropping, node, job>>,
         boot'.reading = boot.reading, down = <<>> => down' = <<>>,
         \A S : up \in Seq(S) => up' \in Seq(S), \A S : down \in Seq(S) => down' \in Seq(S)
  PROVE  SavedInv'
<1>1. BootInv'
  BY DEF SavedInv, BootInv
<1>2. JobWrites => JobWrites'
  BY DEF JobWrites
<1>3. WalkIsOver => WalkIsOver'
  BY DEF WalkIsOver
<1>4. JobWriting => JobWriting'
  BY <1>3 DEF JobWriting
<1>5. JobSaving => JobSaving'
  BY <1>3 DEF JobSaving, Holds
<1>6. JobOver => JobOver'
  BY DEF JobOver, Holds
<1> QED BY <1>1, <1>2, <1>4, <1>5, <1>6 DEF SavedInv, JobInv

LEMMA JobInit == BusInit => SavedInv
<1> SUFFICES ASSUME BusInit PROVE SavedInv
  OBVIOUS
<1>1. IdParam \in Param
  BY NamesAssumption
<1>2. JobShape /\ ~job.alone /\ BootInv
  BY <1>1 DEF BusInit, Init, JobShape, NoJob, BootInv
<1> QED BY <1>2 DEF SavedInv, JobInv

\* applyAndSave, with nothing else under way: every write is pending.
LEMMA ApplyBegins ==
  ASSUME BusInv, SavedInv, NEW b \in Seq(Write), ApplyAndSave(b), known,
         \A i, j \in DOMAIN b : b[i].name = b[j].name => i = j,
         UNCHANGED <<known, walk, dropping, down, node, boot>>
  PROVE  SavedInv'
<1> DEFINE ws == Range(b)
<1>1. /\ Len(b) \in Nat /\ b \in [1..Len(b) -> Write] /\ DOMAIN b = 1..Len(b)
      /\ ws \subseteq Write /\ b \in Seq(ws)
  <2>1. Len(b) \in Nat /\ b \in [1..Len(b) -> Write] /\ DOMAIN b = 1..Len(b)
    BY LenProperties
  <2>2. b \in [1..Len(b) -> ws] /\ ws \subseteq Write
    BY <2>1 DEF Range
  <2> HIDE DEF ws
  <2> QED BY <2>1, <2>2, FunctionIsSeq
<1>2. job' = [writes |-> ws, alone |-> Alone(b), saved |-> FALSE]
  BY DEF ApplyAndSave
<1>3. JobShape' /\ BootInv'
  <2>1. saving' \in Nat
    BY DEF ApplyAndSave, SavedInv, JobShape
  <2>2. Alone(b) \in BOOLEAN
    BY DEF Alone
  <2> HIDE DEF ws
  <2> QED BY <1>1, <1>2, <2>1, <2>2 DEF SavedInv, JobShape, BootInv
<1>4. CASE Alone(b) /\ ws # {}
  <2>0. b # <<>>
    BY <1>4, <1>1 DEF Range
  <2>1. /\ DOMAIN pending = {} /\ saving = 0 /\ loops = <<>> /\ up = <<>> /\ down = <<>> /\ ~dropping
        /\ walk.status \in {"complete", "stopped"}
        /\ \A i \in DOMAIN b : b[i].name \in walk.held
    BY <1>4 DEF Alone
  <2>2. /\ saveAfter' = TRUE /\ pending' = PutAll(pending, b) /\ saving' = saving
        /\ Sends(<<WriteOf(Head(b).name, Head(b).value)>>)
        /\ loops' = IF Len(b) > 1 THEN Append(loops, Tail(b)) ELSE loops
    BY <2>0 DEF ApplyAndSave
  <2>3. \A v, w \in ws : v.name = w.name => v = w
    BY DEF Range
  <2>4. Head(b) \in ws /\ Tail(b) \in Seq(ws)
    <3> HIDE DEF ws
    <3> QED BY <1>1, <2>0, HeadTailProperties
  <2>5. loops' \in Seq(Seq(ws))
    <3> HIDE DEF ws
    <3>1. loops \in Seq(Seq(ws))
      BY <2>1
    <3> QED BY <2>2, <2>4, <3>1, AppendProperties
  <2>6. up' \in Seq(Requests(ws))
    <3> HIDE DEF ws
    <3>1. <<WriteOf(Head(b).name, Head(b).value)>> \in Seq(Requests(ws)) /\ up \in Seq(Requests(ws))
      BY <2>1, <2>4 DEF Requests
    <3> QED BY <2>2, <3>1, SendsType
  <2>7. /\ \A w \in ws : w.name \in DOMAIN pending'
        /\ \A n \in DOMAIN pending' : \E w \in ws : w.name = n /\ w.value = pending'[n].value
    <3> HIDE DEF ws
    <3>1. DOMAIN pending' = {w.name : w \in ws}
      BY <2>1, <2>2 DEF PutAll, ws
    <3>2. ASSUME NEW n \in DOMAIN pending'
          PROVE \E w \in ws : w.name = n /\ w.value = pending'[n].value
      <4> DEFINE c == CHOOSE w \in ws : w.name = n
      <4>1. \E w \in ws : w.name = n
        BY <3>1
      <4>2. c \in ws /\ c.name = n
        BY <4>1
      <4>3. pending'[n] = [value |-> c.value, tries |-> 1]
        <5>1. n \in DOMAIN pending \cup {w.name : w \in Range(b)}
          BY <4>1 DEF ws
        <5>2. \E w \in Range(b) : w.name = n
          BY <4>1 DEF ws
        <5>3. PutAll(pending, b)[n] = [value |-> (CHOOSE w \in Range(b) : w.name = n).value, tries |-> 1]
          BY <5>1, <5>2 DEF PutAll
        <5> QED BY <2>2, <5>3 DEF ws
      <4> HIDE DEF c
      <4>4. pending'[n].value = c.value
        BY <4>3
      <4> QED BY <4>2, <4>4
    <3> QED BY <3>1, <3>2
  <2>8. \A w \in ws : w.name \in walk.held
    BY <2>1 DEF Range
  <2>9. down' \in Seq(Told(ws, node'.ram)) /\ down' = <<>>
    BY <2>1, EmptySeq
  <2>10. job'.writes = ws /\ job'.saved = FALSE
    BY <1>2
  <2> HIDE DEF ws
  <2>11. JobWrites'
    <3>1. up' \in Seq(Agreeing(ws))
      BY <1>1, <2>6, JobMessages, SeqMonotonic
    <3> QED BY <2>3, <2>5, <2>7, <2>10, <3>1 DEF JobWrites
  <2>12. WalkIsOver'
    BY <2>1, <2>8, <2>10 DEF WalkIsOver
  <2>13. JobWriting'
    BY <2>1, <2>2, <2>6, <2>7, <2>9, <2>10, <2>12 DEF JobWriting
  <2> QED BY <1>3, <2>11, <2>13 DEF SavedInv, JobInv
<1>5. CASE ~(Alone(b) /\ ws # {})
  BY <1>2, <1>3, <1>5 DEF SavedInv, JobInv
<1> QED BY <1>4, <1>5

\* The calls of the operator: Apply & Save and the change of the ID begin a job,
\* the others end what can be said of the last.
LEMMA JobOperator == ASSUME BusInv, SavedInv, Operator, UNCHANGED boot PROVE SavedInv'
<1>1. ASSUME NEW b \in Batches, CallApply(b) PROVE SavedInv'
  <2>1. b \in Seq(Write) /\ \A i, j \in DOMAIN b : b[i].name = b[j].name => i = j
    BY BatchAssumption
  <2>2. ApplyAndSave(b) /\ known /\ UNCHANGED <<known, walk, dropping, down, node>>
    BY <1>1 DEF CallApply
  <2> QED BY <2>1, <2>2, ApplyBegins
<1>2. ASSUME NEW v \in {0, 1}, CallChangeNodeId(v) PROVE SavedInv'
  <2> DEFINE b == <<[name |-> IdParam, value |-> v]>>
  <2>1. b \in Seq(Write) /\ \A i, j \in DOMAIN b : b[i].name = b[j].name => i = j
    BY NamesAssumption DEF Write
  <2>2. ApplyAndSave(b) /\ known /\ UNCHANGED <<known, walk, dropping, down, node>>
    BY <1>2 DEF CallChangeNodeId
  <2> HIDE DEF b
  <2> QED BY <2>1, <2>2, ApplyBegins
<1>3. ASSUME job' = NoJob, UNCHANGED node, saving' \in Nat PROVE SavedInv'
  <2>1. JobShape' /\ BootInv' /\ ~job'.alone
    BY <1>3 DEF SavedInv, JobShape, BootInv, NoJob
  <2> QED BY <2>1, NoClaim
<1>4. ASSUME NEW b \in Batches, CallWrite(b[1]) PROVE SavedInv'
  BY <1>3, <1>4 DEF CallWrite, SavedInv, JobShape
<1>5. ASSUME CallSave PROVE SavedInv'
  BY <1>3, <1>5 DEF CallSave, SavedInv, JobShape
<1>6. ASSUME CallRestart \/ CallFetchAll PROVE SavedInv'
  BY <1>3, <1>6 DEF CallRestart, CallFetchAll, SavedInv, JobShape, queues
<1> QED BY <1>1, <1>2, <1>4, <1>5, <1>6 DEF Operator

\* Steps that end what can be said of the job.
LEMMA JobForgotten ==
  ASSUME SavedInv, job' = NoJob, UNCHANGED <<node, boot>>, saving' \in Nat
  PROVE  SavedInv'
<1>1. JobShape' /\ BootInv' /\ ~job'.alone
  BY DEF SavedInv, JobShape, BootInv, NoJob
<1> QED BY <1>1, NoClaim

\* applyAndSave sends its next write.
LEMMA JobSendNext ==
  ASSUME BusInv, SavedInv, NEW i \in DOMAIN loops, SendNext(i), UNCHANGED boot
  PROVE  SavedInv'
<1>1. UNCHANGED <<known, walk, pending, saveAfter, saving, dropping, down, node, job>>
  BY DEF SendNext, queues
<1>2. JobShape' /\ BootInv'
  BY <1>1 DEF SavedInv, JobShape, BootInv
<1>3. ASSUME JobWrites
      PROVE  /\ JobWrites' /\ (JobWriting => JobWriting') /\ (JobSaving => JobSaving')
             /\ (JobOver => JobOver')
  <2> DEFINE ws == job.writes
  <2>1. loops \in Seq(Seq(ws)) /\ loops \in Seq(Todo)
    BY <1>3 DEF JobWrites, BusInv, Shape
  <2> HIDE DEF ws
  <2>2. Len(loops) \in Nat /\ DOMAIN loops = 1..Len(loops) /\ i \in 1..Len(loops)
    BY <2>1, LenProperties
  <2>3. loops[i] \in Seq(ws) /\ loops[i] # <<>>
    BY <2>1, <2>2, ElementOfSeq DEF Todo
  <2>4. Head(loops[i]) \in ws /\ Tail(loops[i]) \in Seq(ws)
    BY <2>3, HeadTailProperties
  <2>5. <<WriteOf(Head(loops[i]).name, Head(loops[i]).value)>> \in Seq(Requests(ws))
    BY <2>4 DEF Requests
  <2>6. loops' \in Seq(Seq(ws))
    <3>1. CASE Len(loops[i]) > 1
      <4>1. loops' = [loops EXCEPT ![i] = Tail(loops[i])]
        BY <2>2, <3>1 DEF SendNext
      <4> QED BY <2>1, <2>2, <2>4, <4>1, ExceptSeq
    <3>2. CASE ~(Len(loops[i]) > 1)
      <4>1. loops' = SubSeq(loops, 1, i - 1) \o SubSeq(loops, i + 1, Len(loops))
        BY <3>2 DEF SendNext, RemoveAt
      <4>2. \A k \in 1..Len(loops) : loops[k] \in Seq(ws)
        BY <2>1, ElementOfSeq
      <4>3. SubSeq(loops, 1, i - 1) \in Seq(Seq(ws)) /\ SubSeq(loops, i + 1, Len(loops)) \in Seq(Seq(ws))
        BY <2>1, <2>2, <4>2, SubSeqProperties
      <4> QED BY <4>1, <4>3, ConcatProperties
    <3> QED BY <3>1, <3>2
  <2>7. /\ up \in Seq(Requests(ws)) => up' \in Seq(Requests(ws))
        /\ up \in Seq(Requests(ws) \cup {Save}) => up' \in Seq(Requests(ws) \cup {Save})
        /\ up \in Seq(Agreeing(ws)) => up' \in Seq(Agreeing(ws))
    BY <2>5, RequestsSent DEF SavedInv, SendNext, ws
  <2>8. JobWrites'
    BY <1>1, <1>3, <2>6, <2>7 DEF JobWrites, ws
  <2>9. WalkIsOver => WalkIsOver'
    BY <1>1 DEF WalkIsOver
  <2>10. JobWriting => JobWriting'
    BY <1>1, <2>7, <2>9 DEF JobWriting, ws
  <2>11. JobSaving => JobSaving'
    BY <1>1, <2>7, <2>9 DEF JobSaving, Holds, ws
  <2>12. JobOver => JobOver'
    BY <1>1 DEF JobOver, Holds
  <2> QED BY <2>8, <2>10, <2>11, <2>12
<1> QED BY <1>1, <1>2, <1>3 DEF SavedInv, JobInv

\* The node comes up for the first time: no walk begins while a job waits.
LEMMA JobNodeStatus == ASSUME BusInv, SavedInv, NodeStatus, UNCHANGED boot PROVE SavedInv'
<1>1. /\ UNCHANGED <<pending, saveAfter, saving, loops, dropping, down, node, job>>
      /\ ~known \/ walk.status = "idle"
      /\ Sends(<<ReadOf(0)>>)
  BY DEF NodeStatus, queues
<1>2. JobShape' /\ BootInv'
  BY <1>1 DEF SavedInv, JobShape, BootInv
<1>3. ~JobWriting /\ ~JobSaving
  BY <1>1 DEF JobWriting, JobSaving, WalkIsOver
<1>4. JobWrites => JobWrites'
  <2>1. job.writes \in SUBSET Write
    BY DEF SavedInv, JobShape
  <2>2. <<ReadOf(0)>> \in Seq(Agreeing(job.writes))
    BY <2>1, JobMessages
  <2>3. up \in Seq(Agreeing(job.writes)) => up' \in Seq(Agreeing(job.writes))
    BY <1>1, <2>2, SendsType
  <2> QED BY <1>1, <2>3 DEF JobWrites
<1>5. JobOver => JobOver'
  BY <1>1 DEF JobOver, Holds
<1> QED BY <1>1, <1>2, <1>3, <1>4, <1>5 DEF SavedInv, JobInv

\* The watchdog of the SAVE.
LEMMA JobSaveTimeout == ASSUME BusInv, SavedInv, SaveAckTimeout, UNCHANGED boot PROVE SavedInv'
<1>1. /\ UNCHANGED <<known, walk, pending, saveAfter, loops, dropping, down, node, job>>
      /\ saving > 0
      /\ \/ saving' = saving + 1 /\ Sends(<<Save>>)
         \/ saving' = 0 /\ UNCHANGED up
  BY DEF SaveAckTimeout
<1>2. JobShape' /\ BootInv'
  BY <1>1 DEF SavedInv, JobShape, BootInv
<1>3. saving \in Nat /\ ~JobWriting /\ ~JobOver
  BY <1>1 DEF SavedInv, JobShape, JobWriting, JobOver
<1>4. job.writes \in SUBSET Write
  BY DEF SavedInv, JobShape
<1>5. JobWrites => JobWrites'
  <2>1. <<Save>> \in Seq(Agreeing(job.writes))
    BY <1>4, JobMessages
  <2>2. up \in Seq(Agreeing(job.writes)) => up' \in Seq(Agreeing(job.writes))
    BY <1>1, <2>1, SendsType
  <2> QED BY <1>1, <2>2 DEF JobWrites
<1>6. JobSaving => JobSaving' \/ JobOver'
  <2>1. CASE saving' = saving + 1 /\ Sends(<<Save>>)
    <3>1. <<Save>> \in Seq(Requests(job.writes) \cup {Save})
      OBVIOUS
    <3>2. up \in Seq(Requests(job.writes) \cup {Save}) => up' \in Seq(Requests(job.writes) \cup {Save})
      BY <2>1, <3>1, SendsType
    <3>3. WalkIsOver => WalkIsOver'
      BY <1>1 DEF WalkIsOver
    <3> QED BY <1>1, <1>3, <2>1, <3>2, <3>3 DEF JobSaving, Holds
  <2>2. CASE saving' = 0
    BY <1>1, <2>2 DEF JobSaving, JobOver
  <2> QED BY <1>1, <2>1, <2>2
<1> QED BY <1>1, <1>2, <1>3, <1>5, <1>6 DEF SavedInv, JobInv

\* tick: a write that is given up takes the SAVE with it; the others go out again.
LEMMA JobTick ==
  ASSUME BusInv, SavedInv, UNCHANGED boot,
         NEW due \in SUBSET DOMAIN pending, NEW walkDue \in BOOLEAN, Tick(due, walkDue)
  PROVE  SavedInv'
<1> DEFINE ws == job.writes
           spent == {n \in due : pending[n].tries >= MaxWriteTries}
           asks == walkDue /\ walk.tries + 1 <= MaxWalkTries
           rest == due \ spent
           writes(again) == [k \in DOMAIN again |-> WriteOf(again[k], pending[again[k]].value)]
           read == IF asks THEN <<ReadOf(walk.next)>> ELSE <<>>
<1>1. PICK again \in SetToSeqs(rest) : Sends(writes(again) \o read)
  BY DEF Tick
<1>2. /\ UNCHANGED <<known, saving, loops, dropping, down, node, job>>
      /\ walkDue => walk.status = "fetching"
      /\ ~walkDue => walk' = walk
      /\ saveAfter' = (saveAfter /\ spent = {})
      /\ pending' = [n \in DOMAIN pending \ spent |->
                       [pending[n] EXCEPT !.tries = IF n \in due THEN @ + 1 ELSE @]]
  BY DEF Tick
<1>3. JobShape' /\ BootInv'
  BY <1>2 DEF SavedInv, JobShape, BootInv
<1>4. DOMAIN pending' = DOMAIN pending \ spent /\ \A n \in DOMAIN pending' : pending'[n].value = pending[n].value
  BY <1>2 DEF BusInv, Shape, Pending
<1>5. ASSUME JobWrites
      PROVE  JobWrites' /\ (JobWriting => JobWriting' \/ JobOver') /\ (JobSaving => JobSaving')
               /\ (JobOver => JobOver')
  <2>1. writes(again) \in Seq(Requests(ws))
    <3>1. rest \in SUBSET Param
      BY DEF BusInv, Shape
    <3>2. Cardinality(rest) \in Nat
      BY <3>1, HeldCounted
    <3>3. again \in [1..Cardinality(rest) -> rest]
      BY DEF SetToSeqs
    <3>4. \A n \in rest : WriteOf(n, pending[n].value) \in Requests(ws)
      BY <1>5 DEF JobWrites, Requests
    <3>5. writes(again) \in [1..Cardinality(rest) -> Requests(ws)]
      BY <3>3, <3>4
    <3> HIDE DEF writes, ws
    <3> QED BY <3>2, <3>5, FunctionIsSeq
  <2>2. ws \in SUBSET Write /\ walk.next \in Nat
    BY DEF SavedInv, JobShape, BusInv, Shape, WalkType
  <2> HIDE DEF writes, ws
  <2>3. writes(again) \o read \in Seq(Agreeing(ws))
    <3>1. read \in Seq(Agreeing(ws))
      BY <2>2, JobMessages, EmptySeq
    <3>2. writes(again) \in Seq(Agreeing(ws))
      BY <2>1, <2>2, JobMessages, SeqMonotonic
    <3> HIDE DEF read
    <3> QED BY <3>1, <3>2, ConcatProperties
  <2>4. up \in Seq(Agreeing(ws)) => up' \in Seq(Agreeing(ws))
    BY <1>1, <2>3, SendsType
  <2>5. JobWrites'
    BY <1>2, <1>4, <1>5, <2>4 DEF JobWrites, ws
  <2>6. ASSUME WalkIsOver
        PROVE  /\ WalkIsOver'
               /\ up \in Seq(Requests(ws)) => up' \in Seq(Requests(ws))
               /\ up \in Seq(Requests(ws) \cup {Save}) => up' \in Seq(Requests(ws) \cup {Save})
    <3>1. ~walkDue
      BY <1>2, <2>6 DEF WalkIsOver
    <3>2. Sends(writes(again))
      BY <1>1, <2>1, <3>1, ConcatEmptySeq
    <3>3. WalkIsOver'
      BY <1>2, <2>6, <3>1 DEF WalkIsOver
    <3> QED BY <2>1, <3>2, <3>3, RequestsSent DEF SavedInv, ws
  <2>7. JobWriting => JobWriting' \/ JobOver'
    <3> SUFFICES ASSUME JobWriting PROVE JobWriting' \/ JobOver'
      OBVIOUS
    <3>1. CASE spent = {}
      <4>1. DOMAIN pending' = DOMAIN pending
        BY <1>4, <3>1
      <4> QED BY <1>2, <2>6, <3>1, <4>1 DEF JobWriting, ws
    <3>2. CASE spent # {}
      BY <1>2, <3>2 DEF JobWriting, JobOver
    <3> QED BY <3>1, <3>2
  <2>8. JobSaving => JobSaving'
    BY <1>2, <2>6 DEF JobSaving, Holds, ws
  <2>9. JobOver => JobOver'
    BY <1>2 DEF JobOver, Holds
  <2> QED BY <2>5, <2>7, <2>8, <2>9
<1> QED BY <1>2, <1>3, <1>5 DEF SavedInv, JobInv

------------------------------------------------------------------------------
(* What arrives.                                                            *)

LEMMA ToldKind == ASSUME NEW ws, NEW ram, NEW m \in Told(ws, ram) PROVE m.kind = "param"
<1>1. PICK w \in ws : m = [kind |-> "param", name |-> w.name]
  BY DEF Told
<1> QED BY <1>1

LEMMA MaybeSave ==
  ASSUME NEW S, Save \in S, NEW p \in BOOLEAN
  PROVE  (IF p THEN <<Save>> ELSE <<>>) \in Seq(S)
<1>1. <<Save>> \in Seq(S)
  OBVIOUS
<1>2. <<>> \in Seq(S)
  BY EmptySeq
<1> QED BY <1>1, <1>2

\* An answer that names a parameter says that the node has its value in RAM.
LEMMA JobOnParam ==
  ASSUME BusInv, SavedInv, down # <<>>, down' = Tail(down), Head(down).kind = "param",
         NEW n \in Param, n = Head(down).name, OnParam(n), UNCHANGED <<loops, node, boot>>
  PROVE  SavedInv'
<1> DEFINE ws == job.writes
           left == Without(pending, {n})
           saves == saveAfter /\ DOMAIN left = {}
           first == IF saves THEN <<Save>> ELSE <<>>
           second == IF Fresh(n) THEN <<ReadOf(walk.next + 1)>> ELSE <<>>
<1>1. /\ known' = TRUE /\ pending' = left /\ saveAfter' = (saveAfter /\ ~saves)
      /\ saving' = IF saves THEN 1 ELSE saving
      /\ walk' = IF Fresh(n) THEN [walk EXCEPT !.held = @ \cup {n}, !.next = @ + 1, !.tries = 0]
                 ELSE walk
      /\ Sends(first \o second) /\ UNCHANGED <<dropping, job>>
  BY DEF OnParam
<1>2. JobShape' /\ BootInv'
  BY <1>1 DEF SavedInv, JobShape, BootInv
<1>3. DOMAIN left = DOMAIN pending \ {n} /\ \A k \in DOMAIN left : left[k] = pending[k]
  BY DEF Without
<1>4. ws \in SUBSET Write /\ walk.next \in Nat
  BY DEF SavedInv, JobShape, BusInv, Shape, WalkType
<1> HIDE DEF left, ws
<1>5. JobWrites => JobWrites'
  <2>1. first \in Seq(Agreeing(ws)) /\ second \in Seq(Agreeing(ws))
    <3>1. Save \in Agreeing(ws) /\ ReadOf(walk.next + 1) \in Agreeing(ws)
      BY <1>4, JobMessages
    <3> QED BY <3>1, EmptySeq
  <2> HIDE DEF first, second
  <2>2. first \o second \in Seq(Agreeing(ws))
    BY <2>1, ConcatProperties
  <2>3. up \in Seq(Agreeing(ws)) => up' \in Seq(Agreeing(ws))
    BY <1>1, <2>2, SendsType
  <2>4. ASSUME JobWrites, NEW k \in DOMAIN pending'
        PROVE \E w \in job.writes : w.name = k /\ w.value = pending'[k].value
    <3>1. k \in DOMAIN pending /\ pending'[k] = pending[k]
      BY <1>1, <1>3
    <3> QED BY <2>4, <3>1 DEF JobWrites
  <2> QED BY <1>1, <2>3, <2>4 DEF JobWrites, ws
<1>6. ASSUME WalkIsOver, \E w \in ws : w.name = n
      PROVE  WalkIsOver' /\ Sends(first)
  <2>1. ~Fresh(n)
    BY <1>6 DEF WalkIsOver, Fresh, ws
  <2>2. first \in Seq({Save})
    BY MaybeSave
  <2>3. first \o second = first
    BY <2>1, <2>2, ConcatEmptySeq
  <2> QED BY <1>1, <1>6, <2>1, <2>3 DEF WalkIsOver
<1>7. JobWrites /\ JobWriting => JobWriting' \/ JobSaving'
  <2> SUFFICES ASSUME JobWrites, JobWriting PROVE JobWriting' \/ JobSaving'
    OBVIOUS
  <2>1. Head(down) \in Told(ws, node.ram) /\ down' \in Seq(Told(ws, node.ram))
    BY TailType DEF JobWriting, ws
  <2>2. PICK w \in ws : w.name = n /\ node.ram[n] = w.value
    BY <2>1 DEF Told
  <2>3. WalkIsOver' /\ Sends(first)
    BY <1>6, <2>2 DEF JobWriting
  <2>4. ~boot.reading /\ boot'.reading = boot.reading
    BY DEF JobWriting
  <2>5. CASE saves
    <3>1. \A x \in ws : node.ram[x.name] = x.value
      <4> SUFFICES ASSUME NEW x \in ws PROVE node.ram[x.name] = x.value
        OBVIOUS
      <4>1. CASE x.name = n
        <5>1. x = w
          BY <2>2, <4>1 DEF JobWrites, ws
        <5> QED BY <2>2, <5>1
      <4>2. CASE x.name # n
        <5>1. x.name \notin DOMAIN pending
          BY <1>3, <2>5, <4>2
        <5> QED BY <5>1 DEF JobWriting, ws
      <4> QED BY <4>1, <4>2
    <3>2. first \in Seq(Requests(ws) \cup {Save})
      BY MaybeSave
    <3>3. up \in Seq(Requests(ws) \cup {Save})
      BY SeqMonotonic DEF JobWriting, ws
    <3>4. up' \in Seq(Requests(ws) \cup {Save})
      BY <2>3, <3>2, <3>3, SendsType
    <3>5. down' \in Seq(Told(ws, node.ram) \cup Acks(ws, node.flash))
      BY <2>1, SeqMonotonic
    <3>6. ~saveAfter' /\ saving' = 1 /\ ~job.saved
      BY <1>1, <2>5 DEF JobWriting
    <3>7. Holds(node.ram)'
      BY <1>1, <3>1 DEF Holds, ws
    <3>8. up' \in Seq(Requests(job'.writes) \cup {Save})
            /\ down' \in Seq(Told(job'.writes, node'.ram) \cup Acks(job'.writes, node'.flash))
      BY <1>1, <3>4, <3>5 DEF ws
    <3> QED BY <1>1, <2>3, <2>4, <3>6, <3>7, <3>8 DEF JobSaving, Holds
  <2>6. CASE ~saves
    <3>1. up' \in Seq(Requests(ws))
      <4>1. first \in Seq(Requests(ws)) /\ up \in Seq(Requests(ws))
        BY <2>6, EmptySeq DEF JobWriting, ws
      <4> QED BY <2>3, <4>1, SendsType
    <3>2. \A x \in ws : x.name \in DOMAIN pending' \/ node.ram[x.name] = x.value
      <4> SUFFICES ASSUME NEW x \in ws PROVE x.name \in DOMAIN left \/ node.ram[x.name] = x.value
        BY <1>1
      <4>1. x = w \/ x.name # n
        BY <2>2 DEF JobWrites, ws
      <4> QED BY <1>3, <2>2, <4>1 DEF JobWriting, ws
    <3> QED BY <1>1, <2>1, <2>3, <2>4, <2>6, <3>1, <3>2 DEF JobWriting, ws
  <2> QED BY <2>5, <2>6
<1>8. JobSaving => JobSaving'
  <2> SUFFICES ASSUME JobSaving PROVE JobSaving'
    OBVIOUS
  <2>1. /\ Head(down) \in Told(ws, node.ram) \cup Acks(ws, node.flash)
        /\ down' \in Seq(Told(ws, node.ram) \cup Acks(ws, node.flash))
    BY TailType DEF JobSaving, ws
  <2>2. \E w \in ws : w.name = n
    BY <2>1 DEF Told, Acks
  <2>3. WalkIsOver' /\ Sends(first) /\ ~saves
    BY <1>6, <2>2 DEF JobSaving
  <2>4. first \in Seq(Requests(ws) \cup {Save})
    BY <2>3, EmptySeq
  <2>5. up' \in Seq(Requests(ws) \cup {Save})
    BY <2>3, <2>4, SendsType DEF JobSaving, ws
  <2> QED BY <1>1, <2>1, <2>3, <2>5 DEF JobSaving, Holds, ws
<1>9. JobOver => JobOver'
  BY <1>1 DEF JobOver, Holds
<1> QED BY <1>1, <1>2, <1>5, <1>7, <1>8, <1>9 DEF SavedInv, JobInv

\* The end of a list moves a walk on to its end, or not at all.
LEMMA JobOnEnd ==
  ASSUME BusInv, SavedInv, down # <<>>, down' = Tail(down), Head(down).kind = "end", OnEnd,
         UNCHANGED <<loops, node, boot>>
  PROVE  SavedInv'
<1>1. UNCHANGED <<pending, saveAfter, saving, dropping, up, job>>
  BY DEF OnEnd, queues
<1>2. JobShape' /\ BootInv'
  BY <1>1 DEF SavedInv, JobShape, BootInv
<1>3. JobWrites => JobWrites'
  BY <1>1 DEF JobWrites
<1>4. ~JobWriting
  <2> SUFFICES ASSUME JobWriting PROVE FALSE
    OBVIOUS
  <2>1. Head(down) \in Told(job.writes, node.ram)
    BY TailType DEF JobWriting
  <2> QED BY <2>1, ToldKind
<1>5. ~JobSaving
  <2> SUFFICES ASSUME JobSaving PROVE FALSE
    OBVIOUS
  <2>1. Head(down) \in Told(job.writes, node.ram) \cup Acks(job.writes, node.flash)
    BY TailType DEF JobSaving
  <2> QED BY <2>1 DEF Told, Acks
<1>6. JobOver => JobOver'
  BY <1>1 DEF JobOver, Holds
<1> QED BY <1>1, <1>2, <1>3, <1>4, <1>5, <1>6 DEF SavedInv, JobInv

\* The ack of the SAVE is true of the flash.
LEMMA JobOnSaved ==
  ASSUME BusInv, SavedInv, down # <<>>, down' = Tail(down), Head(down).kind = "saved",
         NEW ok, ok = Head(down).ok, OnSaved(ok), UNCHANGED <<loops, node, boot>>
  PROVE  SavedInv'
<1> DEFINE ws == job.writes
<1>1. /\ UNCHANGED <<pending, saveAfter>>
      /\ \/ saving = 0 /\ saving' = 0 /\ UNCHANGED job
         \/ saving # 0 /\ saving' = 0 /\ job' = [job EXCEPT !.saved = ok]
      /\ UNCHANGED up \/ Sends(<<Restart>>) \/ Sends(<<ReadOf(0)>>)
  BY DEF OnSaved, queues
<1>2. Head(down) \in DownMsg
  BY TailType DEF BusInv, Shape
<1>3. ok \in BOOLEAN
  BY <1>2 DEF DownMsg
<1>4. job'.writes = ws /\ job'.alone = job.alone /\ (saving = 0 => job'.saved = job.saved)
        /\ (saving # 0 => job'.saved = ok)
  BY <1>1 DEF SavedInv, JobShape
<1>5. JobShape' /\ BootInv'
  BY <1>1, <1>3 DEF SavedInv, JobShape, BootInv
<1>6. JobWrites => JobWrites'
  <2>1. ws \in SUBSET Write
    BY DEF SavedInv, JobShape
  <2> HIDE DEF ws
  <2>2. Restart \in Agreeing(ws) /\ ReadOf(0) \in Agreeing(ws)
    BY <2>1, JobMessages
  <2>3. <<Restart>> \in Seq(Agreeing(ws)) /\ <<ReadOf(0)>> \in Seq(Agreeing(ws))
    BY <2>2
  <2>4. up \in Seq(Agreeing(ws)) => up' \in Seq(Agreeing(ws))
    BY <1>1, <2>3, SendsType
  <2> QED BY <1>1, <1>4, <2>4 DEF JobWrites, ws
<1>7. ~JobWriting
  <2> SUFFICES ASSUME JobWriting PROVE FALSE
    OBVIOUS
  <2>1. Head(down) \in Told(ws, node.ram)
    BY TailType DEF JobWriting
  <2> QED BY <2>1, ToldKind
<1>8. JobSaving => JobOver'
  <2> SUFFICES ASSUME JobSaving PROVE JobOver'
    OBVIOUS
  <2>1. Head(down) \in Told(ws, node.ram) \cup Acks(ws, node.flash)
    BY TailType DEF JobSaving
  <2>2. Head(down) \in Acks(ws, node.flash)
    BY <2>1 DEF Told
  <2>3. ok => Holds(node.flash)
    BY <2>2 DEF Acks, Holds
  <2>4. saving # 0 /\ Holds(node.ram) /\ ~boot.reading /\ ~saveAfter
    BY DEF JobSaving
  <2>5. job'.saved = ok /\ saving' = 0
    BY <1>1, <1>4, <2>4
  <2> QED BY <1>1, <1>4, <2>3, <2>4, <2>5 DEF JobOver, Holds
<1>9. JobOver => JobOver'
  BY <1>1, <1>4 DEF JobOver, Holds
<1> QED BY <1>1, <1>4, <1>5, <1>6, <1>7, <1>8, <1>9 DEF SavedInv, JobInv

\* processCanFrame.
LEMMA JobReceive == ASSUME BusInv, SavedInv, Receive, UNCHANGED boot PROVE SavedInv'
<1>1. down # <<>> /\ down' = Tail(down) /\ UNCHANGED <<loops, node>>
  BY DEF Receive
<1>2. Head(down) \in DownMsg
  BY <1>1, TailType DEF BusInv, Shape
<1>3. CASE UNCHANGED <<known, walk, queues, dropping, up, job>>
  <2>1. JobShape'
    BY <1>1, <1>3 DEF SavedInv, JobShape, queues
  <2>2. \A S : down \in Seq(S) => down' \in Seq(S)
    BY <1>1, TailType
  <2> QED BY <1>1, <1>3, <2>1, <2>2, WireKeeps DEF queues
<1>4. CASE Head(down).kind = "param" /\ OnParam(Head(down).name)
  <2>1. Head(down).name \in Param
    BY <1>2, <1>4 DEF DownMsg
  <2> QED BY <1>1, <1>4, <2>1, JobOnParam
<1>5. CASE Head(down).kind = "end" /\ OnEnd
  BY <1>1, <1>5, JobOnEnd
<1>6. CASE Head(down).kind = "saved" /\ OnSaved(Head(down).ok)
  BY <1>1, <1>6, JobOnSaved
<1>7. \/ UNCHANGED <<known, walk, queues, dropping, up, job>>
      \/ Head(down).kind = "param" /\ OnParam(Head(down).name)
      \/ Head(down).kind = "end" /\ OnEnd
      \/ Head(down).kind = "saved" /\ OnSaved(Head(down).ok)
  BY DEF Receive
<1> QED BY <1>3, <1>4, <1>5, <1>6, <1>7

LEMMA JobLose == ASSUME BusInv, SavedInv, Lose, UNCHANGED boot PROVE SavedInv'
<1>1. UNCHANGED <<known, walk, queues, loops, dropping, node, job>>
  BY DEF Lose
<1>2. JobShape'
  BY <1>1 DEF SavedInv, JobShape, queues
<1>3. (\A S : up \in Seq(S) => up' \in Seq(S)) /\ (\A S : down \in Seq(S) => down' \in Seq(S))
  <2>1. CASE up # <<>> /\ up' = Tail(up) /\ UNCHANGED down
    BY <2>1, TailType
  <2>2. CASE down # <<>> /\ down' = Tail(down) /\ UNCHANGED up
    BY <2>2, TailType
  <2> QED BY <2>1, <2>2 DEF Lose
<1>4. down = <<>> => down' = <<>>
  BY DEF Lose
<1> QED BY <1>1, <1>2, <1>3, <1>4, WireKeeps DEF queues

------------------------------------------------------------------------------
(* The node.                                                                *)

\* A write of the job leaves in RAM what it says.
LEMMA JobNodeWrites ==
  ASSUME BusInv, SavedInv, up # <<>>, up' = Tail(up), Head(up).kind = "write",
         node' = [node EXCEPT !.ram[Head(up).name] = Head(up).value],
         Answers([kind |-> "param", name |-> Head(up).name]),
         UNCHANGED <<known, walk, queues, loops, dropping, job, boot>>, node.here
  PROVE  SavedInv'
<1> DEFINE ws == job.writes
           m == Head(up)
           told(ram) == Told(ws, ram)
<1>1. m \in UpMsg
  BY TailType DEF BusInv, Shape
<1>2. m.name \in Param /\ m.value \in {0, 1}
  BY <1>1 DEF UpMsg, Save, Restart
<1>3. /\ node'.here = node.here /\ node'.flash = node.flash
      /\ node'.ram = [node.ram EXCEPT ![m.name] = m.value]
      /\ node.ram \in [Param -> {0, 1}]
  BY DEF SavedInv, JobShape
<1>4. JobShape' /\ BootInv'
  BY <1>2, <1>3 DEF SavedInv, JobShape, BootInv, queues
<1>5. ws \subseteq Write
  BY DEF SavedInv, JobShape
<1> HIDE DEF ws, m
<1>6. ASSUME JobWrites
      PROVE  /\ JobWrites'
             /\ \E w \in ws : w.name = m.name /\ w.value = m.value
             /\ \A w \in ws : node.ram[w.name] = w.value => node'.ram[w.name] = w.value
  <2>1. m \in Agreeing(ws) /\ up' \in Seq(Agreeing(ws))
    BY <1>6, TailType DEF JobWrites, ws, m
  <2>2. m \in Requests(ws)
    BY <2>1 DEF Agreeing, m
  <2>3. PICK w \in ws : m = WriteOf(w.name, w.value)
    BY <2>2 DEF Requests
  <2>4. w.name = m.name /\ w.value = m.value
    BY <2>3 DEF WriteOf
  <2>5. ASSUME NEW x \in ws, node.ram[x.name] = x.value PROVE node'.ram[x.name] = x.value
    <3>1. x.name \in Param
      BY <1>5 DEF Write
    <3>2. CASE x.name = m.name
      <4>1. x = w
        BY <1>6, <2>4, <3>2 DEF JobWrites, ws
      <4> QED BY <1>2, <1>3, <2>4, <4>1
    <3>3. CASE x.name # m.name
      BY <1>3, <2>5, <3>1, <3>3
    <3> QED BY <3>2, <3>3
  <2>6. JobWrites'
    BY <1>6, <2>1 DEF JobWrites, queues, ws
  <2> QED BY <2>4, <2>5, <2>6
<1>7. JobWrites =>
        /\ Told(ws, node.ram) \subseteq Told(ws, node'.ram)
        /\ [kind |-> "param", name |-> m.name] \in Told(ws, node'.ram)
  <2> SUFFICES ASSUME JobWrites
               PROVE  /\ Told(ws, node.ram) \subseteq Told(ws, node'.ram)
                      /\ [kind |-> "param", name |-> m.name] \in Told(ws, node'.ram)
    OBVIOUS
  <2>1. PICK w \in ws : w.name = m.name /\ w.value = m.value
    BY <1>6
  <2>2. node'.ram[w.name] = w.value
    BY <1>2, <1>3, <2>1
  <2> QED BY <1>6, <2>1, <2>2 DEF Told
<1>8. ~boot.reading
  BY DEF SavedInv, BootInv
<1>9. WalkIsOver => WalkIsOver'
  BY DEF WalkIsOver
<1>10. JobWrites /\ JobWriting => JobWriting'
  <2> SUFFICES ASSUME JobWrites, JobWriting PROVE JobWriting'
    OBVIOUS
  <2>1. down' \in Seq(Told(ws, node'.ram))
    <3>1. down \in Seq(Told(ws, node'.ram))
      <4>1. Told(ws, node.ram) \subseteq Told(ws, node'.ram) /\ down \in Seq(Told(ws, node.ram))
        BY <1>7 DEF JobWriting, ws
      <4> QED BY <4>1, SeqMonotonic
    <3> QED BY <1>7, <3>1, AnswersType DEF m
  <2>2. up' \in Seq(Requests(ws))
    BY TailType DEF JobWriting, ws
  <2>3. \A w \in ws : w.name \in DOMAIN pending \/ node'.ram[w.name] = w.value
    BY <1>6 DEF JobWriting, ws
  <2> QED BY <1>8, <1>9, <2>1, <2>2, <2>3 DEF JobWriting, queues, ws
<1>11. JobWrites /\ JobSaving => JobSaving'
  <2> SUFFICES ASSUME JobWrites, JobSaving PROVE JobSaving'
    OBVIOUS
  <2>1. down' \in Seq(Told(ws, node'.ram) \cup Acks(ws, node.flash))
    <3>1. Told(ws, node.ram) \cup Acks(ws, node.flash) \subseteq Told(ws, node'.ram) \cup Acks(ws, node.flash)
      BY <1>7
    <3>2. down \in Seq(Told(ws, node'.ram) \cup Acks(ws, node.flash))
      <4>1. down \in Seq(Told(ws, node.ram) \cup Acks(ws, node.flash))
        BY DEF JobSaving, ws
      <4> QED BY <3>1, <4>1, SeqMonotonic
    <3>3. [kind |-> "param", name |-> m.name] \in Told(ws, node'.ram) \cup Acks(ws, node.flash)
      BY <1>7
    <3> QED BY <3>2, <3>3, AnswersType DEF m
  <2>2. up' \in Seq(Requests(ws) \cup {Save})
    BY TailType DEF JobSaving, ws
  <2>3. Holds(node'.ram)
    BY <1>6 DEF JobSaving, Holds, ws
  <2> QED BY <1>3, <1>8, <1>9, <2>1, <2>2, <2>3 DEF JobSaving, Holds, queues, ws
<1>12. JobWrites /\ JobOver => JobOver'
  <2> SUFFICES ASSUME JobWrites, JobOver PROVE JobOver'
    OBVIOUS
  <2>1. Holds(node.ram) => Holds(node'.ram)
    BY <1>6 DEF Holds, ws
  <2> QED BY <1>3, <2>1 DEF JobOver, Holds, queues
<1> QED BY <1>4, <1>6, <1>10, <1>11, <1>12 DEF SavedInv, JobInv

\* A SAVE copies what RAM holds.
LEMMA JobNodeSaves ==
  ASSUME BusInv, SavedInv, up # <<>>, up' = Tail(up), Head(up).kind = "save", NEW ok \in BOOLEAN,
         node' = IF ok THEN [node EXCEPT !.flash = node.ram] ELSE node,
         Answers([kind |-> "saved", ok |-> ok]),
         UNCHANGED <<known, walk, queues, loops, dropping, job, boot>>, node.here
  PROVE  SavedInv'
<1> DEFINE ws == job.writes
<1>1. /\ node'.here = node.here /\ node'.ram = node.ram
      /\ node'.flash = IF ok THEN node.ram ELSE node.flash
  BY DEF SavedInv, JobShape
<1>2. JobShape' /\ BootInv'
  BY <1>1 DEF SavedInv, JobShape, BootInv, queues
<1>3. ~boot.reading
  BY DEF SavedInv, BootInv
<1> HIDE DEF ws
<1>4. WalkIsOver => WalkIsOver'
  BY DEF WalkIsOver
<1>5. JobWrites => JobWrites'
  BY TailType DEF JobWrites, queues
<1>6. ~JobWriting
  <2> SUFFICES ASSUME JobWriting PROVE FALSE
    OBVIOUS
  <2>1. Head(up) \in Requests(ws)
    BY TailType DEF JobWriting, ws
  <2>2. PICK w \in ws : Head(up) = WriteOf(w.name, w.value)
    BY <2>1 DEF Requests
  <2> QED BY <2>2 DEF WriteOf
<1>7. JobSaving => JobSaving'
  <2> SUFFICES ASSUME JobSaving PROVE JobSaving'
    OBVIOUS
  <2>1. Acks(ws, node.flash) \subseteq Acks(ws, node'.flash)
          /\ [kind |-> "saved", ok |-> ok] \in Acks(ws, node'.flash)
    BY <1>1 DEF JobSaving, Holds, Acks, ws
  <2>2. Told(ws, node.ram) \cup Acks(ws, node.flash) \subseteq Told(ws, node'.ram) \cup Acks(ws, node'.flash)
    BY <1>1, <2>1
  <2>3. down \in Seq(Told(ws, node'.ram) \cup Acks(ws, node'.flash))
    BY <2>2, SeqMonotonic DEF JobSaving, ws
  <2>4. [kind |-> "saved", ok |-> ok] \in Told(ws, node'.ram) \cup Acks(ws, node'.flash)
    BY <2>1
  <2>5. down' \in Seq(Told(ws, node'.ram) \cup Acks(ws, node'.flash))
    BY <2>3, <2>4, AnswersType
  <2>6. up' \in Seq(Requests(ws) \cup {Save})
    BY TailType DEF JobSaving, ws
  <2> QED BY <1>1, <1>4, <2>5, <2>6 DEF JobSaving, Holds, queues, ws
<1>8. JobOver => JobOver'
  BY <1>1 DEF JobOver, Holds, queues
<1> QED BY <1>2, <1>5, <1>6, <1>7, <1>8 DEF SavedInv, JobInv

\* The node is what its flash says, and RAM with it: by Restart, which follows a
\* SAVE, or out of a bootloader that has answered nothing.
LEMMA JobBoots ==
  ASSUME BusInv, SavedInv, node' = Boots, UNCHANGED <<known, walk, queues, loops, dropping, job, down>>,
         \/ up' = up /\ boot.reading /\ ~boot'.reading
         \/ up # <<>> /\ up' = Tail(up) /\ Head(up) = Restart /\ boot' = boot /\ ~boot.reading,
         boot' = [reading |-> boot'.reading, ofs |-> boot'.ofs, tid |-> boot'.tid,
                  got |-> boot'.got, runs |-> boot'.runs],
         boot'.reading \in BOOLEAN
  PROVE  SavedInv'
<1>1. /\ node'.ram = node.flash /\ node'.flash = node.flash /\ node'.here \in BOOLEAN
      /\ node' \in [here : BOOLEAN, ram : [Param -> {0, 1}], flash : [Param -> {0, 1}]]
  BY DEF Boots, SavedInv, JobShape
<1>2. JobShape' /\ BootInv'
  BY <1>1 DEF SavedInv, JobShape, BootInv, queues
<1>3. JobWrites => JobWrites'
  <2>1. up \in Seq(Agreeing(job.writes)) => up' \in Seq(Agreeing(job.writes))
    BY TailType
  <2> QED BY <2>1 DEF JobWrites, queues
<1>4. WalkIsOver => WalkIsOver'
  BY DEF WalkIsOver
<1>5. JobWriting => JobWriting'
  <2> SUFFICES ASSUME JobWriting PROVE JobWriting'
    OBVIOUS
  <2>1. Head(up) # Restart \/ up = <<>>
    <3> SUFFICES ASSUME up # <<>> PROVE Head(up) # Restart
      OBVIOUS
    <3>1. Head(up) \in Requests(job.writes)
      BY TailType DEF JobWriting
    <3>2. PICK w \in job.writes : Head(up) = WriteOf(w.name, w.value)
      BY <3>1 DEF Requests
    <3> QED BY <3>2 DEF WriteOf, Restart
  <2>2. boot.reading /\ ~boot'.reading /\ up' = up /\ down = <<>> /\ \A w \in job.writes : w.name \in DOMAIN pending
    BY <2>1 DEF JobWriting
  <2>3. down' \in Seq(Told(job.writes, node'.ram))
    BY <2>2, EmptySeq
  <2> QED BY <1>4, <2>2, <2>3 DEF JobWriting, queues
<1>6. ~JobSaving
  <2> SUFFICES ASSUME JobSaving PROVE FALSE
    OBVIOUS
  <2>1. up # <<>> /\ Head(up) = Restart
    BY DEF JobSaving
  <2>2. Head(up) \in Requests(job.writes) \cup {Save}
    BY <2>1, TailType DEF JobSaving
  <2>3. ASSUME NEW w \in job.writes PROVE Restart # WriteOf(w.name, w.value)
    BY DEF WriteOf, Restart
  <2> QED BY <2>1, <2>2, <2>3 DEF Requests, Save, Restart
<1>7. JobOver => JobOver'
  BY <1>1 DEF JobOver, Holds, queues
<1> QED BY <1>2, <1>3, <1>5, <1>6, <1>7 DEF SavedInv, JobInv

LEMMA JobNodeServes == ASSUME BusInv, SavedInv, NodeServes, UNCHANGED boot PROVE SavedInv'
<1> DEFINE m == Head(up)
<1>1. up # <<>> /\ up' = Tail(up) /\ UNCHANGED <<known, walk, queues, loops, dropping, job>>
  BY DEF NodeServes
<1>2. m \in UpMsg
  BY <1>1, TailType DEF BusInv, Shape
<1>3. ASSUME UNCHANGED <<node, down>> PROVE SavedInv'
  <2>1. JobShape'
    BY <1>1, <1>3 DEF SavedInv, JobShape, queues
  <2>2. \A S : up \in Seq(S) => up' \in Seq(S)
    BY <1>1, TailType
  <2> QED BY <1>1, <1>3, <2>1, <2>2, WireKeeps DEF queues
<1>4. ASSUME m.kind = "read", UNCHANGED node PROVE SavedInv'
  <2>1. JobShape' /\ BootInv'
    BY <1>1, <1>4 DEF SavedInv, JobShape, BootInv, queues
  <2>2. JobWrites => JobWrites'
    <3>1. up \in Seq(Agreeing(job.writes)) => up' \in Seq(Agreeing(job.writes))
      BY <1>1, TailType
    <3> QED BY <1>1, <3>1 DEF JobWrites, queues
  <2>3. m \notin Requests(job.writes) \cup {Save}
    BY <1>4 DEF Requests, WriteOf, Save
  <2>4. ~JobWriting
    <3> HIDE DEF m
    <3>1. JobWriting => m \in Requests(job.writes)
      BY <1>1, TailType DEF JobWriting, m
    <3> QED BY <2>3, <3>1
  <2>5. ~JobSaving
    <3> HIDE DEF m
    <3>1. JobSaving => m \in Requests(job.writes) \cup {Save}
      BY <1>1, TailType DEF JobSaving, m
    <3> QED BY <2>3, <3>1
  <2>6. JobOver => JobOver'
    BY <1>1, <1>4 DEF JobOver, Holds, queues
  <2> QED BY <1>1, <2>1, <2>2, <2>4, <2>5, <2>6 DEF SavedInv, JobInv
<1>5. ASSUME node.here, m.kind = "write", node' = [node EXCEPT !.ram[m.name] = m.value],
             Answers([kind |-> "param", name |-> m.name])
      PROVE  SavedInv'
  BY <1>1, <1>5, JobNodeWrites
<1>6. ASSUME node.here, m.kind = "save", node' = [node EXCEPT !.flash = node.ram],
             Answers([kind |-> "saved", ok |-> TRUE])
      PROVE  SavedInv'
  BY <1>1, <1>6, JobNodeSaves
<1>7. ASSUME node.here, m.kind = "save", UNCHANGED node, Answers([kind |-> "saved", ok |-> FALSE])
      PROVE  SavedInv'
  BY <1>1, <1>7, JobNodeSaves
<1>8. ASSUME node.here, m.kind = "restart", UNCHANGED down,
             node' = [node EXCEPT !.here = (node.flash[IdParam] = 0), !.ram = node.flash]
      PROVE  SavedInv'
  <2>1. m = Restart
    BY <1>2, <1>8 DEF UpMsg, Save, Restart
  <2>2. ~boot.reading /\ boot'.reading \in BOOLEAN
    BY <1>8 DEF SavedInv, BootInv, JobShape
  <2>3. boot' = [reading |-> boot'.reading, ofs |-> boot'.ofs, tid |-> boot'.tid,
                 got |-> boot'.got, runs |-> boot'.runs]
    BY DEF SavedInv, JobShape
  <2>4. node' = Boots
    BY <1>8 DEF Boots
  <2> HIDE DEF m
  <2> QED BY <1>1, <1>8, <2>1, <2>2, <2>3, <2>4, JobBoots DEF m
<1>9. \/ UNCHANGED <<node, down>>
      \/ m.kind = "read" /\ UNCHANGED node
      \/ /\ node.here /\ m.kind = "write" /\ node' = [node EXCEPT !.ram[m.name] = m.value]
         /\ Answers([kind |-> "param", name |-> m.name])
      \/ /\ node.here /\ m.kind = "save" /\ node' = [node EXCEPT !.flash = node.ram]
         /\ Answers([kind |-> "saved", ok |-> TRUE])
      \/ node.here /\ m.kind = "save" /\ UNCHANGED node /\ Answers([kind |-> "saved", ok |-> FALSE])
      \/ /\ node.here /\ m.kind = "restart" /\ UNCHANGED down
         /\ node' = [node EXCEPT !.here = (node.flash[IdParam] = 0), !.ram = node.flash]
  BY DEF NodeServes
<1> QED BY <1>3, <1>4, <1>5, <1>6, <1>7, <1>8, <1>9

\* The service, its timers, the node and the tunnel.
LEMMA JobRuns == ASSUME BusInv, SavedInv, Runs, UNCHANGED boot PROVE SavedInv'
<1>1. ASSUME NEW i \in DOMAIN loops, SendNext(i) PROVE SavedInv'
  BY <1>1, JobSendNext
<1>2. ASSUME DropEntry PROVE SavedInv'
  <2>1. /\ UNCHANGED <<pending, saveAfter, saving, loops, up, down, node, job>> /\ dropping
    BY <1>2 DEF DropEntry, queues
  <2>2. JobShape' /\ BootInv'
    BY <2>1 DEF SavedInv, JobShape, BootInv
  <2>3. ~JobWriting /\ ~JobSaving
    BY <2>1 DEF JobWriting, JobSaving, WalkIsOver
  <2>4. (JobWrites => JobWrites') /\ (JobOver => JobOver')
    BY <2>1 DEF JobWrites, JobOver, Holds
  <2> QED BY <2>1, <2>2, <2>3, <2>4 DEF SavedInv, JobInv
<1>3. ASSUME CallStart \/ StartFails \/ CallStop PROVE SavedInv'
  <2>1. UNCHANGED <<known, walk, queues, loops, dropping, up, down, node, job>>
    BY <1>3 DEF CallStart, StartFails, CallStop
  <2>2. JobShape'
    BY <2>1 DEF SavedInv, JobShape, queues
  <2> QED BY <2>1, <2>2, WireKeeps DEF queues
<1>4. ASSUME StartSent PROVE SavedInv'
  BY <1>4, JobForgotten DEF StartSent, queues, SavedInv, JobShape
<1>5. ASSUME NEW due \in SUBSET DOMAIN pending, NEW walkDue \in BOOLEAN, Tick(due, walkDue)
      PROVE  SavedInv'
  BY <1>5, JobTick
<1> QED BY <1>1, <1>2, <1>3, <1>4, <1>5, JobSaveTimeout, JobNodeStatus, JobReceive, JobNodeServes,
           JobLose DEF Runs

\* The update: a node that leaves for its bootloader ends what can be said of the
\* job, and one that leaves its bootloader has not yet had anything of it.
LEMMA JobUpdate ==
  ASSUME BusInv, SavedInv,
         \/ \E m \in Images : CallUpdate(m)
         \/ CallCancel \/ BeginAgain \/ UpdateTimeout \/ FileReceive
         \/ BootServes \/ ReadsAgain \/ PowerCycle \/ FileLose
  PROVE  SavedInv'
<1>1. NodeUnchanged
  BY DEF CallUpdate, CallCancel, BeginAgain, UpdateTimeout, FileReceive, BootServes, ReadsAgain,
         PowerCycle, FileLose
<1>2. UNCHANGED <<known, walk, queues, loops, dropping, up, down>>
  BY <1>1 DEF NodeUnchanged
<1>3. ASSUME UNCHANGED <<job, node>>, boot'.reading = boot.reading,
             boot' = [reading |-> boot'.reading, ofs |-> boot'.ofs, tid |-> boot'.tid,
                      got |-> boot'.got, runs |-> boot'.runs]
      PROVE  SavedInv'
  <2>1. JobShape'
    BY <1>2, <1>3 DEF SavedInv, JobShape, queues
  <2> QED BY <1>2, <1>3, <2>1, WireKeeps DEF queues
<1>4. ASSUME UNCHANGED <<job, node, boot>> PROVE SavedInv'
  BY <1>3, <1>4 DEF SavedInv, JobShape
<1>5. ASSUME node' = Boots, UNCHANGED job, boot.reading, ~boot'.reading, boot'.reading \in BOOLEAN,
             boot' = [reading |-> boot'.reading, ofs |-> boot'.ofs, tid |-> boot'.tid,
                      got |-> boot'.got, runs |-> boot'.runs]
      PROVE  SavedInv'
  BY <1>2, <1>5, JobBoots
<1>6. boot = [reading |-> boot.reading, ofs |-> boot.ofs, tid |-> boot.tid, got |-> boot.got,
              runs |-> boot.runs]
  BY DEF SavedInv, JobShape
<1>7. ASSUME NEW m \in Images, CallUpdate(m) PROVE SavedInv'
  BY <1>2, <1>7, JobForgotten DEF CallUpdate, queues, SavedInv, JobShape
<1>8. ASSUME CallCancel \/ BeginAgain \/ UpdateTimeout \/ FileReceive \/ FileLose PROVE SavedInv'
  BY <1>4, <1>8 DEF CallCancel, BeginAgain, UpdateTimeout, FileReceive, FileLose
<1>9. ASSUME ReadsAgain PROVE SavedInv'
  <2>1. boot' = [boot EXCEPT !.tid = NextTid] /\ UNCHANGED <<job, node>>
    BY <1>9 DEF ReadsAgain
  <2> QED BY <1>3, <1>6, <2>1
<1>10. ASSUME PowerCycle PROVE SavedInv'
  <2>1. /\ boot' = [boot EXCEPT !.reading = FALSE, !.got = <<>>] /\ node' = Boots /\ UNCHANGED job
        /\ boot.reading
    BY <1>10 DEF PowerCycle
  <2> QED BY <1>5, <1>6, <2>1
<1>11. ASSUME BootServes PROVE SavedInv'
  <2>1. ASSUME OnChunk(Head(ask)), UNCHANGED job PROVE SavedInv'
    <3> DEFINE m == Head(ask)
               got == IF m.empty THEN boot.got ELSE Append(boot.got, <<m.image, m.at>>)
    <3>1. CASE UNCHANGED <<node, boot>>
      BY <1>4, <2>1, <3>1
    <3>2. CASE /\ boot.reading /\ node' = Boots
               /\ boot' = [boot EXCEPT !.reading = FALSE, !.got = <<>>, !.runs = got]
      BY <1>5, <1>6, <2>1, <3>2
    <3>3. CASE node' = node /\ boot' = [boot EXCEPT !.ofs = @ + 1, !.tid = NextTid, !.got = got]
      BY <1>3, <1>6, <2>1, <3>3
    <3> QED BY <2>1, <3>1, <3>2, <3>3 DEF OnChunk
  <2>2. ASSUME job' = NoJob, node' = [node EXCEPT !.here = FALSE],
               boot' = [boot EXCEPT !.reading = TRUE, !.ofs = 0, !.tid = NextTid, !.got = <<>>]
        PROVE  SavedInv'
    <3>1. JobShape'
      BY <1>2, <1>6, <2>2 DEF SavedInv, JobShape, queues, NoJob
    <3>2. BootInv' /\ ~job'.alone
      BY <2>2 DEF SavedInv, JobShape, BootInv, NoJob
    <3> QED BY <3>1, <3>2, NoClaim
  <2>3. \/ OnChunk(Head(ask)) /\ UNCHANGED job
        \/ /\ job' = NoJob /\ node' = [node EXCEPT !.here = FALSE]
           /\ boot' = [boot EXCEPT !.reading = TRUE, !.ofs = 0, !.tid = NextTid, !.got = <<>>]
        \/ UNCHANGED <<job, node, boot>>
    BY <1>11 DEF BootServes
  <2> QED BY <1>4, <2>1, <2>2, <2>3
<1> QED BY <1>7, <1>8, <1>9, <1>10, <1>11

LEMMA JobNext == BusInv /\ SavedInv /\ [BusNext]_busVars => SavedInv'
<1> SUFFICES ASSUME BusInv, SavedInv, [BusNext]_busVars PROVE SavedInv'
  OBVIOUS
<1>1. CASE UNCHANGED busVars
  <2>1. UNCHANGED <<known, walk, queues, loops, dropping, up, down, node, job, boot>>
    BY <1>1 DEF busVars, vars, updating
  <2>2. JobShape'
    BY <2>1 DEF SavedInv, JobShape, queues
  <2> QED BY <2>1, <2>2, WireKeeps DEF queues
<1>2. CASE Clearing /\ UNCHANGED boot
  BY <1>2, JobForgotten DEF Clearing, StopSent, Reset, Clears, SavedInv, JobShape
<1>3. CASE Operator /\ UNCHANGED boot
  BY <1>3, JobOperator
<1>4. CASE Runs /\ UNCHANGED boot
  BY <1>4, JobRuns
<1> QED BY <1>1, <1>2, <1>3, <1>4, JobUpdate DEF BusNext, updating

LEMMA JobInductive == BusSpec => [](BusInv /\ SavedInv)
<1>1. BusInit => BusInv /\ SavedInv
  BY InitInv, JobInit
<1>2. BusInv /\ SavedInv /\ [BusNext]_busVars => (BusInv /\ SavedInv)'
  BY NextInv, JobNext
<1> QED BY <1>1, <1>2, PTL DEF BusSpec

------------------------------------------------------------------------------
(***************************************************************************)
(* A completed update.  The service calls an update completed when the node *)
(* reads past the last full chunk, so that the argument is about what the   *)
(* node holds when it sends that read, and about which answers it takes: an *)
(* answer to its latest read, which nothing can follow (LatestRead).  Hence *)
(* a node that takes a chunk leaves nothing of the transfer under way, and  *)
(* what it holds are the first chunks of the image.  That a message with    *)
(* the transfer ID of the latest read answers it needs that no ID comes     *)
(* round again while a message with it is under way (TidReused).            *)
(***************************************************************************)
\* What the node is asked to do and given, and what it says.
AskMsg ==
  [kind : {"begin"}] \cup
  [kind : {"chunk"}, tid : Nat, image : {m.name : m \in Images}, at : Nat, last : BOOLEAN, empty : BOOLEAN]
ReplyMsg == [kind : {"begun"}, ok : BOOLEAN] \cup [kind : {"fileRead"}, at : Nat, tid : Nat]

Update ==
  [image : Images \cup {NoImage}, served : Nat, begins : Nat, first : BOOLEAN,
   status : {"none", "starting", "in_progress", "completed", "error"}]
Received == Seq({m.name : m \in Images} \X Nat)
Bootloader == [reading : BOOLEAN, ofs : Nat, tid : Nat, got : Received, runs : Received]

UpdateType ==
  /\ update \in Update /\ (update.status # "none" => update.image \in Images)
  /\ boot \in Bootloader
  /\ ask \in Seq(AskMsg) /\ reply \in Seq(ReplyMsg)

\* The update began with a node at rest, and has not failed.
Followed == update.first /\ update.status \in {"starting", "in_progress", "completed"}

\* The first i chunks of an image.
FirstChunks(m, i) == [k \in 1..i |-> <<m.name, k - 1>>]

\* Requests to begin come before chunks.  While there are any, or no read has
\* been answered, the node is at the start of the file.
BeginsFirst ==
  /\ \A i, j \in DOMAIN ask : i < j /\ ask[j].kind = "begin" => ask[i].kind = "begin"
  /\ update.status = "starting" => \A i \in DOMAIN ask : ask[i].kind = "begin"
  /\ update.status = "starting" \/ (\E i \in DOMAIN ask : ask[i].kind = "begin") =>
       (boot.reading => boot.ofs = 0)
  /\ (\E i \in DOMAIN ask : ask[i].kind = "begin") => update.status = "starting" \/ boot.reading

\* The answers on their way are true of the image.
TrueChunks ==
  \A i \in DOMAIN ask : ask[i].kind = "chunk" =>
     /\ ask[i].image = update.image.name
     /\ ask[i].last = ~FullAt(update.image, ask[i].at)
     /\ ask[i].empty = EmptyAt(update.image, ask[i].at)

\* No read is ahead of the node, and one that has the transfer ID the node waits
\* for is its latest: so is the answer to it, and nothing follows it.
LatestRead ==
  /\ \A i \in DOMAIN reply : reply[i].kind = "fileRead" =>
       /\ boot.reading /\ reply[i].at <= boot.ofs
       /\ reply[i].tid = boot.tid =>
            /\ reply[i].at = boot.ofs
            /\ \A j \in DOMAIN reply : j > i => reply[j].kind # "fileRead"
  /\ \A i \in DOMAIN ask : ask[i].kind = "chunk" =>
       /\ boot.reading
       /\ ask[i].tid = boot.tid =>
            /\ ask[i].at = boot.ofs /\ i = Len(ask)
            /\ \A j \in DOMAIN reply : reply[j].kind # "fileRead"

FileInv ==
  Followed =>
    /\ BeginsFirst /\ TrueChunks /\ LatestRead
    /\ boot.reading => boot.ofs <= update.image.full /\ boot.got = FirstChunks(update.image, boot.ofs)
    /\ update.status = "completed" =>
         boot.runs = Whole(update.image) \/ (boot.reading /\ boot.ofs = update.image.full)

\* The next transfer ID comes into use while a message that has it is under way.
TidReused ==
  /\ boot'.tid = NextTid
  /\ \E m \in Range(ask') \cup Range(reply) : m.kind \in {"chunk", "fileRead"} /\ m.tid = NextTid

\* What a queue holds after one more message: what it held, and perhaps the message.
Grown(S, q, m, r) ==
  /\ r \in Seq(S) /\ Len(q) \in Nat /\ Len(r) \in Nat /\ Len(r) <= Len(q) + 1
  /\ DOMAIN q = 1..Len(q) /\ DOMAIN r = 1..Len(r)
  /\ \A i \in 1..Len(r) : r[i] = IF i <= Len(q) THEN q[i] ELSE m

LEMMA FittingOne ==
  ASSUME NEW S, NEW q \in Seq(S), NEW m \in S
  PROVE  Grown(S, q, m, Fitting(q, <<m>>))
<1> DEFINE all == q \o <<m>>
           n == IF Len(all) < MaxWire THEN Len(all) ELSE MaxWire
<1>1. /\ all \in Seq(S) /\ Len(q) \in Nat /\ Len(all) = Len(q) + 1
      /\ \A i \in 1..(Len(q) + 1) : all[i] = IF i <= Len(q) THEN q[i] ELSE m
  <2>1. <<m>> \in Seq(S) /\ Len(<<m>>) = 1 /\ <<m>>[1] = m
    OBVIOUS
  <2> QED BY <2>1, ConcatProperties, LenProperties
<1>2. n \in Nat /\ n <= Len(all)
  BY <1>1, WireAssumption
<1>3. Fitting(q, <<m>>) = SubSeq(all, 1, n)
  BY DEF Fitting
<1> HIDE DEF all, n
<1>4. /\ SubSeq(all, 1, n) \in Seq(S) /\ Len(SubSeq(all, 1, n)) = n
      /\ \A i \in 1..n : SubSeq(all, 1, n)[i] = all[i]
  <2>1. \A i \in 1..n : all[i] \in S
    BY <1>1, <1>2, ElementOfSeq
  <2>2. /\ SubSeq(all, 1, n) \in Seq(S)
        /\ Len(SubSeq(all, 1, n)) = IF 1 <= n THEN n - 1 + 1 ELSE 0
        /\ \A i \in 1 .. n - 1 + 1 : SubSeq(all, 1, n)[i] = all[1 + i - 1]
    BY <1>2, <2>1, SubSeqProperties
  <2> QED BY <1>2, <2>2
<1>5. n <= Len(q) + 1 /\ \A i \in 1..n : SubSeq(all, 1, n)[i] = IF i <= Len(q) THEN q[i] ELSE m
  BY <1>1, <1>2, <1>4
<1>6. Len(Fitting(q, <<m>>)) = n
  BY <1>3, <1>4
<1>7. DOMAIN q = 1..Len(q) /\ DOMAIN SubSeq(all, 1, n) = 1..n
  BY <1>4, LenProperties
<1> QED BY <1>1, <1>2, <1>3, <1>4, <1>5, <1>6, <1>7 DEF Grown

\* After two more messages.
GrownTwice(S, q, m1, m2, r) ==
  /\ r \in Seq(S) /\ Len(q) \in Nat /\ Len(r) \in Nat /\ Len(r) <= Len(q) + 2
  /\ DOMAIN q = 1..Len(q) /\ DOMAIN r = 1..Len(r)
  /\ \A i \in 1..Len(r) :
        r[i] = IF i <= Len(q) THEN q[i] ELSE IF i = Len(q) + 1 THEN m1 ELSE m2

LEMMA FittingTwo ==
  ASSUME NEW S, NEW q \in Seq(S), NEW m1 \in S, NEW m2 \in S
  PROVE  GrownTwice(S, q, m1, m2, Fitting(q, <<m1, m2>>))
<1> DEFINE two == <<m1, m2>>
           all == q \o two
           n == IF Len(all) < MaxWire THEN Len(all) ELSE MaxWire
<1> HIDE DEF two
<1>0. two \in Seq(S) /\ Len(two) = 2 /\ two[1] = m1 /\ two[2] = m2
  BY DEF two
<1>1. /\ all \in Seq(S) /\ Len(q) \in Nat /\ Len(all) = Len(q) + 2
      /\ \A i \in 1..(Len(q) + 2) :
            all[i] = IF i <= Len(q) THEN q[i] ELSE IF i = Len(q) + 1 THEN m1 ELSE m2
  <2>2. Len(q) \in Nat
    BY LenProperties
  <2>3. /\ q \o two \in Seq(S) /\ Len(q \o two) = Len(q) + Len(two)
        /\ \A i \in 1 .. Len(q) + Len(two) :
              (q \o two)[i] = IF i <= Len(q) THEN q[i] ELSE two[i - Len(q)]
    BY <1>0, ConcatProperties
  <2> QED BY <1>0, <2>2, <2>3
<1>2. n \in Nat /\ n <= Len(all)
  BY <1>1, WireAssumption
<1>3. Fitting(q, two) = SubSeq(all, 1, n)
  BY DEF Fitting
<1> HIDE DEF all, n
<1>4. /\ SubSeq(all, 1, n) \in Seq(S) /\ Len(SubSeq(all, 1, n)) = n
      /\ \A i \in 1..n : SubSeq(all, 1, n)[i] = all[i]
  <2>1. \A i \in 1..n : all[i] \in S
    BY <1>1, <1>2, ElementOfSeq
  <2>2. /\ SubSeq(all, 1, n) \in Seq(S)
        /\ Len(SubSeq(all, 1, n)) = IF 1 <= n THEN n - 1 + 1 ELSE 0
        /\ \A i \in 1 .. n - 1 + 1 : SubSeq(all, 1, n)[i] = all[1 + i - 1]
    BY <1>2, <2>1, SubSeqProperties
  <2> QED BY <1>2, <2>2
<1>5. /\ n <= Len(q) + 2
      /\ \A i \in 1..n : SubSeq(all, 1, n)[i] =
            IF i <= Len(q) THEN q[i] ELSE IF i = Len(q) + 1 THEN m1 ELSE m2
  BY <1>1, <1>2, <1>4
<1>6. Len(Fitting(q, <<m1, m2>>)) = n
  BY <1>3, <1>4 DEF two
<1>7. DOMAIN q = 1..Len(q) /\ DOMAIN SubSeq(all, 1, n) = 1..n
  BY <1>4, LenProperties
<1> QED BY <1>1, <1>2, <1>3, <1>4, <1>5, <1>6, <1>7 DEF two, GrownTwice

\* One more chunk.
LEMMA OneMoreChunk ==
  ASSUME NEW m, NEW i \in Nat
  PROVE  Append(FirstChunks(m, i), <<m.name, i>>) = FirstChunks(m, i + 1)
<1> DEFINE S == {m.name} \X Nat
<1>1. /\ FirstChunks(m, i) \in Seq(S) /\ Len(FirstChunks(m, i)) = i /\ <<m.name, i>> \in S
      /\ FirstChunks(m, i + 1) \in Seq(S) /\ Len(FirstChunks(m, i + 1)) = i + 1
  BY DEF FirstChunks
<1>2. /\ \A k \in 1..i : FirstChunks(m, i)[k] = <<m.name, k - 1>>
      /\ \A k \in 1..(i + 1) : FirstChunks(m, i + 1)[k] = <<m.name, k - 1>>
  BY DEF FirstChunks
<1> HIDE DEF S
<1> DEFINE more == Append(FirstChunks(m, i), <<m.name, i>>)
<1>3. /\ more \in Seq(S) /\ Len(more) = i + 1
      /\ \A k \in 1..i : more[k] = FirstChunks(m, i)[k]
      /\ more[i + 1] = <<m.name, i>>
  BY <1>1, AppendProperties
<1> HIDE DEF more
<1>4. \A k \in 1..(i + 1) : more[k] = FirstChunks(m, i + 1)[k]
  <2> TAKE k \in 1..(i + 1)
  <2>1. CASE k = i + 1
    <3>1. k - 1 = i
      BY <2>1
    <3> QED BY <1>2, <1>3, <2>1, <3>1
  <2>2. CASE k # i + 1
    <3>1. k \in 1..i
      BY <2>2
    <3> QED BY <1>2, <1>3, <3>1
  <2> QED BY <2>1, <2>2
<1> QED BY <1>1, <1>3, <1>4, SeqEqual DEF more

\* A message less, in either direction.
LEMMA LineShrinks ==
  ASSUME UpdateType, FileInv, update' = update, boot' = boot,
         ask' = ask \/ (ask # <<>> /\ ask' = Tail(ask)),
         reply' = reply \/ (reply # <<>> /\ reply' = Tail(reply))
  PROVE  UpdateType' /\ FileInv'
<1>0. ask \in Seq(AskMsg) /\ reply \in Seq(ReplyMsg)
  BY DEF UpdateType
<1>1. PICK a \in 0..1 : /\ ask' \in Seq(AskMsg) /\ Len(ask) \in Nat /\ Len(ask') = Len(ask) - a
                          /\ \A i \in 1..Len(ask') : ask'[i] = ask[i + a]
  <2>1. CASE ask' = ask
    BY <1>0, <2>1, LenProperties
  <2>2. CASE ask # <<>> /\ ask' = Tail(ask)
    BY <1>0, <2>2, HeadTailProperties, LenProperties
  <2> QED BY <2>1, <2>2
<1>2. PICK b \in 0..1 : /\ reply' \in Seq(ReplyMsg) /\ Len(reply) \in Nat /\ Len(reply') = Len(reply) - b
                          /\ \A i \in 1..Len(reply') : reply'[i] = reply[i + b]
  <2>1. CASE reply' = reply
    BY <1>0, <2>1, LenProperties
  <2>2. CASE reply # <<>> /\ reply' = Tail(reply)
    BY <1>0, <2>2, HeadTailProperties, LenProperties
  <2> QED BY <2>1, <2>2
<1>3. /\ DOMAIN ask = 1..Len(ask) /\ DOMAIN ask' = 1..Len(ask')
      /\ DOMAIN reply = 1..Len(reply) /\ DOMAIN reply' = 1..Len(reply')
  BY <1>0, <1>1, <1>2, LenProperties
<1>4. Len(ask) \in Nat /\ a \in 0..1 /\ Len(ask') = Len(ask) - a
  BY <1>1
<1>5. Len(reply) \in Nat /\ b \in 0..1 /\ Len(reply') = Len(reply) - b
  BY <1>2
<1>6. \A i \in DOMAIN ask' : i \in Int /\ i + a \in DOMAIN ask /\ ask'[i] = ask[i + a]
  <2> TAKE i \in DOMAIN ask'
  <2>1. i \in 1..Len(ask')
    BY <1>3
  <2>2. i + a \in 1..Len(ask)
    BY <1>4, <2>1
  <2>3. ask'[i] = ask[i + a]
    BY <1>1, <2>1, Zenon
  <2>4. i \in Int
    BY <2>1
  <2> QED BY <1>3, <2>2, <2>3, <2>4, Zenon
<1>7. \A i \in DOMAIN reply' : i \in Int /\ i + b \in DOMAIN reply /\ reply'[i] = reply[i + b]
  <2> TAKE i \in DOMAIN reply'
  <2>1. i \in 1..Len(reply')
    BY <1>3
  <2>2. i + b \in 1..Len(reply)
    BY <1>5, <2>1
  <2>3. reply'[i] = reply[i + b]
    BY <1>2, <2>1, Zenon
  <2>4. i \in Int
    BY <2>1
  <2> QED BY <1>3, <2>2, <2>3, <2>4, Zenon
<1>8. UpdateType'
  BY <1>1, <1>2 DEF UpdateType
<1>9. ASSUME Followed PROVE BeginsFirst' /\ TrueChunks' /\ LatestRead'
  <2>1. BeginsFirst /\ TrueChunks /\ LatestRead
    BY <1>9 DEF FileInv
  <2>2. BeginsFirst'
    <3>1. \A i, j \in DOMAIN ask' : i < j /\ ask'[j].kind = "begin" => ask'[i].kind = "begin"
      <4> SUFFICES ASSUME NEW i \in DOMAIN ask', NEW j \in DOMAIN ask', i < j, ask'[j].kind = "begin"
                   PROVE  ask'[i].kind = "begin"
        OBVIOUS
      <4>1. /\ i + a \in DOMAIN ask /\ j + a \in DOMAIN ask /\ i + a < j + a
            /\ ask'[i] = ask[i + a] /\ ask'[j] = ask[j + a]
        BY <1>6
      <4> QED BY <2>1, <4>1 DEF BeginsFirst
    <3>2. (\E i \in DOMAIN ask' : ask'[i].kind = "begin") => \E i \in DOMAIN ask : ask[i].kind = "begin"
      BY <1>6
    <3> QED BY <1>6, <2>1, <3>1, <3>2 DEF BeginsFirst
  <2>3. TrueChunks'
    BY <1>6, <2>1 DEF TrueChunks
  <2>4. LatestRead'
    <3>1. ASSUME NEW i \in DOMAIN reply', reply'[i].kind = "fileRead"
          PROVE  /\ boot.reading /\ reply'[i].at <= boot.ofs
                 /\ reply'[i].tid = boot.tid =>
                      /\ reply'[i].at = boot.ofs
                      /\ \A j \in DOMAIN reply' : j > i => reply'[j].kind # "fileRead"
      <4>1. i + b \in DOMAIN reply /\ reply'[i] = reply[i + b] /\ i \in Int
        BY <1>7
      <4>2. \A j \in DOMAIN reply' : j > i => j + b > i + b /\ j + b \in DOMAIN reply
                                             /\ reply'[j] = reply[j + b]
        BY <1>7, <4>1
      <4> QED BY <2>1, <3>1, <4>1, <4>2 DEF LatestRead
    <3>2. ASSUME NEW i \in DOMAIN ask', ask'[i].kind = "chunk"
          PROVE  /\ boot.reading
                 /\ ask'[i].tid = boot.tid =>
                      /\ ask'[i].at = boot.ofs /\ i = Len(ask')
                      /\ \A j \in DOMAIN reply' : reply'[j].kind # "fileRead"
      <4>1. i + a \in DOMAIN ask /\ ask'[i] = ask[i + a] /\ i \in Int
        BY <1>6
      <4>2. i + a = Len(ask) => i = Len(ask')
        BY <1>4, <4>1
      <4> QED BY <1>7, <2>1, <3>2, <4>1, <4>2 DEF LatestRead
    <3> QED BY <3>1, <3>2 DEF LatestRead
  <2> QED BY <2>2, <2>3, <2>4
<1>10. FileInv'
  BY <1>9 DEF FileInv, Followed
<1> QED BY <1>8, <1>10

LEMMA FileInit == BusInit => UpdateType /\ FileInv
BY DEF BusInit, UpdateType, Update, Bootloader, Received, FileInv, Followed, NoUpdate, NoImage

\* An update that has failed, or was dismissed, is not followed.
LEMMA NotFollowed ==
  ASSUME UpdateType, update'.status \in {"none", "error"}, UNCHANGED <<boot, ask, reply>>,
         \/ update' = NoUpdate
         \/ update' = [update EXCEPT !.status = "error"] /\ update.status # "none"
  PROVE  UpdateType' /\ FileInv'
<1>1. update' \in Update /\ (update'.status # "none" => update'.image \in Images)
  <2>1. CASE update' = NoUpdate
    BY <2>1 DEF NoUpdate, Update
  <2>2. CASE update' = [update EXCEPT !.status = "error"] /\ update.status # "none"
    BY <2>2 DEF UpdateType, Update
  <2> QED BY <2>1, <2>2
<1> QED BY <1>1 DEF FileInv, Followed, UpdateType

\* What FileSends makes of the queue to the node.
LEMMA FileSendsOne ==
  ASSUME UpdateType, NEW m \in AskMsg, FileSends(m)
  PROVE  /\ ask' \in Seq(AskMsg) /\ Len(ask) \in Nat /\ Len(ask') \in Nat /\ Len(ask') <= Len(ask) + 1
         /\ DOMAIN ask = 1..Len(ask) /\ DOMAIN ask' = 1..Len(ask')
         /\ \A i \in 1..Len(ask') :
               (i \in DOMAIN ask /\ ask'[i] = ask[i]) \/ (i = Len(ask) + 1 /\ ask'[i] = m)
<1>1. ask \in Seq(AskMsg)
  BY DEF UpdateType
<1>2. Len(ask) \in Nat /\ DOMAIN ask = 1..Len(ask)
  BY <1>1, LenProperties
<1>3. CASE ask' = ask
  <2>1. Len(ask') = Len(ask) /\ DOMAIN ask' = DOMAIN ask
    BY <1>3
  <2> QED BY <1>1, <1>2, <1>3, <2>1
<1>4. CASE ask' = Fitting(ask, <<m>>)
  <2>1. Grown(AskMsg, ask, m, ask')
    BY <1>1, <1>4, FittingOne
  <2>2. ASSUME NEW i \in 1..Len(ask')
        PROVE  (i \in DOMAIN ask /\ ask'[i] = ask[i]) \/ (i = Len(ask) + 1 /\ ask'[i] = m)
    <3>1. Len(ask) \in Nat /\ Len(ask') \in Nat /\ Len(ask') <= Len(ask) + 1
      BY <2>1 DEF Grown
    <3>2. i \in 1..Len(ask) \/ (i = Len(ask) + 1 /\ ~(i <= Len(ask)))
      BY <3>1
    <3> QED BY <1>2, <2>1, <3>2 DEF Grown
  <2> QED BY <2>1, <2>2 DEF Grown
<1> QED BY <1>3, <1>4 DEF FileSends

LEMMA FileUpdateCalled ==
  ASSUME UpdateType, NEW m \in Images, CallUpdate(m)
  PROVE  UpdateType' /\ FileInv'
<1> DEFINE begin == [kind |-> "begin"]
<1>1. /\ update' = [image |-> m, status |-> "starting", served |-> 0, begins |-> 1,
                    first |-> ~boot.reading /\ FileSilence]
      /\ FileSends(begin) /\ UNCHANGED <<boot, reply>>
  BY DEF CallUpdate
<1>2. begin \in AskMsg
  BY DEF AskMsg
<1>3. /\ ask' \in Seq(AskMsg) /\ DOMAIN ask' = 1..Len(ask')
      /\ \A i \in 1..Len(ask') : (i \in DOMAIN ask /\ ask'[i] = ask[i]) \/ ask'[i] = begin
  BY <1>1, <1>2, FileSendsOne
<1>4. UpdateType'
  <2>1. update' \in Update /\ update'.image \in Images
    BY <1>1 DEF Update
  <2> QED BY <1>1, <1>3, <2>1 DEF UpdateType
<1>5. ASSUME Followed' PROVE FileInv'
  <2>1. ~boot.reading /\ ask = <<>> /\ reply = <<>>
    BY <1>1, <1>5 DEF Followed, FileSilence
  <2>2. DOMAIN ask = {} /\ DOMAIN reply = {}
    BY <2>1
  <2>3. \A i \in DOMAIN ask' : ask'[i].kind = "begin"
    BY <1>3, <2>2
  <2>4. update'.status = "starting" /\ ~boot'.reading /\ DOMAIN reply' = {}
    BY <1>1, <2>1, <2>2
  <2>5. BeginsFirst' /\ TrueChunks' /\ LatestRead'
    BY <2>3, <2>4 DEF BeginsFirst, TrueChunks, LatestRead
  <2> QED BY <2>4, <2>5 DEF FileInv
<1> QED BY <1>4, <1>5 DEF FileInv

LEMMA FileBeginAgain ==
  ASSUME UpdateType, FileInv, BeginAgain
  PROVE  UpdateType' /\ FileInv'
<1> DEFINE begin == [kind |-> "begin"]
<1>1. /\ update' = [update EXCEPT !.begins = update.begins + 1] /\ update.status = "starting"
      /\ FileSends(begin) /\ UNCHANGED <<boot, reply>>
  BY DEF BeginAgain
<1>2. begin \in AskMsg
  BY DEF AskMsg
<1>3. /\ ask' \in Seq(AskMsg) /\ DOMAIN ask' = 1..Len(ask')
      /\ \A i \in 1..Len(ask') : (i \in DOMAIN ask /\ ask'[i] = ask[i]) \/ ask'[i] = begin
  BY <1>1, <1>2, FileSendsOne
<1>4. /\ update'.status = update.status /\ update'.first = update.first
      /\ update'.image = update.image
  BY <1>1 DEF UpdateType, Update
<1>5. UpdateType'
  <2>1. update' \in Update
    BY <1>1 DEF UpdateType, Update
  <2> QED BY <1>1, <1>3, <1>4, <2>1 DEF UpdateType
<1>6. ASSUME Followed PROVE FileInv'
  <2>1. BeginsFirst /\ TrueChunks /\ LatestRead
    BY <1>6 DEF FileInv
  <2>2. \A i \in DOMAIN ask' : ask'[i].kind = "begin"
    BY <1>1, <1>3, <2>1 DEF BeginsFirst
  <2>3. BeginsFirst' /\ TrueChunks' /\ LatestRead'
    BY <1>1, <1>4, <2>1, <2>2 DEF BeginsFirst, TrueChunks, LatestRead
  <2> QED BY <1>1, <1>4, <1>6, <2>3 DEF FileInv
<1> QED BY <1>4, <1>5, <1>6 DEF FileInv, Followed

\* The head of the replies, and what is left of them.
LEMMA ReplyTaken ==
  ASSUME UpdateType, reply # <<>>, reply' = Tail(reply)
  PROVE  /\ reply' \in Seq(ReplyMsg) /\ 1 \in DOMAIN reply /\ Head(reply) = reply[1]
         /\ reply[1] \in ReplyMsg
         /\ \A i \in DOMAIN reply' : i \in Int /\ i + 1 \in DOMAIN reply /\ reply'[i] = reply[i + 1]
                                     /\ i + 1 > 1
<1>1. reply \in Seq(ReplyMsg)
  BY DEF UpdateType
<1>2. /\ reply' \in Seq(ReplyMsg) /\ Len(reply') = Len(reply) - 1 /\ Head(reply) \in ReplyMsg
      /\ \A i \in 1..Len(reply') : reply'[i] = reply[i + 1]
  BY <1>1, HeadTailProperties
<1>3. /\ Len(reply) \in Nat /\ Len(reply') \in Nat
      /\ DOMAIN reply = 1..Len(reply) /\ DOMAIN reply' = 1..Len(reply')
  BY <1>1, <1>2, LenProperties
<1>4. Head(reply) = reply[1]
  BY <1>1
<1>5. ASSUME NEW i \in DOMAIN reply'
      PROVE  i \in Int /\ i + 1 \in DOMAIN reply /\ reply'[i] = reply[i + 1] /\ i + 1 > 1
  <2>1. i \in 1..Len(reply')
    BY <1>3
  <2>2. i \in Int /\ i + 1 \in 1..Len(reply) /\ i + 1 > 1
    BY <1>2, <1>3, <2>1
  <2>3. reply'[i] = reply[i + 1]
    BY <1>2, <2>1, Zenon
  <2> QED BY <1>3, <2>2, <2>3, Zenon
<1>6. 1 \in DOMAIN reply
  BY <1>2, <1>3
<1> QED BY <1>2, <1>4, <1>5, <1>6

\* What handleFileReadRequest answers is true, and what it makes of the update.
LEMMA FileAnswered ==
  ASSUME UpdateType, FileInv, reply # <<>>, reply' = Tail(reply), Head(reply).kind = "fileRead",
         OnFileRead(Head(reply).at, Head(reply).tid), UNCHANGED boot
  PROVE  UpdateType' /\ FileInv'
<1> DEFINE r == Head(reply)
           c == Chunk(r.at, r.tid)
<1>1. /\ reply' \in Seq(ReplyMsg) /\ 1 \in DOMAIN reply /\ r = reply[1] /\ r \in ReplyMsg
      /\ \A i \in DOMAIN reply' : i \in Int /\ i + 1 \in DOMAIN reply /\ reply'[i] = reply[i + 1]
                                  /\ i + 1 > 1
  BY ReplyTaken, Zenon
<1>2. r.at \in Nat /\ r.tid \in Nat /\ r.kind = "fileRead"
  BY <1>1 DEF ReplyMsg
<1>3. CASE update.status \in {"none", "error"}
  BY <1>3, LineShrinks DEF OnFileRead
<1>4. CASE update.status \notin {"none", "error"}
  <2> HIDE DEF r
  <2>1. /\ FileSends(c)
        /\ update' = IF update.status = "completed" THEN update ELSE AfterRead(r.at)
    BY <1>4 DEF OnFileRead, r
  <2>2. update.image \in Images /\ update.image.full \in Nat
    BY <1>4, ImagesAssumption DEF UpdateType
  <2>3. c \in AskMsg /\ c.kind = "chunk" /\ c.tid = r.tid /\ c.at = r.at /\ c.image = update.image.name
        /\ c.last = ~FullAt(update.image, r.at) /\ c.empty = EmptyAt(update.image, r.at)
    BY <1>2, <2>2 DEF AskMsg, Chunk, FullAt, EmptyAt
  <2> HIDE DEF c
  <2>4. /\ ask' \in Seq(AskMsg) /\ Len(ask) \in Nat /\ Len(ask') \in Nat /\ Len(ask') <= Len(ask) + 1
        /\ DOMAIN ask = 1..Len(ask) /\ DOMAIN ask' = 1..Len(ask')
        /\ \A i \in 1..Len(ask') :
              (i \in DOMAIN ask /\ ask'[i] = ask[i]) \/ (i = Len(ask) + 1 /\ ask'[i] = c)
    BY <2>1, <2>3, FileSendsOne
  <2>5. /\ update' \in Update /\ update'.first = update.first /\ update'.image = update.image
        /\ update'.status \in {"in_progress", "completed", "error"}
        /\ update'.status = "completed" => \/ update.status = "completed"
                                           \/ ~(r.at < update.image.full)
    <3>1. CASE update.status = "completed"
      BY <2>1, <3>1 DEF UpdateType, Update
    <3>2. CASE update.status # "completed"
      <4> DEFINE m == update.image
                 progress == update.served > 0 \/ OneChunk(m)
                 credited == ~EmptyAt(m, r.at) \/ progress
                 served == IF credited /\ EndAt(m, r.at) > update.served THEN EndAt(m, r.at)
                           ELSE update.served
                 goes == IF ~FullAt(m, r.at) /\ progress THEN "completed"
                         ELSE IF EmptyAt(m, r.at) /\ ~progress THEN "error" ELSE "in_progress"
      <4>1. update' = [update EXCEPT !.served = served, !.status = goes]
        BY <2>1, <3>2 DEF AfterRead
      <4>2. served \in Nat
        BY <1>2, <2>2, ImagesAssumption DEF EndAt, Size, UpdateType, Update
      <4>3. /\ goes \in {"in_progress", "completed", "error"}
            /\ goes = "completed" => ~(r.at < update.image.full)
        BY DEF FullAt
      <4> HIDE DEF served, goes
      <4> QED BY <4>1, <4>2, <4>3 DEF UpdateType, Update
    <3> QED BY <3>1, <3>2
  <2>6. UpdateType'
    BY <1>1, <2>2, <2>4, <2>5 DEF UpdateType
  <2>7. ASSUME Followed, Followed' PROVE FileInv'
    <3>1. /\ BeginsFirst /\ TrueChunks /\ LatestRead
          /\ boot.reading => /\ boot.ofs <= update.image.full
                             /\ boot.got = FirstChunks(update.image, boot.ofs)
          /\ update.status = "completed" =>
               boot.runs = Whole(update.image) \/ (boot.reading /\ boot.ofs = update.image.full)
      BY <2>7 DEF FileInv
    <3>2. /\ boot.reading /\ r.at <= boot.ofs
          /\ r.tid = boot.tid =>
               /\ r.at = boot.ofs
               /\ \A j \in DOMAIN reply : j > 1 => reply[j].kind # "fileRead"
      BY <1>1, <1>2, <3>1 DEF LatestRead
    <3>3. BeginsFirst'
      <4>1. ASSUME NEW i \in DOMAIN ask', NEW j \in DOMAIN ask', i < j, ask'[j].kind = "begin"
            PROVE  ask'[i].kind = "begin"
        <5>1. j \in DOMAIN ask /\ ask'[j] = ask[j]
          BY <2>3, <2>4, <4>1
        <5>2. i \in DOMAIN ask /\ ask'[i] = ask[i]
          BY <2>4, <4>1, <5>1
        <5> QED BY <3>1, <4>1, <5>1, <5>2 DEF BeginsFirst
      <4>2. (\E i \in DOMAIN ask' : ask'[i].kind = "begin") => \E i \in DOMAIN ask : ask[i].kind = "begin"
        BY <2>3, <2>4
      <4>3. update'.status # "starting" /\ boot' = boot
        BY <2>5
      <4> QED BY <3>1, <3>2, <4>1, <4>2, <4>3 DEF BeginsFirst
    <3>4. TrueChunks'
      BY <2>3, <2>4, <2>5, <3>1 DEF TrueChunks
    <3>5. LatestRead'
      <4>1. ASSUME NEW i \in DOMAIN reply', reply'[i].kind = "fileRead"
            PROVE  /\ boot.reading /\ reply'[i].at <= boot.ofs
                   /\ reply'[i].tid = boot.tid =>
                        /\ reply'[i].at = boot.ofs
                        /\ \A j \in DOMAIN reply' : j > i => reply'[j].kind # "fileRead"
        <5>1. i \in Int /\ i + 1 \in DOMAIN reply /\ reply'[i] = reply[i + 1]
          BY <1>1
        <5>2. \A j \in DOMAIN reply' : j > i => j + 1 > i + 1 /\ j + 1 \in DOMAIN reply
                                               /\ reply'[j] = reply[j + 1]
          BY <1>1, <5>1
        <5> QED BY <3>1, <4>1, <5>1, <5>2 DEF LatestRead
      <4>2. ASSUME NEW i \in DOMAIN ask', ask'[i].kind = "chunk", ask'[i].tid = boot.tid
            PROVE  /\ ask'[i].at = boot.ofs /\ i = Len(ask')
                   /\ \A j \in DOMAIN reply' : reply'[j].kind # "fileRead"
        <5>1. CASE i \in DOMAIN ask /\ ask'[i] = ask[i]
          BY <1>1, <1>2, <3>1, <4>2, <5>1 DEF LatestRead
        <5>2. CASE i = Len(ask) + 1 /\ ask'[i] = c
          <6>1. i = Len(ask')
            <7>1. /\ Len(ask) \in Nat /\ Len(ask') \in Nat /\ Len(ask') <= Len(ask) + 1
                  /\ i \in 1..Len(ask') /\ i = Len(ask) + 1
              BY <2>4, <4>2, <5>2
            <7> QED BY <7>1
          <6> QED BY <1>1, <2>3, <3>2, <4>2, <5>2, <6>1
        <5> QED BY <2>4, <4>2, <5>1, <5>2
      <4> QED BY <3>2, <4>1, <4>2 DEF LatestRead
    <3>6. update'.status = "completed" =>
            boot.runs = Whole(update.image) \/ (boot.reading /\ boot.ofs = update.image.full)
      <4>1. boot.ofs \in Nat
        BY DEF UpdateType, Bootloader
      <4> QED BY <1>2, <2>2, <2>5, <3>1, <3>2, <4>1
    <3> QED BY <2>5, <3>1, <3>3, <3>4, <3>5, <3>6 DEF FileInv
  <2>8. Followed' => Followed
    BY <1>4, <2>5 DEF Followed, UpdateType, Update
  <2> QED BY <2>6, <2>7, <2>8 DEF FileInv
<1> QED BY <1>3, <1>4

LEMMA FileReceived ==
  ASSUME UpdateType, FileInv, FileReceive
  PROVE  UpdateType' /\ FileInv'
<1>1. reply # <<>> /\ reply' = Tail(reply) /\ UNCHANGED boot
  BY DEF FileReceive
<1>2. CASE UNCHANGED <<update, ask>>
  BY <1>1, <1>2, LineShrinks
<1>3. CASE update.status = "starting" /\ update' = [update EXCEPT !.status = "error"] /\ UNCHANGED ask
  <2>1. /\ update' \in Update /\ update'.status = "error" /\ update'.image = update.image
        /\ update.image \in Images
    BY <1>3 DEF UpdateType, Update
  <2>2. reply' \in Seq(ReplyMsg)
    BY <1>1, ReplyTaken, Zenon
  <2> QED BY <1>1, <1>3, <2>1, <2>2 DEF UpdateType, FileInv, Followed
<1>4. CASE Head(reply).kind = "fileRead" /\ OnFileRead(Head(reply).at, Head(reply).tid)
  BY <1>1, <1>4, FileAnswered
<1> QED BY <1>2, <1>3, <1>4 DEF FileReceive, OnBegun

\* What is under way when the node takes a new transfer ID that no message has.
LEMMA NewTid ==
  ASSUME UpdateType, ~TidReused, boot'.tid = NextTid
  PROVE  /\ \A i \in DOMAIN reply : reply[i].kind = "fileRead" => reply[i].tid # boot'.tid
         /\ \A i \in DOMAIN ask' : ask'[i].kind = "chunk" => ask'[i].tid # boot'.tid
<1>1. /\ \A i \in DOMAIN reply : reply[i] \in Range(reply)
      /\ \A i \in DOMAIN ask' : ask'[i] \in Range(ask')
  BY DEF Range
<1> QED BY <1>1 DEF TidReused

LEMMA NextTidType == ASSUME UpdateType PROVE NextTid \in Nat
<1>1. boot.tid + 1 \in Nat /\ TidMod \in Nat /\ TidMod > 0
  BY BeginsAssumption DEF UpdateType, Bootloader
<1> QED BY <1>1 DEF NextTid

\* The head of what is on its way to the node, and what is left of it.
LEMMA AskTaken ==
  ASSUME UpdateType, ask # <<>>, ask' = Tail(ask)
  PROVE  /\ ask' \in Seq(AskMsg) /\ 1 \in DOMAIN ask /\ Head(ask) = ask[1] /\ ask[1] \in AskMsg
         /\ Len(ask) = 1 => DOMAIN ask' = {}
         /\ \A i \in DOMAIN ask' : i \in Int /\ i + 1 \in DOMAIN ask /\ ask'[i] = ask[i + 1]
<1>1. ask \in Seq(AskMsg)
  BY DEF UpdateType
<1>2. /\ ask' \in Seq(AskMsg) /\ Len(ask') = Len(ask) - 1 /\ Head(ask) \in AskMsg
      /\ \A i \in 1..Len(ask') : ask'[i] = ask[i + 1]
  BY <1>1, HeadTailProperties
<1>3. /\ Len(ask) \in Nat /\ Len(ask') \in Nat
      /\ DOMAIN ask = 1..Len(ask) /\ DOMAIN ask' = 1..Len(ask')
  BY <1>1, <1>2, LenProperties
<1>4. Head(ask) = ask[1]
  BY <1>1
<1>5. ASSUME NEW i \in DOMAIN ask'
      PROVE  i \in Int /\ i + 1 \in DOMAIN ask /\ ask'[i] = ask[i + 1]
  <2>1. i \in 1..Len(ask')
    BY <1>3
  <2>2. i \in Int /\ i + 1 \in 1..Len(ask)
    BY <1>2, <1>3, <2>1
  <2>3. ask'[i] = ask[i + 1]
    BY <1>2, <2>1, Zenon
  <2> QED BY <1>3, <2>2, <2>3, Zenon
<1>6. 1 \in DOMAIN ask
  BY <1>2, <1>3
<1>7. Len(ask) = 1 => DOMAIN ask' = {}
  BY <1>2, <1>3
<1> QED BY <1>2, <1>4, <1>5, <1>6, <1>7

\* The node takes an answer: to its latest read, and the last of what is under way.
LEMMA FileChunkTaken ==
  ASSUME UpdateType, FileInv, ask # <<>>, ask' = Tail(ask), Head(ask).kind = "chunk",
         OnChunk(Head(ask)), UNCHANGED update
  PROVE  UpdateType' /\ FileInv'
<1> DEFINE m == Head(ask)
           got == IF m.empty THEN boot.got ELSE Append(boot.got, <<m.image, m.at>>)
<1>1. /\ ask' \in Seq(AskMsg) /\ 1 \in DOMAIN ask /\ m = ask[1] /\ m \in AskMsg
      /\ Len(ask) = 1 => DOMAIN ask' = {}
  BY AskTaken, Zenon
<1>2. /\ m.kind = "chunk" /\ m.image \in {i.name : i \in Images} /\ m.at \in Nat
      /\ m.last \in BOOLEAN /\ m.empty \in BOOLEAN
  BY <1>1 DEF AskMsg
<1>3. CASE m.tid # boot.tid \/ ~boot.reading
  BY <1>3, LineShrinks DEF OnChunk
<1>4. CASE m.tid = boot.tid /\ boot.reading
  <2> HIDE DEF m
  <2>1. /\ m.last => /\ boot' = [boot EXCEPT !.reading = FALSE, !.got = <<>>, !.runs = got]
                     /\ UNCHANGED reply
        /\ ~m.last =>
             /\ boot' = [boot EXCEPT !.ofs = boot.ofs + 1, !.tid = NextTid, !.got = got]
             /\ reply' = Fitting(reply, <<NodeReads(boot.ofs + 1, NextTid)>>)
    BY <1>4 DEF OnChunk, m
  <2>2. got \in Received
    <3>1. <<m.image, m.at>> \in {i.name : i \in Images} \X Nat
      BY <1>2
    <3> QED BY <3>1, AppendProperties DEF UpdateType, Bootloader, Received
  <2>3. /\ boot.ofs \in Nat /\ boot.ofs + 1 \in Nat /\ NextTid \in Nat
        /\ NodeReads(boot.ofs + 1, NextTid) \in ReplyMsg /\ reply \in Seq(ReplyMsg)
    BY NextTidType DEF UpdateType, Bootloader, NodeReads, ReplyMsg
  <2>4. ~m.last => Grown(ReplyMsg, reply, NodeReads(boot.ofs + 1, NextTid), reply')
    BY <2>1, <2>3, FittingOne
  <2> HIDE DEF got
  <2>5. /\ boot' \in Bootloader
        /\ m.last => ~boot'.reading /\ boot'.runs = got
        /\ ~m.last => /\ boot'.reading /\ boot'.ofs = boot.ofs + 1 /\ boot'.got = got
                      /\ boot'.runs = boot.runs
    <3>1. boot \in Bootloader /\ <<>> \in Received
      BY DEF UpdateType, Received
    <3>2. CASE m.last
      <4>1. boot' = [boot EXCEPT !.reading = FALSE, !.got = <<>>, !.runs = got]
        BY <2>1, <3>2
      <4> QED BY <2>2, <3>1, <3>2, <4>1 DEF Bootloader
    <3>3. CASE ~m.last
      <4>1. boot' = [boot EXCEPT !.ofs = boot.ofs + 1, !.tid = NextTid, !.got = got]
        BY <2>1, <3>3
      <4> QED BY <1>4, <2>2, <2>3, <3>1, <3>3, <4>1 DEF Bootloader
    <3> QED BY <3>2, <3>3
  <2>6. UpdateType'
    BY <1>1, <1>2, <2>1, <2>4, <2>5 DEF UpdateType, Grown
  <2>7. ASSUME Followed PROVE FileInv'
    <3>1. /\ BeginsFirst /\ TrueChunks /\ LatestRead
          /\ boot.ofs <= update.image.full /\ boot.got = FirstChunks(update.image, boot.ofs)
          /\ update.status = "completed" =>
               boot.runs = Whole(update.image) \/ (boot.reading /\ boot.ofs = update.image.full)
      BY <1>4, <2>7 DEF FileInv
    <3>2. /\ m.at = boot.ofs /\ Len(ask) = 1
          /\ \A j \in DOMAIN reply : reply[j].kind # "fileRead"
      BY <1>1, <1>2, <1>4, <3>1 DEF LatestRead
    <3>3. /\ m.image = update.image.name /\ (m.last <=> ~(boot.ofs < update.image.full))
          /\ m.empty <=> boot.ofs >= update.image.full + update.image.tail
      <4>1. /\ m.image = update.image.name /\ (m.last = ~FullAt(update.image, boot.ofs))
            /\ m.empty = EmptyAt(update.image, boot.ofs)
        BY <1>1, <1>2, <3>1, <3>2 DEF TrueChunks
      <4>2. /\ FullAt(update.image, boot.ofs) <=> boot.ofs < update.image.full
            /\ EmptyAt(update.image, boot.ofs) <=> boot.ofs >= update.image.full + update.image.tail
        BY DEF FullAt, EmptyAt, Size
      <4> QED BY <4>1, <4>2
    <3>4. /\ update.image.full \in Nat /\ update.image.tail \in 0..1
          /\ update.status # "starting"
      BY <1>1, <1>2, <2>7, <3>1, ImagesAssumption DEF UpdateType, Followed, BeginsFirst
    <3>5. DOMAIN ask' = {}
      BY <1>1, <3>2
    <3>6. BeginsFirst' /\ TrueChunks'
      BY <3>4, <3>5 DEF BeginsFirst, TrueChunks
    <3>7. CASE m.last
      <4>1. boot.ofs = update.image.full
        <5>1. ~(boot.ofs < update.image.full)
          BY <3>3, <3>7
        <5> QED BY <2>3, <3>1, <3>4, <5>1
      <4>2. got = Whole(update.image)
        <5>1. CASE update.image.tail = 0
          <6>1. m.empty
            BY <3>3, <3>4, <4>1, <5>1
          <6> QED BY <3>1, <3>4, <4>1, <5>1, <6>1 DEF got, FirstChunks, Whole, Size
        <5>2. CASE update.image.tail = 1
          <6>1. ~m.empty
            BY <3>3, <3>4, <4>1, <5>2
          <6>2. got = FirstChunks(update.image, boot.ofs + 1)
            BY <2>3, <3>1, <3>2, <3>3, <6>1, OneMoreChunk DEF got
          <6> QED BY <3>4, <4>1, <5>2, <6>2 DEF FirstChunks, Whole, Size
        <5> QED BY <3>4, <5>1, <5>2
      <4>3. LatestRead'
        BY <2>1, <3>2, <3>5, <3>7 DEF LatestRead
      <4> QED BY <2>5, <3>6, <3>7, <4>2, <4>3 DEF FileInv
    <3>8. CASE ~m.last
      <4>1. boot.ofs < update.image.full
        BY <3>3, <3>8
      <4>2. got = FirstChunks(update.image, boot.ofs + 1)
        <5>1. ~m.empty
          <6> DEFINE full == update.image.full
                     tail == update.image.tail
          <6>1. full \in Nat /\ tail \in 0..1 /\ boot.ofs < full /\ boot.ofs \in Nat
            BY <2>3, <3>4, <4>1
          <6> HIDE DEF full, tail
          <6>2. ~(boot.ofs >= full + tail)
            BY <6>1
          <6> QED BY <3>3, <6>2 DEF full, tail
        <5> QED BY <2>3, <3>1, <3>2, <3>3, <5>1, OneMoreChunk DEF got
      <4>3. LatestRead'
        <5> DEFINE r == NodeReads(boot.ofs + 1, NextTid)
        <5>1. r.at = boot.ofs + 1
          BY DEF NodeReads
        <5> HIDE DEF r
        <5>2. Grown(ReplyMsg, reply, r, reply')
          BY <2>4, <3>8 DEF r
        <5>3. ASSUME NEW i \in DOMAIN reply', reply'[i].kind = "fileRead"
              PROVE  i = Len(reply) + 1 /\ reply'[i] = r
          <6>1. i \in 1..Len(reply') /\ Len(reply) \in Nat /\ Len(reply') \in Nat
                /\ Len(reply') <= Len(reply) + 1
            BY <5>2 DEF Grown
          <6>2. i \in 1..Len(reply) \/ (i = Len(reply) + 1 /\ ~(i <= Len(reply)))
            BY <6>1
          <6>3. ~(i \in 1..Len(reply))
            BY <3>2, <5>2, <5>3, <6>1 DEF Grown
          <6> QED BY <5>2, <6>1, <6>2, <6>3 DEF Grown
        <5>4. Len(reply) \in Nat
          BY <5>2 DEF Grown
        <5>5. ASSUME NEW i \in DOMAIN reply', reply'[i].kind = "fileRead"
              PROVE  /\ reply'[i].at = boot.ofs + 1
                     /\ \A j \in DOMAIN reply' : j > i => reply'[j].kind # "fileRead"
          BY <5>1, <5>3, <5>4, <5>5
        <5> QED BY <2>3, <2>5, <3>5, <3>8, <5>5 DEF LatestRead
      <4>4. boot'.ofs <= update.image.full
        BY <2>3, <2>5, <3>4, <3>8, <4>1
      <4>5. update.status = "completed" => boot'.runs = Whole(update.image)
        BY <2>3, <2>5, <3>1, <3>4, <3>8, <4>1
      <4> QED BY <2>5, <3>6, <3>8, <4>2, <4>3, <4>4, <4>5 DEF FileInv
    <3> QED BY <3>7, <3>8
  <2>8. Followed' = Followed
    BY DEF Followed
  <2> QED BY <2>6, <2>7, <2>8 DEF FileInv
<1> QED BY <1>3, <1>4

\* The node begins to read.
LEMMA FileBegun ==
  ASSUME UpdateType, FileInv, ~TidReused, ask # <<>>, ask' = Tail(ask), Head(ask).kind = "begin",
         boot' = [boot EXCEPT !.reading = TRUE, !.ofs = 0, !.tid = NextTid, !.got = <<>>],
         reply' = Fitting(reply, <<[kind |-> "begun", ok |-> TRUE], NodeReads(0, NextTid)>>),
         UNCHANGED update
  PROVE  UpdateType' /\ FileInv'
<1> DEFINE r == NodeReads(0, NextTid)
           b == [kind |-> "begun", ok |-> TRUE]
<1>1. /\ ask' \in Seq(AskMsg) /\ 1 \in DOMAIN ask /\ Head(ask) = ask[1]
      /\ \A i \in DOMAIN ask' : i \in Int /\ i + 1 \in DOMAIN ask /\ ask'[i] = ask[i + 1]
  BY AskTaken, Zenon
<1>2. /\ boot' \in Bootloader /\ boot'.reading /\ boot'.ofs = 0 /\ boot'.tid = NextTid
      /\ boot'.got = <<>> /\ boot'.runs = boot.runs
  <2>1. boot \in Bootloader /\ <<>> \in Received /\ NextTid \in Nat
    BY NextTidType DEF UpdateType, Received
  <2> QED BY <2>1 DEF Bootloader
<1>3. r \in ReplyMsg /\ b \in ReplyMsg /\ r.at = 0 /\ b.kind = "begun" /\ reply \in Seq(ReplyMsg)
  BY NextTidType DEF NodeReads, ReplyMsg, UpdateType
<1> HIDE DEF r, b
<1>4. GrownTwice(ReplyMsg, reply, b, r, reply')
  BY <1>3, FittingTwo DEF r, b
<1>5. UpdateType'
  BY <1>1, <1>2, <1>4 DEF UpdateType, GrownTwice
<1>6. ASSUME Followed PROVE FileInv'
  <2>1. /\ BeginsFirst /\ TrueChunks /\ LatestRead /\ (boot.reading => boot.ofs = 0)
        /\ boot.reading => /\ boot.ofs <= update.image.full
                           /\ boot.got = FirstChunks(update.image, boot.ofs)
        /\ update.status = "completed" =>
             boot.runs = Whole(update.image) \/ (boot.reading /\ boot.ofs = update.image.full)
    BY <1>1, <1>6 DEF FileInv, BeginsFirst
  <2>2. /\ \A i \in DOMAIN reply : reply[i].kind = "fileRead" => reply[i].tid # boot'.tid
        /\ \A i \in DOMAIN ask' : ask'[i].kind = "chunk" => ask'[i].tid # boot'.tid
    BY <1>2, NewTid
  <2>3. BeginsFirst'
    <3>1. ASSUME NEW i \in DOMAIN ask', NEW j \in DOMAIN ask', i < j, ask'[j].kind = "begin"
          PROVE  ask'[i].kind = "begin"
      <4>1. /\ i + 1 \in DOMAIN ask /\ j + 1 \in DOMAIN ask /\ i + 1 < j + 1
            /\ ask'[i] = ask[i + 1] /\ ask'[j] = ask[j + 1]
        BY <1>1, <3>1
      <4> QED BY <2>1, <3>1, <4>1 DEF BeginsFirst
    <3> QED BY <1>1, <1>2, <2>1, <3>1 DEF BeginsFirst
  <2>4. TrueChunks'
    BY <1>1, <2>1 DEF TrueChunks
  <2>5. LatestRead'
    <3>1. ASSUME NEW i \in DOMAIN reply', reply'[i].kind = "fileRead"
          PROVE  \/ i \in DOMAIN reply /\ reply'[i] = reply[i]
                 \/ i = Len(reply) + 2 /\ reply'[i] = r
      <4>1. i \in 1..Len(reply') /\ Len(reply) \in Nat /\ Len(reply') \in Nat
            /\ Len(reply') <= Len(reply) + 2 /\ DOMAIN reply = 1..Len(reply)
        BY <1>4 DEF GrownTwice
      <4>2. \/ i \in 1..Len(reply)
            \/ i = Len(reply) + 1 /\ ~(i <= Len(reply))
            \/ i = Len(reply) + 2 /\ ~(i <= Len(reply)) /\ i # Len(reply) + 1
        BY <4>1
      <4>3. reply'[i] = IF i <= Len(reply) THEN reply[i] ELSE IF i = Len(reply) + 1 THEN b ELSE r
        BY <1>4, <4>1 DEF GrownTwice
      <4>4. i \in 1..Len(reply) => i <= Len(reply)
        BY <4>1
      <4> QED BY <1>3, <3>1, <4>1, <4>2, <4>3, <4>4
    <3>2. ASSUME NEW i \in DOMAIN reply', reply'[i].kind = "fileRead"
          PROVE  /\ reply'[i].at <= boot'.ofs
                 /\ reply'[i].tid = boot'.tid =>
                      /\ reply'[i].at = boot'.ofs
                      /\ \A j \in DOMAIN reply' : j > i => reply'[j].kind # "fileRead"
      <4>1. CASE i \in DOMAIN reply /\ reply'[i] = reply[i]
        BY <1>2, <2>1, <2>2, <3>2, <4>1 DEF LatestRead
      <4>2. CASE i = Len(reply) + 2 /\ reply'[i] = r
        <5>1. \A j \in DOMAIN reply' : ~(j > i)
          <6>1. /\ DOMAIN reply' = 1..Len(reply') /\ Len(reply) \in Nat /\ Len(reply') \in Nat
                /\ Len(reply') <= Len(reply) + 2
            BY <1>4 DEF GrownTwice
          <6> QED BY <4>2, <6>1
        <5>2. reply'[i].at = 0 /\ boot'.ofs = 0 /\ 0 <= 0
          BY <1>2, <1>3, <4>2
        <5> QED BY <5>1, <5>2, Zenon
      <4> QED BY <3>1, <3>2, <4>1, <4>2
    <3> QED BY <1>2, <2>2, <3>2 DEF LatestRead
  <2>6. boot'.got = FirstChunks(update.image, boot'.ofs) /\ boot'.ofs <= update.image.full
    <3>1. update.image.full \in Nat
      BY <1>6, ImagesAssumption DEF UpdateType, Followed
    <3> QED BY <1>2, <3>1 DEF FirstChunks
  <2>7. update.status = "completed" =>
          boot'.runs = Whole(update.image) \/ (boot'.reading /\ boot'.ofs = update.image.full)
    BY <1>2, <2>1
  <2> QED BY <1>2, <2>3, <2>4, <2>5, <2>6, <2>7 DEF FileInv
<1> QED BY <1>5, <1>6 DEF FileInv, Followed

\* One more message from the node that is not a read.
LEMMA FileRefused ==
  ASSUME UpdateType, FileInv, ask # <<>>, ask' = Tail(ask),
         reply' = Fitting(reply, <<[kind |-> "begun", ok |-> FALSE]>>), UNCHANGED <<update, boot>>
  PROVE  UpdateType' /\ FileInv'
<1> DEFINE b == [kind |-> "begun", ok |-> FALSE]
<1>1. /\ ask' \in Seq(AskMsg) /\ Len(ask) \in Nat /\ Len(ask') = Len(ask) - 1
      /\ \A i \in DOMAIN ask' : i \in Int /\ i + 1 \in DOMAIN ask /\ ask'[i] = ask[i + 1]
  BY AskTaken, HeadTailProperties, LenProperties DEF UpdateType
<1>2. b \in ReplyMsg /\ b.kind = "begun" /\ reply \in Seq(ReplyMsg)
  BY DEF ReplyMsg, UpdateType
<1> HIDE DEF b
<1>3. Grown(ReplyMsg, reply, b, reply')
  BY <1>2, FittingOne DEF b
<1>4. UpdateType'
  BY <1>1, <1>3 DEF UpdateType, Grown
<1>5. ASSUME NEW i \in DOMAIN reply', reply'[i].kind = "fileRead"
      PROVE  i \in DOMAIN reply /\ reply'[i] = reply[i] /\ i \in Int
  <2>1. i \in 1..Len(reply') /\ Len(reply) \in Nat /\ Len(reply') \in Nat
        /\ Len(reply') <= Len(reply) + 1 /\ DOMAIN reply = 1..Len(reply)
    BY <1>3 DEF Grown
  <2>2. reply'[i] = IF i <= Len(reply) THEN reply[i] ELSE b
    BY <1>3, <2>1 DEF Grown
  <2>3. i <= Len(reply) => i \in 1..Len(reply)
    BY <2>1
  <2> QED BY <1>2, <1>5, <2>1, <2>2, <2>3
<1>6. ASSUME Followed PROVE BeginsFirst' /\ TrueChunks' /\ LatestRead'
  <2>1. BeginsFirst /\ TrueChunks /\ LatestRead
    BY <1>6 DEF FileInv
  <2>2. BeginsFirst'
    <3>1. ASSUME NEW i \in DOMAIN ask', NEW j \in DOMAIN ask', i < j, ask'[j].kind = "begin"
          PROVE  ask'[i].kind = "begin"
      <4>1. /\ i + 1 \in DOMAIN ask /\ j + 1 \in DOMAIN ask /\ i + 1 < j + 1
            /\ ask'[i] = ask[i + 1] /\ ask'[j] = ask[j + 1]
        BY <1>1, <3>1
      <4> QED BY <2>1, <3>1, <4>1 DEF BeginsFirst
    <3> QED BY <1>1, <2>1, <3>1 DEF BeginsFirst
  <2>3. TrueChunks'
    BY <1>1, <2>1 DEF TrueChunks
  <2>4. LatestRead'
    <3>1. ASSUME NEW i \in DOMAIN ask', ask'[i].kind = "chunk"
          PROVE  /\ boot.reading
                 /\ ask'[i].tid = boot.tid =>
                      /\ ask'[i].at = boot.ofs /\ i = Len(ask')
                      /\ \A j \in DOMAIN reply' : reply'[j].kind # "fileRead"
      <4>1. i \in Int /\ i + 1 \in DOMAIN ask /\ ask'[i] = ask[i + 1]
        BY <1>1
      <4>2. i + 1 = Len(ask) => i = Len(ask')
        BY <1>1, <4>1
      <4> QED BY <1>5, <2>1, <3>1, <4>1, <4>2 DEF LatestRead
    <3> QED BY <1>5, <2>1, <3>1 DEF LatestRead
  <2> QED BY <2>2, <2>3, <2>4
<1> QED BY <1>4, <1>6 DEF FileInv, Followed

\* The node reads the same chunk again, under a transfer ID that nothing has.
LEMMA FileReadAgain ==
  ASSUME UpdateType, FileInv, ReadsAgain, ~TidReused
  PROVE  UpdateType' /\ FileInv'
<1> DEFINE r == NodeReads(boot.ofs, NextTid)
<1>1. /\ boot.reading /\ boot' = [boot EXCEPT !.tid = NextTid] /\ UNCHANGED <<update, ask>>
      /\ reply' = Fitting(reply, <<r>>)
  BY DEF ReadsAgain
<1>2. /\ boot' \in Bootloader /\ boot'.reading /\ boot'.ofs = boot.ofs /\ boot.ofs \in Nat
      /\ boot'.tid = NextTid /\ boot'.got = boot.got /\ boot'.runs = boot.runs
  <2>1. boot \in Bootloader /\ NextTid \in Nat
    BY NextTidType DEF UpdateType
  <2> QED BY <1>1, <2>1 DEF Bootloader
<1>3. r \in ReplyMsg /\ r.at = boot.ofs /\ reply \in Seq(ReplyMsg)
  BY <1>2, NextTidType DEF NodeReads, ReplyMsg, UpdateType
<1> HIDE DEF r
<1>4. Grown(ReplyMsg, reply, r, reply')
  BY <1>1, <1>3, FittingOne
<1>5. UpdateType'
  BY <1>1, <1>2, <1>4 DEF UpdateType, Grown
<1>6. /\ \A i \in DOMAIN reply : reply[i].kind = "fileRead" => reply[i].tid # boot'.tid
      /\ \A i \in DOMAIN ask : ask[i].kind = "chunk" => ask[i].tid # boot'.tid
  BY <1>1, <1>2, NewTid
<1>7. ASSUME NEW i \in DOMAIN reply'
      PROVE  \/ i \in DOMAIN reply /\ reply'[i] = reply[i]
             \/ reply'[i] = r /\ \A j \in DOMAIN reply' : ~(j > i)
  <2>1. i \in 1..Len(reply') /\ Len(reply) \in Nat /\ Len(reply') \in Nat
        /\ Len(reply') <= Len(reply) + 1 /\ DOMAIN reply = 1..Len(reply)
        /\ DOMAIN reply' = 1..Len(reply')
    BY <1>4 DEF Grown
  <2>2. reply'[i] = IF i <= Len(reply) THEN reply[i] ELSE r
    BY <1>4, <2>1 DEF Grown
  <2>3. i <= Len(reply) => i \in 1..Len(reply)
    BY <2>1
  <2>4. ~(i <= Len(reply)) => \A j \in 1..Len(reply') : ~(j > i)
    BY <2>1
  <2> QED BY <2>1, <2>2, <2>3, <2>4
<1>8. ASSUME Followed PROVE FileInv'
  <2>1. BeginsFirst /\ TrueChunks /\ LatestRead
    BY <1>8 DEF FileInv
  <2>2. BeginsFirst' /\ TrueChunks'
    BY <1>1, <1>2, <2>1 DEF BeginsFirst, TrueChunks
  <2>3. LatestRead'
    <3>1. ASSUME NEW i \in DOMAIN reply', reply'[i].kind = "fileRead"
          PROVE  /\ reply'[i].at <= boot.ofs
                 /\ reply'[i].tid = boot'.tid =>
                      /\ reply'[i].at = boot.ofs
                      /\ \A j \in DOMAIN reply' : j > i => reply'[j].kind # "fileRead"
      <4>1. CASE i \in DOMAIN reply /\ reply'[i] = reply[i]
        BY <1>6, <2>1, <3>1, <4>1 DEF LatestRead
      <4>2. CASE reply'[i] = r /\ \A j \in DOMAIN reply' : ~(j > i)
        BY <1>2, <1>3, <4>2
      <4> QED BY <1>7, <4>1, <4>2
    <3> QED BY <1>1, <1>2, <1>6, <3>1 DEF LatestRead
  <2> QED BY <1>1, <1>2, <1>8, <2>2, <2>3 DEF FileInv
<1>9. Followed' = Followed
  BY <1>1 DEF Followed
<1> QED BY <1>5, <1>8, <1>9 DEF FileInv

LEMMA FileServed ==
  ASSUME UpdateType, FileInv, BootServes, ~TidReused
  PROVE  UpdateType' /\ FileInv'
<1>1. ask # <<>> /\ ask' = Tail(ask) /\ UNCHANGED update
  BY DEF BootServes
<1>2. CASE Head(ask).kind = "chunk" /\ OnChunk(Head(ask))
  BY <1>1, <1>2, FileChunkTaken
<1>3. CASE /\ Head(ask).kind = "begin"
           /\ boot' = [boot EXCEPT !.reading = TRUE, !.ofs = 0, !.tid = NextTid, !.got = <<>>]
           /\ reply' = Fitting(reply, <<[kind |-> "begun", ok |-> TRUE], NodeReads(0, NextTid)>>)
  BY <1>1, <1>3, FileBegun
<1>4. CASE reply' = Fitting(reply, <<[kind |-> "begun", ok |-> FALSE]>>) /\ UNCHANGED boot
  BY <1>1, <1>4, FileRefused
<1>5. CASE UNCHANGED <<boot, reply>>
  BY <1>1, <1>5, LineShrinks
<1> QED BY <1>2, <1>3, <1>4, <1>5 DEF BootServes

LEMMA FileNext ==
  ASSUME UpdateType, FileInv, [BusNext]_busVars, [~TidReused]_busVars
  PROVE  UpdateType' /\ FileInv'
<1>1. CASE UNCHANGED updating
  BY <1>1, LineShrinks DEF updating
<1>2. CASE Clearing /\ update' = NoUpdate /\ UNCHANGED <<boot, ask, reply>>
  BY <1>2, NotFollowed DEF NoUpdate
<1>3. CASE \E m \in Images : CallUpdate(m)
  BY <1>3, FileUpdateCalled
<1>4. CASE CallCancel
  <2>1. CASE InUpdate
    <3>1. update' = [update EXCEPT !.status = "error"] /\ update.status # "none"
      BY <1>4, <2>1 DEF CallCancel, InUpdate
    <3>2. update'.status = "error"
      BY <3>1 DEF UpdateType, Update
    <3> QED BY <1>4, <3>1, <3>2, NotFollowed DEF CallCancel
  <2>2. CASE ~InUpdate
    BY <1>4, <2>2, NotFollowed DEF CallCancel, NoUpdate
  <2> QED BY <2>1, <2>2
<1>5. CASE BeginAgain
  BY <1>5, FileBeginAgain
<1>6. CASE UpdateTimeout
  <2>1. update' = [update EXCEPT !.status = "error"] /\ update.status # "none"
    BY <1>6 DEF UpdateTimeout, InUpdate
  <2>2. update'.status = "error"
    BY <2>1 DEF UpdateType, Update
  <2> QED BY <1>6, <2>1, <2>2, NotFollowed DEF UpdateTimeout
<1>7. CASE FileReceive
  BY <1>7, FileReceived
<1>8. CASE BootServes /\ ~TidReused
  BY <1>8, FileServed
<1>9. CASE ReadsAgain /\ ~TidReused
  BY <1>9, FileReadAgain
<1>10. CASE PowerCycle
  <2>1. /\ boot' = [boot EXCEPT !.reading = FALSE, !.got = <<>>] /\ UNCHANGED <<update, ask, reply>>
        /\ update.status \in {"none", "error"}
    BY <1>10 DEF PowerCycle
  <2>2. boot' \in Bootloader
    <3>1. boot \in Bootloader /\ <<>> \in Received
      BY DEF UpdateType, Received
    <3> QED BY <2>1, <3>1 DEF Bootloader
  <2> QED BY <2>1, <2>2 DEF UpdateType, FileInv, Followed
<1>11. CASE FileLose
  <2>1. /\ UNCHANGED <<update, boot>>
        /\ ask' = ask \/ (ask # <<>> /\ ask' = Tail(ask))
        /\ reply' = reply \/ (reply # <<>> /\ reply' = Tail(reply))
    BY <1>11 DEF FileLose
  <2> QED BY <2>1, LineShrinks
<1>12. CASE UNCHANGED busVars
  BY <1>1, <1>12 DEF busVars
<1> QED BY <1>1, <1>2, <1>3, <1>4, <1>5, <1>6, <1>7, <1>8, <1>9, <1>10, <1>11, <1>12 DEF BusNext

------------------------------------------------------------------------------
\* What the service keeps of a node, the node, and what is under way between the
\* two, have their types, for every list of parameters, batch and bound.
THEOREM TypeCorrect == BusSpec => [](Shape /\ JobShape)
<1>1. BusInv /\ SavedInv => Shape /\ JobShape
  BY DEF BusInv, SavedInv
<1> QED BY <1>1, JobInductive, PTL

\* No Apply & Save is left with its writes acknowledged and no SAVE to come
\* (handleGetSetResponse, tick), for every batch, loss and give-up.
THEOREM SaveAwaitsWritesAlways == BusSpec => []SaveAwaitsWrites
<1>1. BusInv => SaveAwaitsWrites
  BY DEF BusInv
<1> QED BY <1>1, Inductive, PTL

\* A walk that ends without an error has shown every parameter of the node
\* (handleGetSetResponse), for every list of parameters and however many requests
\* and answers were lost or repeated.
THEOREM CompleteWalkIsWholeAlways == BusSpec => []CompleteWalkIsWhole
<1>1. BusInv => CompleteWalkIsWhole
  BY DEF BusInv, WalkInv, CompleteWalkIsWhole
<1> QED BY <1>1, Inductive, PTL

\* What an undisturbed Apply & Save reports as saved is in the flash of the node
\* (applyAndSave, handleExecuteOpcodeResponse), for every batch, loss and retry.
THEOREM SavedBatchInFlashAlways == BusSpec => []SavedBatchInFlash
<1>1. BusInv /\ SavedInv => SavedBatchInFlash
  <2> SUFFICES ASSUME SavedInv, job.alone, job.saved, NEW w \in job.writes
               PROVE  node.flash[w.name] = w.value
    BY DEF SavedBatchInFlash
  <2>1. JobOver
    BY DEF SavedInv, JobInv, JobWriting, JobSaving
  <2> QED BY <2>1 DEF JobOver, Holds
<1> QED BY <1>1, JobInductive, PTL

\* An update is reported as completed only when the node starts the whole image, or has
\* it but for the answer under way (handleFileReadRequest), for images of any size and
\* whatever is lost, late, refused, repeated or cancelled, as long as no transfer ID
\* comes round again while a message that has it is under way.
THEOREM CompletedIsWholeUnlessReused ==
  BusSpec /\ [][~TidReused]_busVars => []CompletedIsWhole
<1>1. UpdateType /\ FileInv /\ [BusNext]_busVars /\ [~TidReused]_busVars
        => (UpdateType /\ FileInv)'
  BY FileNext
<1>2. UpdateType /\ FileInv => CompletedIsWhole
  <2> SUFFICES ASSUME UpdateType, FileInv, update.status = "completed", update.first,
                      ~(boot.runs = Whole(update.image))
               PROVE  boot.reading /\ Len(boot.got) + 1 >= Size(update.image)
    BY DEF CompletedIsWhole
  <2>1. /\ boot.reading /\ boot.ofs = update.image.full
        /\ boot.got = FirstChunks(update.image, boot.ofs)
    BY DEF FileInv, Followed
  <2>2. update.image.full \in Nat /\ update.image.tail \in 0..1
    BY ImagesAssumption DEF UpdateType
  <2>3. Len(boot.got) = update.image.full
    BY <2>1, <2>2 DEF FirstChunks
  <2> QED BY <2>1, <2>2, <2>3 DEF Size
<1> QED BY <1>1, <1>2, FileInit, PTL DEF BusSpec
================================================================================
