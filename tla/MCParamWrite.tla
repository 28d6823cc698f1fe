---------------------------- MODULE MCParamWrite -----------------------------
(***************************************************************************)
(* Instances of ParamWrite for TLC.  The board streams one renamed          *)
(* parameter under its legacy name (old1), one under its modern name (new2), *)
(* two that have one name, gain, which it clamps, and rate, and it answers   *)
(* to a third, extra, which its table does not list.                        *)
(***************************************************************************)
EXTENDS ParamWrite

MCParamId == {"old1", "new1", "old2", "new2", "gain", "rate", "extra"}
MCMirror == [old1 |-> "new1", new1 |-> "old1", old2 |-> "new2", new2 |-> "old2",
             gain |-> None, rate |-> None, extra |-> None]
MCModern == [old1 |-> "new1", new1 |-> None, old2 |-> "new2", new2 |-> None,
             gain |-> None, rate |-> None, extra |-> None]
MCStreamed == {"old1", "new2", "gain", "rate"}
MCAnswered == MCStreamed \cup {"extra"}
MCValue == 0..2
MCFirstStore == [p \in MCAnswered |-> 0]
MCSettles == [p \in MCAnswered |->
                [v \in MCValue |-> IF p = "gain" /\ v = 2 THEN 1 ELSE v]]

W(p, v) == [id |-> p, value |-> v]

\* A name written twice, both spellings of a renamed one, a clamped value,
\* a name without a known value.
MCBatch == {<<W("rate", 1), W("rate", 2), W("old1", 1)>>,
            <<W("extra", 1), W("gain", 2), W("old2", 1), W("new2", 2)>>}
MCSingle == {W("rate", 0)}

\* Two batches of different names.
TwoBatches == {<<W("rate", 1)>>, <<W("gain", 1), W("old1", 1)>>}
==============================================================================
