-------------------------- MODULE ExclusiveSession --------------------------
(***************************************************************************)
(* What MavftpService promises its callers: every request of the client    *)
(* names session 0, which the vehicle has only one of, so operations have  *)
(* the session one at a time, in the order they were asked for.  A caller  *)
(* may be refused while it waits; one that holds the session keeps it      *)
(* until it is done.                                                       *)
(***************************************************************************)
EXTENDS Naturals

CONSTANT MaxCalls       \* bound: operations asked for in one behaviour

VARIABLE state          \* how far each operation has come

Calls == 1..MaxCalls
States == {"unasked", "waiting", "running", "done", "refused"}

Init == state = [c \in Calls |-> "unasked"]

Ended(c) == state[c] \in {"done", "refused"}

Moves(c, from, to) ==
  /\ state[c] = from
  /\ state' = [state EXCEPT ![c] = to]

Ask(c) ==
  /\ \A d \in Calls : d < c => state[d] # "unasked"
  /\ Moves(c, "unasked", "waiting")

Enter(c) ==
  /\ \A d \in Calls : d < c => Ended(d)
  /\ Moves(c, "waiting", "running")

Leave(c) == Moves(c, "running", "done")
Refuse(c) == Moves(c, "waiting", "refused")

Next == \E c \in Calls : Ask(c) \/ Enter(c) \/ Leave(c) \/ Refuse(c)

Spec == Init /\ [][Next]_state
=============================================================================
