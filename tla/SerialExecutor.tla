--------------------------- MODULE SerialExecutor ---------------------------
(***************************************************************************)
(* What a MuiProcessor promises to its users: the operations submitted are *)
(* executed one at a time in the order of submission, and each result is   *)
(* delivered exactly once, in that order.                                  *)
(***************************************************************************)
EXTENDS Naturals, Sequences

CONSTANT Operations

VARIABLES submitted, executed, delivered

vars == <<submitted, executed, delivered>>

Init == submitted = <<>> /\ executed = <<>> /\ delivered = <<>>

Submit(o) ==
  /\ \A i \in DOMAIN submitted : submitted[i] # o
  /\ submitted' = Append(submitted, o)
  /\ UNCHANGED <<executed, delivered>>

Execute ==
  /\ Len(executed) < Len(submitted)
  /\ executed' = Append(executed, submitted[Len(executed) + 1])
  /\ UNCHANGED <<submitted, delivered>>

Deliver ==
  /\ Len(delivered) < Len(executed)
  /\ delivered' = Append(delivered, executed[Len(delivered) + 1])
  /\ UNCHANGED <<submitted, executed>>

Next == (\E o \in Operations : Submit(o)) \/ Execute \/ Deliver

Spec == Init /\ [][Next]_vars
=============================================================================
