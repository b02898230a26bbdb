-------------------------- MODULE MCOutboundDelivery --------------------------
(***************************************************************************)
(* Instances of OutboundDelivery: one message under every intervention, or *)
(* two messages to the same contact competing for the daily quota.         *)
(***************************************************************************)
EXTENDS OutboundDelivery, TLC

CONSTANTS m1, m2, c1

OneMessage    == {m1}
TwoMessages   == {m1, m2}
SharedContact == [m \in Messages |-> c1]

QuotaSymmetry == Permutations(Requests) \cup Permutations(Messages)

=============================================================================
