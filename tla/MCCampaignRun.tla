---------------------------- MODULE MCCampaignRun ----------------------------
(***************************************************************************)
(* Instances of CampaignRun: which calls are made and what goes wrong is   *)
(* chosen in each configuration.                                           *)
(***************************************************************************)
EXTENDS CampaignRun, TLC

CONSTANTS k1, k2, k3, k4,
          Unasked   \* the members of the audience that never consented

Consents == [c \in Contacts |-> IF c \in Unasked THEN "UNKNOWN" ELSE "OPTED_IN"]

StartAndStop == [k \in Calls |-> {"approve", "launch", "pause", "cancel"}]
StartTwice   == [k \in Calls |-> {"approve", "schedule", "launch"}]
Start        == [k \in Calls |-> {"approve", "launch"}]
EachOnce     == k1 :> {"approve"} @@ k2 :> {"launch"} @@ k3 :> {"pause"} @@ k4 :> {"resume"}

Symmetry == Permutations(Included) \cup Permutations(Calls)

=============================================================================
