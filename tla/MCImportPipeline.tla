--------------------------- MODULE MCImportPipeline ---------------------------
(***************************************************************************)
(* An instance of ImportPipeline: a file of two rows with the same name,   *)
(* the first of them with a phone number, the second with a Zalo id, and   *)
(* another column of phone numbers, in which the first row has something   *)
(* malformed and the second has the number of the first.                   *)
(***************************************************************************)
EXTENDS ImportPipeline, TLC

CONSTANTS k1, k2

FourColumns == <<"displayName", "phone", "platformUserId", "phone">>

TwoRows ==
    <<<<"An", "0901234567", "", "unknown">>,
      <<"An", "", "z1", "+84 901234567">>>>

OneNumber == [text \in {"0901234567", "+84 901234567"} |-> "+84901234567"]

(* As uploaded both rows are valid, each with a key of its own; with the   *)
(* other column of numbers the first is invalid and the second has both    *)
(* keys; the last mapping is refused.                                      *)
UserMappings ==
    {<<"displayName", "IGNORE", "platformUserId", "phone">>,
     <<"IGNORE", "phone", "platformUserId", "IGNORE">>}

TheId == {<<"zalo", "z1">>}

MapAndCommit == [k \in Calls |-> {"map", "commit", "cancel"}]

Symmetry == Permutations(Calls)

=============================================================================
