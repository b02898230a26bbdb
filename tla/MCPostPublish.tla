----------------------------- MODULE MCPostPublish -----------------------------
(***************************************************************************)
(* One request at a time of a manager, an operator or a member of the      *)
(* support staff, on an account that may publish and one that may not.     *)
(***************************************************************************)
EXTENDS PostPublish, TLC

CONSTANTS manager, operator, staff

People == manager :> "MANAGER" @@ operator :> "OPERATOR" @@ staff :> "none"

TwoAccounts ==
    {[platform |-> "FACEBOOK", granted |-> TRUE],
     [platform |-> "ZALO", granted |-> FALSE]}

=============================================================================
