---------------------------- MODULE MCWebhookIntake ----------------------------
(***************************************************************************)
(* Three events of one OA: a received message, the echo of a message that  *)
(* was sent and an opt-out.                                                *)
(***************************************************************************)
EXTENDS WebhookIntake

CONSTANTS text, echo, optout, k1, k2, k3

SomeEvents == {text, echo, optout}
Keyed == [e \in SomeEvents |-> CASE e = text -> k1 [] e = echo -> k2 [] OTHER -> k3]
Kinded == [e \in SomeEvents |-> CASE e = text -> "text" [] e = echo -> "echo" [] OTHER -> "optout"]

=============================================================================
