--------------------------- MODULE MCNotification ----------------------------
(* A small instance of Notification for TLC: two facts for one member, a   *)
(* third one that deactivates the account, and one without a notification. *)
EXTENDS Notification

CONSTANTS deliver1, deliver2, deactivate, other

MCFact == {deliver1, deliver2, deactivate, other}
MCPlan == [f \in MCFact |-> CASE f = deactivate -> "SUPPRESS"
                              [] f = other      -> "IGNORE"
                              [] OTHER          -> "DELIVER"]
MCRecipient == [f \in MCFact |-> CHOOSE a \in Account : TRUE]
=============================================================================
