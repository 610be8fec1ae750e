----------------------------- MODULE MCChatRoute -----------------------------
(* A TLC instance of ChatRoute: one key, of an organisation or of none, or *)
(* a demo key.                                                             *)
EXTENDS ChatRoute, TLC

CONSTANTS vk, org, today, tomorrow

OwnDemo == <<vk, 1>> :> today @@ <<vk, 2>> :> tomorrow

Ordinary == [rpm |-> 0, requests |-> 3, tokens |-> 1, embeddings |-> 1]
OnlyOrdinary == {Ordinary}
Demo == [rpm |-> 1, requests |-> 2, tokens |-> 1, embeddings |-> 0]
=============================================================================
