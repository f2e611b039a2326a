----------------------------- MODULE MCWebhookDlq -----------------------------
(* Instances of WebhookDlq for TLC. *)
EXTENDS WebhookDlq

MCSymmetry == Permutations(Deliveries) \cup Permutations(Slots)
=============================================================================
