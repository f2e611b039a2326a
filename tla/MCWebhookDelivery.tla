-------------------------- MODULE MCWebhookDelivery --------------------------
(* Instances of WebhookDelivery for TLC: every event concerns every webhook. *)
EXTENDS WebhookDelivery, TLC

MCSubscriptions == Events \X Webhooks

MCSymmetry == Permutations(Webhooks) \cup Permutations(Workers) \cup Permutations(Admins)
=============================================================================
