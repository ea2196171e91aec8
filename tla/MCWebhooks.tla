----------------------------- MODULE MCWebhooks -----------------------------
(***************************************************************************)
(* WebhookDelivery for TLC: one delivery, two automatic attempts, one      *)
(* manual one and one crash.                                               *)
(***************************************************************************)
EXTENDS WebhookDelivery
=============================================================================
