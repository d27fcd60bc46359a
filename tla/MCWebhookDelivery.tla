------------------------- MODULE MCWebhookDelivery -------------------------
(* A finite instance of WebhookDelivery: deliveries of two tenants, one     *)
(* background worker, one manual run and two replays by the first tenant.    *)
EXTENDS WebhookDelivery, TLC

CONSTANTS d1, d2, background, manual, o1, o2

MCScope == (background :> {d1, d2}) @@ (manual :> {d1})
           @@ (o1 :> {d1}) @@ (o2 :> {d1})
=============================================================================
