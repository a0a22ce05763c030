------------------------- MODULE MCWebhookIngestion -------------------------
(***************************************************************************)
(* Model-checking instance of WebhookIngestion.  Webhook handlers, and     *)
(* poll runs, are interchangeable among themselves.                        *)
(***************************************************************************)
EXTENDS WebhookIngestion, TLC

WorkerSymmetry == Permutations(Handlers) \cup Permutations(Pollers)

=============================================================================
