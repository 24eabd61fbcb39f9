------------------------ MODULE MCWebhookOutbox ------------------------
(* Small instances of the webhook outbox for TLC. *)
EXTENDS WebhookOutbox

NoFaults  == {}
AllFaults == {"crash", "dberror"}

=============================================================================
