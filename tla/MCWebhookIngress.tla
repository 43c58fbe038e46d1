-------------------------- MODULE MCWebhookIngress --------------------------
(* A pull request event posted twice, an installation of two repositories      *)
(* posted twice beside it, and a forged post.                                  *)
EXTENDS WebhookIngress

CONSTANTS pr, inst, r1, r2, r3, r4, r5

MCWork == [d \in Deliveries |-> IF d = pr THEN <<"review">>
                                        ELSE <<"ingest", "ingest">>]

\* r5 has no valid signature.
MCCarries == [r \in Requests |-> IF r \in {r3, r4} THEN inst ELSE pr]
=============================================================================
