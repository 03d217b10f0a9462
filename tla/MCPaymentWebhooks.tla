------------------------- MODULE MCPaymentWebhooks -------------------------
(* Finite instances of PaymentWebhooks. *)
EXTENDS PaymentWebhooksProps, TLC

(* Amounts that callers of capturePayment ask for. *)
MCCaptures == {0, 2}

Symmetry == Permutations(EventIds) \cup Permutations(Calls)
=============================================================================
