----------------------- MODULE MCPaymentTransactions -----------------------
(* Finite instances of PaymentTransactions. *)
EXTENDS PaymentTransactionsProps, TLC

(* Callers of capturePayment may ask for nothing, for less than nothing and
   for more or less than was authorized.                                   *)
MCCaptures == {-1, 0, 1, 2}

Symmetry == Permutations(Refs) \cup Permutations(Calls) \cup Permutations(RefundKeys)
=============================================================================
