--------------------------- MODULE MCOrderPayments ----------------------------
(***************************************************************************)
(* Finite instances of the payment service called directly, by anybody in  *)
(* any order, and called for orders.                                       *)
(***************************************************************************)
EXTENDS OrderPayments, TLC

VARIABLE client   \* who calls the payment service in this behaviour

mcVars == <<client, vars, orders>>

MCInit == OrderPaymentInit /\ client \in {"anybody", "orders"}

MCNext ==
  /\ UNCHANGED client
  /\ \/ client = "anybody" /\ Next /\ UNCHANGED orders
     \/ client = "orders" /\ OrderPaymentNext

MCSpec == MCInit /\ [][MCNext]_mcVars

MCOrderRequests ==
  {[session |-> TRUE, email |-> "given", items |-> <<"soup">>, total |-> 1]}

Symmetry == Permutations(Calls) \cup Permutations(RefundKeys)
=============================================================================
