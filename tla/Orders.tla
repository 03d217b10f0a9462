-------------------------------- MODULE Orders --------------------------------
(***************************************************************************)
(* OrderController, OrderService and OrderRepository: orders as the API    *)
(* takes them from its clients, and their way through the pipeline.        *)
(***************************************************************************)
EXTENDS Integers, Sequences

CONSTANTS
  ApiRequests,   \* order requests of clients other than the checkout page
  MaxOrders      \* bound: orders

ASSUME OrderAssumption == MaxOrders \in Nat

VARIABLE orders   \* order records in creation order

OrderStatus ==
  {"draft", "placed", "confirmed", "preparing", "ready", "completed", "cancelled"}

(* Mutant: preparation may be skipped.                                     *)
OrderTransitions_Skip ==
  [draft |-> {"placed"}, placed |-> {"confirmed", "cancelled"},
   confirmed |-> {"preparing", "ready", "cancelled"}, preparing |-> {"ready", "cancelled"},
   ready |-> {"completed"}, completed |-> {}, cancelled |-> {}]

OrderTransitions ==
  [draft     |-> {"placed"},
   placed    |-> {"confirmed", "cancelled"},
   confirmed |-> {"preparing", "cancelled"},
   preparing |-> {"ready", "cancelled"},
   ready     |-> {"completed"},
   completed |-> {},
   cancelled |-> {}]

OrderCancellable == {"placed", "confirmed", "preparing"}

OrderInit == orders = << >>

(* assertValidPlaceOrderRequest: a session, and contact details that are
   strings or not there at all; null is neither.                           *)
ValidPlaceOrderRequest(r) == r.session /\ r.email # "null"

(* The order keeps the amounts of the request; stamps are the statuses whose
   time it has recorded.                                                   *)
CreateOrderFromCart(r) ==
  /\ Len(orders) < MaxOrders
  /\ ValidPlaceOrderRequest(r)
  /\ r.items # << >>
  /\ r.total >= 0
  /\ orders' = Append(orders, [status |-> "placed", stamps |-> {"placed"},
                               items |-> r.items, total |-> r.total])

(* Mutant: an order that is ready can be cancelled.                        *)
TransitionOrderStatus_CancelWhenReady(o, target) ==
  /\ \/ target \in OrderTransitions[orders[o].status]
     \/ target = "cancelled" /\ orders[o].status = "ready"
  /\ orders' = [orders EXCEPT ![o].status = target, ![o].stamps = @ \cup {target}]

(* transitionOrderStatus and cancelOrder                                   *)
TransitionOrderStatus(o, target) ==
  /\ target \in OrderTransitions[orders[o].status]
  /\ target = "cancelled" => orders[o].status \in OrderCancellable
  /\ orders' = [orders EXCEPT ![o].status = target, ![o].stamps = @ \cup {target}]

OrderNext ==
  \/ \E r \in ApiRequests : CreateOrderFromCart(r)
  \/ \E o \in DOMAIN orders, target \in OrderStatus : TransitionOrderStatus(o, target)

OrderSpec == OrderInit /\ [][OrderNext]_orders

-----------------------------------------------------------------------------
(* Properties.                                                             *)

Order == [status: OrderStatus, stamps: SUBSET OrderStatus,
          items: {r.items : r \in ApiRequests}, total: {r.total : r \in ApiRequests}]

OrderTypeOK == orders \in Seq(Order)

Pipeline == <<"placed", "confirmed", "preparing", "ready", "completed">>

(* "Cancellation is allowed from placed, confirmed, and preparing only": the
   times an order has recorded are those of the first steps of the pipeline,
   the last of them its status, and of a cancellation that came before it was
   ready, after which nothing else is recorded.                            *)
OrdersFollowPipeline ==
  \A o \in DOMAIN orders :
    \E n \in DOMAIN Pipeline :
      LET passed == {Pipeline[k] : k \in 1..n}
      IN  \/ orders[o].status = Pipeline[n] /\ orders[o].stamps = passed
          \/ /\ orders[o].status = "cancelled" /\ n <= 3
             /\ orders[o].stamps = passed \cup {"cancelled"}
=============================================================================
