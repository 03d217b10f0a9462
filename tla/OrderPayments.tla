---------------------------- MODULE OrderPayments -----------------------------
(***************************************************************************)
(* OrderPaymentService: orders and their payments together.  The service   *)
(* looks at the payment only.  Nothing in the repository calls it; when it *)
(* is called is what its comments ask of the caller: at checkout, when an  *)
(* order is ready or completed, and when it is cancelled.                  *)
(* BookingPaymentService is the same over bookings.                        *)
(***************************************************************************)
EXTENDS Orders, PaymentTransactionsProps

ASSUME OrderPaymentAssumption == 1..MaxOrders \subseteq Refs

orderPaymentVars == <<vars, orders>>

Fulfilled == {"ready", "completed"}

(* getTransactionByReference: the first transaction of the order.          *)
IsTransactionOf(t, o) ==
  /\ txns[t].ref = o
  /\ \A u \in 1..(t - 1) : txns[u].ref # o

(* createOrderPaymentIntent: the order is the idempotency key.  A client may
   come late or come again, whatever became of the order.                  *)
CreateOrderPaymentIntent(c, o, a, tenant) == CreatePaymentIntent(c, o, a, tenant)

(* captureOrderPayment: the whole amount, unless it is authorized no more;
   the order is not looked at.                                             *)
CaptureOrderPayment(c, o) ==
  \E t \in DOMAIN txns :
    /\ IsTransactionOf(t, o)
    /\ txns[t].status = "authorized"
    /\ CapturePayment(c, t, txns[t].amount)

(* voidOrderPayment, which does not look at the order either.              *)
VoidOrderPayment(c, o) ==
  \E t \in DOMAIN txns :
    /\ IsTransactionOf(t, o)
    /\ txns[t].status = "authorized"
    /\ VoidPayment(c, t)

(* The caller the comments have in mind: it captures "when the order
   transitions to a fulfillment state" and voids "on cancellation before
   capture", soon after or at any later time, and as often as it likes.    *)
CallerCaptures(c, o) == orders[o].status \in Fulfilled /\ CaptureOrderPayment(c, o)

CallerVoids(c, o) == orders[o].status = "cancelled" /\ VoidOrderPayment(c, o)

OrderPaymentInit == Init /\ OrderInit

OrderPaymentNext ==
  \/ OrderNext /\ UNCHANGED vars
  \/ /\ UNCHANGED orders
     /\ \E c \in Calls :
          \/ \E o \in DOMAIN orders, a \in Amount, tenant \in TenantConfig :
               CreateOrderPaymentIntent(c, o, a, tenant)
          \/ \E o \in DOMAIN orders : CallerCaptures(c, o) \/ CallerVoids(c, o)
          \/ Accept(c) \/ Decline(c) \/ Resume(c)

(* The service and a caller that keeps to the comments.                    *)
OrderPaymentSpec == OrderPaymentInit /\ [][OrderPaymentNext]_orderPaymentVars

-----------------------------------------------------------------------------
(* Properties.                                                             *)

(* If the caller looks at the order when it calls, that is enough: however
   long the provider takes and whatever the order goes through meanwhile, a
   customer is charged only for an order that is ready or completed, and a
   hold is released only for one that is cancelled.  The service itself looks
   at the order neither before nor after its await; it is the pipeline of
   orders, where neither status is ever left for the other, that keeps the
   two apart.                                                              *)
ChargedIfFulfilled ==
  \A o \in DOMAIN orders, c \in Conn :
    LET s == ledger[<<c, o>>] IN
    /\ s.captured > 0 => orders[o].status \in Fulfilled
    /\ s.voided => orders[o].status = "cancelled"
=============================================================================
