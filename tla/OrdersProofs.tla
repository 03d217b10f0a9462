---------------------------- MODULE OrdersProofs -----------------------------
(***************************************************************************)
(* Proofs about Orders, for any requests and any number of orders, and     *)
(* about their payments, for any number of overlapping calls.              *)
(***************************************************************************)
EXTENDS OrderPayments, PaymentTransactionsProofs

(* What one order's record says of its way: OrdersFollowPipeline of it.    *)
Follows(order) ==
  \E n \in DOMAIN Pipeline :
    LET passed == {Pipeline[k] : k \in 1..n}
    IN  \/ order.status = Pipeline[n] /\ order.stamps = passed
        \/ /\ order.status = "cancelled" /\ n <= 3
           /\ order.stamps = passed \cup {"cancelled"}

(* The statuses passed after n steps, spelled out. *)
LEMMA Passed ==
  /\ {Pipeline[k] : k \in 1..1} = {"placed"}
  /\ {Pipeline[k] : k \in 1..2} = {"placed", "confirmed"}
  /\ {Pipeline[k] : k \in 1..3} = {"placed", "confirmed", "preparing"}
  /\ {Pipeline[k] : k \in 1..4} = {"placed", "confirmed", "preparing", "ready"}
  /\ {Pipeline[k] : k \in 1..5} = {"placed", "confirmed", "preparing", "ready", "completed"}
<1>1. /\ 1..1 = {1} /\ 1..2 = {1, 2} /\ 1..3 = {1, 2, 3} /\ 1..4 = {1, 2, 3, 4}
      /\ 1..5 = {1, 2, 3, 4, 5}
  OBVIOUS
<1>2. /\ Pipeline[1] = "placed" /\ Pipeline[2] = "confirmed" /\ Pipeline[3] = "preparing"
      /\ Pipeline[4] = "ready" /\ Pipeline[5] = "completed"
  BY DEF Pipeline
<1>3. /\ {Pipeline[k] : k \in {1}} = {Pipeline[1]}
      /\ {Pipeline[k] : k \in {1, 2}} = {Pipeline[1], Pipeline[2]}
      /\ {Pipeline[k] : k \in {1, 2, 3}} = {Pipeline[1], Pipeline[2], Pipeline[3]}
  OBVIOUS
<1>4. {Pipeline[k] : k \in {1, 2, 3, 4}} = {Pipeline[1], Pipeline[2], Pipeline[3], Pipeline[4]}
  OBVIOUS
<1>5. {Pipeline[k] : k \in {1, 2, 3, 4, 5}}
        = {Pipeline[1], Pipeline[2], Pipeline[3], Pipeline[4], Pipeline[5]}
  OBVIOUS
<1> QED BY <1>1, <1>2, <1>3, <1>4, <1>5

(* Follows without the pipeline: a status goes with its stamps. *)
LEMMA FollowsUnfolded ==
  ASSUME NEW order
  PROVE  Follows(order) <=>
    \/ order.status = "placed" /\ order.stamps = {"placed"}
    \/ order.status = "confirmed" /\ order.stamps = {"placed", "confirmed"}
    \/ order.status = "preparing" /\ order.stamps = {"placed", "confirmed", "preparing"}
    \/ order.status = "ready" /\ order.stamps = {"placed", "confirmed", "preparing", "ready"}
    \/ /\ order.status = "completed"
       /\ order.stamps = {"placed", "confirmed", "preparing", "ready", "completed"}
    \/ /\ order.status = "cancelled"
       /\ \/ order.stamps = {"placed", "cancelled"}
          \/ order.stamps = {"placed", "confirmed", "cancelled"}
          \/ order.stamps = {"placed", "confirmed", "preparing", "cancelled"}
<1> DEFINE P(n) == {Pipeline[k] : k \in 1..n}
           F(n) == \/ order.status = Pipeline[n] /\ order.stamps = P(n)
                   \/ /\ order.status = "cancelled" /\ n <= 3
                      /\ order.stamps = P(n) \cup {"cancelled"}
<1>1. Follows(order) <=> \E n \in DOMAIN Pipeline : F(n)
  BY DEF Follows
<1>2. DOMAIN Pipeline = {1, 2, 3, 4, 5}
  BY DEF Pipeline
<1>3. Follows(order) <=> F(1) \/ F(2) \/ F(3) \/ F(4) \/ F(5)
  <2> HIDE DEF F
  <2> QED BY <1>1, <1>2, Zenon
<1>4. /\ Pipeline[1] = "placed" /\ Pipeline[2] = "confirmed" /\ Pipeline[3] = "preparing"
      /\ Pipeline[4] = "ready" /\ Pipeline[5] = "completed"
  BY DEF Pipeline
<1>5. /\ P(1) = {"placed"} /\ P(2) = {"placed", "confirmed"}
      /\ P(3) = {"placed", "confirmed", "preparing"}
      /\ P(4) = {"placed", "confirmed", "preparing", "ready"}
      /\ P(5) = {"placed", "confirmed", "preparing", "ready", "completed"}
  BY Passed
<1> HIDE DEF P
<1> QED BY <1>3, <1>4, <1>5

(* A transition changes one order, and records the new status. *)
LEMMA OrderMoved ==
  ASSUME OrderTypeOK, NEW o \in DOMAIN orders, NEW target \in OrderStatus,
         TransitionOrderStatus(o, target)
  PROVE  /\ OrderTypeOK'
         /\ DOMAIN orders' = DOMAIN orders
         /\ orders'[o].status = target
         /\ orders'[o].stamps = orders[o].stamps \cup {target}
         /\ \A i \in DOMAIN orders : i # o => orders'[i] = orders[i]
<1> DEFINE moved == [orders[o] EXCEPT !.status = target, !.stamps = @ \cup {target}]
<1>1. orders \in Seq(Order) /\ orders[o] \in Order
  BY DEF OrderTypeOK
<1>2. /\ moved \in Order /\ moved.status = target
      /\ moved.stamps = orders[o].stamps \cup {target}
  BY <1>1 DEF Order
<1>3. orders' = [orders EXCEPT ![o] = moved]
  BY DEF TransitionOrderStatus
<1> HIDE DEF moved
<1> QED BY <1>1, <1>2, <1>3 DEF OrderTypeOK

(* A creation appends a placed order. *)
LEMMA OrderCreated ==
  ASSUME OrderTypeOK, NEW r \in ApiRequests, CreateOrderFromCart(r)
  PROVE  /\ OrderTypeOK'
         /\ Len(orders') = Len(orders) + 1
         /\ DOMAIN orders' = DOMAIN orders \cup {Len(orders) + 1}
         /\ \A i \in DOMAIN orders : orders'[i] = orders[i]
         /\ orders'[Len(orders) + 1].status = "placed"
         /\ orders'[Len(orders) + 1].stamps = {"placed"}
<1> DEFINE new == [status |-> "placed", stamps |-> {"placed"},
                   items |-> r.items, total |-> r.total]
<1>1. new \in Order /\ new.status = "placed" /\ new.stamps = {"placed"}
  BY DEF Order, OrderStatus
<1>2. orders \in Seq(Order) /\ orders' = Append(orders, new)
  BY DEF OrderTypeOK, CreateOrderFromCart
<1> HIDE DEF new
<1> QED BY <1>1, <1>2 DEF OrderTypeOK

(* Every order recorded keeps its type: its amounts are those of a request
   that createOrderFromCart was given.                                     *)
THEOREM OrdersTypeCorrect == OrderSpec => []OrderTypeOK
<1>1. OrderInit => OrderTypeOK
  BY DEF OrderInit, OrderTypeOK
<1>2. OrderTypeOK /\ [OrderNext]_orders => OrderTypeOK'
  <2> SUFFICES ASSUME OrderTypeOK, [OrderNext]_orders PROVE OrderTypeOK'
    OBVIOUS
  <2>1. ASSUME NEW r \in ApiRequests, CreateOrderFromCart(r) PROVE OrderTypeOK'
    BY <2>1, OrderCreated
  <2>2. ASSUME NEW o \in DOMAIN orders, NEW target \in OrderStatus,
               TransitionOrderStatus(o, target)
        PROVE  OrderTypeOK'
    BY <2>2, OrderMoved
  <2>3. CASE UNCHANGED orders
    BY <2>3 DEF OrderTypeOK
  <2> QED BY <2>1, <2>2, <2>3 DEF OrderNext
<1> QED BY <1>1, <1>2, PTL DEF OrderSpec

(* One step of the table leads from one point of the pipeline to another. *)
LEMMA TableFollowsPipeline ==
  ASSUME NEW before \in Order, NEW after \in Order, Follows(before),
         NEW target \in OrderTransitions[before.status],
         target = "cancelled" => before.status \in OrderCancellable,
         after.status = target, after.stamps = before.stamps \cup {target}
  PROVE  Follows(after)
<1>1. /\ before.status = "placed" => target \in {"confirmed", "cancelled"}
      /\ before.status = "confirmed" => target \in {"preparing", "cancelled"}
      /\ before.status = "preparing" => target \in {"ready", "cancelled"}
      /\ before.status = "ready" => target \in {"completed"}
      /\ before.status \notin {"completed", "cancelled"}
  BY DEF OrderTransitions
<1> QED BY <1>1, FollowsUnfolded DEF Order

(* Whatever transitions are asked for, in whatever order: the times an order has
   recorded are those of the pipeline up to its status, or up to a cancellation
   before it was ready (transitionOrderStatus, cancelOrder).               *)
THEOREM OrdersKeepToThePipeline == OrderSpec => []OrdersFollowPipeline
<1>1. OrderInit => OrdersFollowPipeline
  BY DEF OrderInit, OrdersFollowPipeline
<1>2. OrdersFollowPipeline <=> \A o \in DOMAIN orders : Follows(orders[o])
  BY DEF OrdersFollowPipeline, Follows
<1>3. OrderTypeOK /\ OrdersFollowPipeline /\ [OrderNext]_orders => OrdersFollowPipeline'
  <2> SUFFICES ASSUME OrderTypeOK, \A o \in DOMAIN orders : Follows(orders[o]),
                      [OrderNext]_orders
               PROVE  \A o \in DOMAIN orders' : Follows(orders'[o])
    BY <1>2 DEF OrdersFollowPipeline, Follows
  <2>1. ASSUME NEW r \in ApiRequests, CreateOrderFromCart(r)
        PROVE  \A o \in DOMAIN orders' : Follows(orders'[o])
    <3>1. Follows(orders'[Len(orders) + 1])
      BY <2>1, OrderCreated, FollowsUnfolded
    <3> QED BY <2>1, <3>1, OrderCreated
  <2>2. ASSUME NEW o \in DOMAIN orders, NEW target \in OrderStatus,
               TransitionOrderStatus(o, target)
        PROVE  \A i \in DOMAIN orders' : Follows(orders'[i])
    <3>1. orders[o] \in Order /\ orders'[o] \in Order
      BY <2>2, OrderMoved DEF OrderTypeOK
    <3>2. Follows(orders'[o])
      BY <2>2, <3>1, OrderMoved, TableFollowsPipeline DEF TransitionOrderStatus
    <3> QED BY <2>2, <3>2, OrderMoved
  <2>3. CASE UNCHANGED orders
    BY <2>3
  <2> QED BY <2>1, <2>2, <2>3 DEF OrderNext
<1> QED BY <1>1, <1>3, OrdersTypeCorrect, PTL DEF OrderSpec

-----------------------------------------------------------------------------
(* Orders and their payments.                                              *)

IsFulfilled(r) == r \in DOMAIN orders /\ orders[r].status \in Fulfilled
IsCancelled(r) == r \in DOMAIN orders /\ orders[r].status = "cancelled"

OrderTypes == TypeOK /\ OrderTypeOK /\ Len(orders) <= MaxOrders

(* What is charged, or asked to be, is an order that is ready or completed;
   what is released, or asked to be, is a cancelled one.                   *)
RequestsFollowOrders ==
  \A c \in Calls :
    /\ calls[c].op = "capture" => IsFulfilled(txns[calls[c].txn].ref)
    /\ calls[c].op = "void" => IsCancelled(txns[calls[c].txn].ref)

LedgersFollowOrders ==
  \A p \in Conn, r \in Refs :
    /\ ledger[<<p, r>>].captured > 0 => IsFulfilled(r)
    /\ ledger[<<p, r>>].voided => IsCancelled(r)

MoneyFollowsOrders == RequestsFollowOrders /\ LedgersFollowOrders

(* An order is a reference of the payment service. *)
LEMMA OrdersAreRefs ==
  ASSUME OrderTypes
  PROVE  DOMAIN orders \subseteq Refs
<1>1. DOMAIN orders = 1..Len(orders) /\ Len(orders) \in Nat
  BY DEF OrderTypes, OrderTypeOK
<1>2. 1..Len(orders) \subseteq 1..MaxOrders
  BY <1>1, OrderAssumption DEF OrderTypes
<1> QED BY <1>1, <1>2, OrderPaymentAssumption

(* A call of the integration is a call of the payment service. *)
LEMMA IntegrationStep ==
  ASSUME OrderTypes, [OrderPaymentNext]_orderPaymentVars
  PROVE  [Next]_vars /\ [OrderNext]_orders
<1>1. CASE OrderNext /\ UNCHANGED vars
  BY <1>1
<1>2. ASSUME UNCHANGED orders, NEW c \in Calls, NEW o \in DOMAIN orders, NEW a \in Amount,
             NEW tenant \in TenantConfig, CreateOrderPaymentIntent(c, o, a, tenant)
      PROVE  [Next]_vars
  BY <1>2, OrdersAreRefs DEF Next, Start, CreateOrderPaymentIntent
<1>3. ASSUME NEW c \in Calls, NEW o \in DOMAIN orders,
             CallerCaptures(c, o) \/ CallerVoids(c, o)
      PROVE  [Next]_vars
  <2>1. CASE CallerCaptures(c, o)
    <3>1. PICK t \in DOMAIN txns : CapturePayment(c, t, txns[t].amount)
      BY <2>1 DEF CallerCaptures, CaptureOrderPayment
    <3>2. txns[t].amount \in Amount
      BY TxnAt DEF OrderTypes, Txn
    <3> QED BY <3>1, <3>2 DEF Next, Start
  <2>2. CASE CallerVoids(c, o)
    BY <2>2 DEF CallerVoids, VoidOrderPayment, Next, Start
  <2> QED BY <1>3, <2>1, <2>2
<1>4. ASSUME NEW c \in Calls, Accept(c) \/ Decline(c) \/ Resume(c)
      PROVE  [Next]_vars
  BY <1>4 DEF Next
<1>5. CASE UNCHANGED orderPaymentVars
  BY <1>5 DEF orderPaymentVars
<1> QED BY <1>1, <1>2, <1>3, <1>4, <1>5 DEF OrderPaymentNext

(* A step of the payment service keeps its types. *)
LEMMA PaymentStepType ==
  ASSUME TypeOK, [Next]_vars
  PROVE  TypeOK'
<1>1. CASE UNCHANGED vars
  BY <1>1 DEF TypeOK, vars
<1>2. CASE Next
  BY <1>2, StartType, AcceptType, DeclineType, ResumeType DEF Next
<1> QED BY <1>1, <1>2

(* A step of orders keeps their types, their number, and what is settled. *)
LEMMA OrderStep ==
  ASSUME OrderTypeOK, Len(orders) <= MaxOrders, [OrderNext]_orders
  PROVE  /\ OrderTypeOK' /\ Len(orders') <= MaxOrders
         /\ \A r : IsFulfilled(r) => IsFulfilled(r)'
         /\ \A r : IsCancelled(r) => IsCancelled(r)'
<1>0. orders \in Seq(Order) /\ Len(orders) \in Nat /\ DOMAIN orders = 1..Len(orders)
  BY DEF OrderTypeOK
<1>1. ASSUME NEW q \in ApiRequests, CreateOrderFromCart(q)
      PROVE  /\ OrderTypeOK' /\ Len(orders') <= MaxOrders
             /\ DOMAIN orders \subseteq DOMAIN orders'
             /\ \A i \in DOMAIN orders : orders'[i] = orders[i]
  <2>1. Len(orders) < MaxOrders /\ Len(orders') = Len(orders) + 1
    BY <1>1, OrderCreated DEF CreateOrderFromCart
  <2>2. Len(orders') <= MaxOrders
    BY <1>0, <2>1, OrderAssumption
  <2>3. /\ OrderTypeOK' /\ DOMAIN orders \subseteq DOMAIN orders'
        /\ \A i \in DOMAIN orders : orders'[i] = orders[i]
    BY <1>1, OrderCreated
  <2> QED BY <2>2, <2>3
<1>2. ASSUME NEW o \in DOMAIN orders, NEW target \in OrderStatus,
             TransitionOrderStatus(o, target)
      PROVE  /\ OrderTypeOK' /\ Len(orders') <= MaxOrders
             /\ \A r : IsFulfilled(r) => IsFulfilled(r)'
             /\ \A r : IsCancelled(r) => IsCancelled(r)'
  <2>1. Len(orders') = Len(orders)
    BY <1>0, <1>2 DEF TransitionOrderStatus
  <2>2. target \in OrderTransitions[orders[o].status] /\ orders[o].status \in OrderStatus
    <3>1. orders[o] \in Order
      BY <1>0
    <3> QED BY <1>2, <3>1 DEF TransitionOrderStatus, Order
  <2>3. /\ orders[o].status = "ready" => target = "completed"
        /\ orders[o].status \notin {"completed", "cancelled"}
    BY <2>2 DEF OrderTransitions
  <2> QED BY <1>2, <2>1, <2>3, OrderMoved DEF IsFulfilled, IsCancelled, Fulfilled
<1>3. CASE UNCHANGED orders
  BY <1>3 DEF OrderTypeOK, IsFulfilled, IsCancelled
<1> QED BY <1>1, <1>2, <1>3 DEF OrderNext, IsFulfilled, IsCancelled

(* The integration keeps the types of both services. *)
THEOREM OrderPaymentsTypeCorrect == OrderPaymentSpec => []OrderTypes
<1>1. OrderPaymentInit => OrderTypes
  BY OrderAssumption DEF OrderPaymentInit, OrderTypes, OrderInit, OrderTypeOK,
     Init, TypeOK, IntentState, IdleCall, IntentCall, TxnCall, HoldCall, RefundCall
<1>2. OrderTypes /\ [OrderPaymentNext]_orderPaymentVars => OrderTypes'
  BY IntegrationStep, PaymentStepType, OrderStep DEF OrderTypes
<1> QED BY <1>1, <1>2, PTL DEF OrderPaymentSpec

(* OrderPaymentService uses the payment service and the orders only in ways
   that the specification of each allows: whatever is proved of either, for
   any caller, holds of the two together.                                  *)
THEOREM IntegrationIsAClient == OrderPaymentSpec => Spec /\ OrderSpec
<1>1. OrderPaymentInit => Init /\ OrderInit
  BY DEF OrderPaymentInit
<1>2. OrderTypes /\ [OrderPaymentNext]_orderPaymentVars => [Next]_vars /\ [OrderNext]_orders
  BY IntegrationStep
<1> QED BY <1>1, <1>2, OrderPaymentsTypeCorrect, PTL DEF OrderPaymentSpec, Spec, OrderSpec

(* What the provider does follows from what it was asked. *)
LEMMA LedgerFollowsRequests ==
  ASSUME TypeOK, NEW c \in Calls, Accept(c), NEW j \in Conn \X Refs
  PROVE  /\ ledger'[j].captured > 0 =>
              \/ ledger[j].captured > 0
              \/ calls[c].op = "capture" /\ j = IntentOf(calls[c])
         /\ ledger'[j].voided =>
              \/ ledger[j].voided
              \/ calls[c].op = "void" /\ j = IntentOf(calls[c])
<1> DEFINE call == calls[c]
           i    == IntentOf(call)
<1>1. /\ ~Idle(c) /\ i \in Conn \X Refs /\ ledger[i] \in IntentState
      /\ ledger \in [Conn \X Refs -> IntentState]
  BY IntentOfCall DEF Accept, TypeOK
<1>2. CASE call.op \in {"intent", "failover"}
  <2>1. ledger' = [ledger EXCEPT ![i].authorized = TRUE]
    BY <1>2 DEF Accept
  <2> HIDE DEF i
  <2>2. /\ j # i => ledger'[j] = ledger[j]
        /\ ledger'[i] = [ledger[i] EXCEPT !.authorized = TRUE]
    BY <1>1, <2>1
  <2> QED BY <1>1, <2>2 DEF IntentState
<1>3. CASE call.op = "capture"
  <2>1. ledger' = [ledger EXCEPT ![i].captured = @ + Positive(call.amount)]
    BY <1>3 DEF Accept
  <2> HIDE DEF i
  <2>2. /\ j # i => ledger'[j] = ledger[j]
        /\ ledger'[i] = [ledger[i] EXCEPT !.captured = @ + Positive(call.amount)]
    BY <1>1, <2>1
  <2>3. j = i => ledger'[j].voided = ledger[j].voided
    BY <1>1, <2>2 DEF IntentState
  <2> QED BY <1>3, <2>2, <2>3 DEF i
<1>4. CASE call.op = "void"
  <2>1. ledger' = [ledger EXCEPT ![i].voided = TRUE]
    BY <1>4 DEF Accept
  <2> HIDE DEF i
  <2>2. /\ j # i => ledger'[j] = ledger[j]
        /\ ledger'[i] = [ledger[i] EXCEPT !.voided = TRUE]
    BY <1>1, <2>1
  <2>3. j = i => ledger'[j].captured = ledger[j].captured
    BY <1>1, <2>2 DEF IntentState
  <2> QED BY <1>4, <2>2, <2>3 DEF i
<1>5. CASE call.op = "refund"
  <2>1. ledger' = [ledger EXCEPT ![i] = Refunded(@, call)]
    BY <1>5 DEF Accept
  <2>2. call \in RefundCall
    BY <1>5, CallShape
  <2> HIDE DEF i
  <2>3. /\ j # i => ledger'[j] = ledger[j]
        /\ ledger'[i] = Refunded(ledger[i], call)
    BY <1>1, <2>1
  <2> QED BY <1>1, <2>2, <2>3, RefundedEntry
<1> QED BY <1>1, <1>2, <1>3, <1>4, <1>5, CallShape

(* A transaction stays that of its order. *)
LEMMA ResumeKeepsRefs ==
  ASSUME TypeOK, NEW c \in Calls, Resume(c), NEW t \in DOMAIN txns
  PROVE  t \in DOMAIN txns' /\ txns'[t].ref = txns[t].ref
<1> DEFINE Keeps == t \in DOMAIN txns' /\ txns'[t].ref = txns[t].ref
<1>0. {"failed", "authorized"} \subseteq Status /\ 0 \in Nat /\ {TRUE, FALSE} \subseteq BOOLEAN
  BY DEF Status
<1>1. ASSUME NEW conn \in Conn, NEW hasId \in BOOLEAN, NEW s \in Status,
             calls[c] \in IntentCall, RecordTxn(calls[c], conn, hasId, s)
      PROVE  Keeps
  BY <1>1, RecordType
<1>2. ASSUME NEW u \in DOMAIN txns, NEW newTxn \in Txn, NEW n \in Nat,
             newTxn.ref = txns[u].ref, UpdateTxn(u, newTxn, n)
      PROVE  Keeps
  BY <1>2, UpdateType
<1> HIDE DEF Keeps
<1>3. ASSUME NEW tenant \in TenantConfig, IntentFailsOver(c, tenant)
      PROVE  Keeps
  BY <1>3 DEF IntentFailsOver, Keeps
<1>4. ASSUME NEW tenant \in TenantConfig, IntentFails(c, tenant)
      PROVE  Keeps
  <2>1. calls[c] \in IntentCall
    BY <1>4, AnsweredCall DEF IntentFails
  <2>2. calls[c].primary \in Conn
    BY <2>1 DEF IntentCall
  <2> QED BY <1>0, <1>1, <1>4, <2>1, <2>2 DEF IntentFails
<1>5. CASE IntentAuthorized(c)
  <2>1. calls[c] \in IntentCall
    BY <1>5, AnsweredCall DEF IntentAuthorized
  <2>2. calls[c].conn \in Conn
    BY <2>1 DEF IntentCall
  <2> QED BY <1>0, <1>1, <1>5, <2>1, <2>2 DEF IntentAuthorized, Keeps
<1> DEFINE call == calls[c]
           u    == call.txn
<1>6. CASE CaptureSettles(c)
  <2> DEFINE new == [txns[u] EXCEPT !.status = call.target, !.captured = call.amount]
  <2>1. u \in DOMAIN txns /\ txns[u] \in Txn /\ call.target \in Status /\ call.amount \in Int
    BY <1>6, AnsweredCall DEF CaptureSettles
  <2>2. new \in Txn /\ new.ref = txns[u].ref
    BY <2>1, SettledTxn DEF Txn
  <2>3. UpdateTxn(u, new, 0)
    BY <1>6 DEF CaptureSettles
  <2> HIDE DEF u, new
  <2> QED BY <1>0, <1>2, <2>1, <2>2, <2>3 DEF Keeps
<1>7. CASE VoidSettles(c)
  <2> DEFINE new == [txns[u] EXCEPT !.status = call.target]
  <2>1. u \in DOMAIN txns /\ txns[u] \in Txn /\ call.target \in Status
    BY <1>7, AnsweredCall DEF VoidSettles
  <2>2. new \in Txn /\ new.ref = txns[u].ref
    BY <2>1, SettledTxn DEF Txn
  <2>3. UpdateTxn(u, new, 0)
    BY <1>7 DEF VoidSettles
  <2> HIDE DEF u, new
  <2> QED BY <1>0, <1>2, <2>1, <2>2, <2>3 DEF Keeps
<1>8. CASE CaptureOrVoidFails(c)
  <2> DEFINE new == [txns[u] EXCEPT !.status = "failed"]
  <2>1. u \in DOMAIN txns /\ txns[u] \in Txn
    BY <1>8, AnsweredCall DEF CaptureOrVoidFails
  <2>2. new \in Txn /\ new.ref = txns[u].ref
    BY <1>0, <2>1, SettledTxn DEF Txn
  <2>3. UpdateTxn(u, new, 0)
    BY <1>8 DEF CaptureOrVoidFails
  <2> HIDE DEF u, new
  <2> QED BY <1>0, <1>2, <2>1, <2>2, <2>3 DEF Keeps
<1>9. CASE RefundSettles(c)
  <2> DEFINE new == [txns[u] EXCEPT !.status = call.target, !.refunded = @ + call.amount]
  <2>1. /\ u \in DOMAIN txns /\ txns[u] \in Txn /\ call.target \in Status
        /\ call.amount \in Nat /\ call.amount \in Int
    BY <1>9, AnsweredCall DEF RefundSettles
  <2>2. new \in Txn /\ new.ref = txns[u].ref
    BY <2>1, SettledTxn DEF Txn
  <2>3. UpdateTxn(u, new, call.amount)
    BY <1>9 DEF RefundSettles
  <2> HIDE DEF u, new
  <2> QED BY <1>2, <2>1, <2>2, <2>3 DEF Keeps
<1>10. CASE RefundFails(c)
  BY <1>10 DEF RefundFails, Keeps
<1> QED BY <1>3, <1>4, <1>5, <1>6, <1>7, <1>8, <1>9, <1>10 DEF Resume, Keeps

(* A resumed call returns, or goes on as the failover of its intent; it leaves
   the others and the providers alone.                                     *)
LEMMA ResumeMakesNoRequest ==
  ASSUME TypeOK, NEW c \in Calls, Resume(c)
  PROVE  /\ calls'[c].op \notin {"capture", "void"}
         /\ \A d \in Calls : d # c => calls'[d] = calls[d]
         /\ UNCHANGED ledger
<1>0. calls \in [Calls -> {IdleCall} \cup IntentCall \cup TxnCall]
  BY DEF TypeOK
<1>1. ASSUME NEW tenant \in TenantConfig, IntentFailsOver(c, tenant)
      PROVE  /\ calls'[c].op = "failover" /\ UNCHANGED ledger
             /\ \A d \in Calls : d # c => calls'[d] = calls[d]
  <2>1. calls[c] \in IntentCall
    BY <1>1, AnsweredCall DEF IntentFailsOver
  <2>2. PICK f \in Conn : Sends(c, [calls[c] EXCEPT !.op = "failover", !.conn = f,
                                                   !.verdict = "pending"])
    BY <1>1 DEF IntentFailsOver
  <2>3. [calls[c] EXCEPT !.op = "failover", !.conn = f, !.verdict = "pending"].op = "failover"
    BY <2>1 DEF IntentCall
  <2> QED BY <1>0, <1>1, <2>2, <2>3 DEF Sends, IntentFailsOver
<1>2. CASE Returns(c) /\ UNCHANGED ledger
  BY <1>0, <1>2 DEF Returns, Sends, IdleCall
<1>3. (\E tenant \in TenantConfig : IntentFailsOver(c, tenant)) \/ (Returns(c) /\ UNCHANGED ledger)
  BY DEF Resume, IntentFails, IntentAuthorized, CaptureSettles, VoidSettles,
     CaptureOrVoidFails, RefundSettles, RefundFails
<1> QED BY <1>1, <1>2, <1>3

(* A caller that keeps to the comments asks for what the order stands for. *)
LEMMA RequestsAreMade ==
  ASSUME OrderTypes, RequestsFollowOrders, NEW c \in Calls, NEW o \in DOMAIN orders,
         UNCHANGED orders, CallerCaptures(c, o) \/ CallerVoids(c, o)
  PROVE  RequestsFollowOrders' /\ UNCHANGED ledger
<1>1. PICK t \in DOMAIN txns, op \in {"capture", "void"}, a \in Amount, target \in Status :
        /\ txns[t].ref = o
        /\ Sends(c, TxnRequest(op, t, a, NoKey, target))
        /\ op = "capture" => IsFulfilled(o)
        /\ op = "void" => IsCancelled(o)
        /\ UNCHANGED <<txns, ledger>>
  <2>1. \A t \in DOMAIN txns : txns[t].amount \in Amount
    BY TxnAt DEF OrderTypes, Txn
  <2>2. "captured" \in Status /\ "voided" \in Status
    BY DEF Status
  <2>3. CASE CallerCaptures(c, o)
    BY <2>1, <2>2, <2>3 DEF CallerCaptures, CaptureOrderPayment, CapturePayment, IsTransactionOf, IsFulfilled
  <2>4. CASE CallerVoids(c, o)
    BY <2>1, <2>2, <2>4 DEF CallerVoids, VoidOrderPayment, VoidPayment, IsTransactionOf, IsCancelled
  <2> QED BY <2>3, <2>4
<1> DEFINE request == TxnRequest(op, t, a, NoKey, target)
<1>2. request \in TxnCall /\ request.op = op /\ request.txn = t
  <2>1. request \in TxnCall
    BY RequestType, PaymentAssumption DEF OrderTypes, Amount
  <2> QED BY <2>1 DEF TxnRequest
<1> HIDE DEF request
<1>3. /\ calls'[c] = request
      /\ \A d \in Calls \ {c} : calls'[d] = calls[d]
  BY <1>1, <1>2, SendsType DEF OrderTypes, request
<1> QED BY <1>1, <1>2, <1>3 DEF RequestsFollowOrders, IsFulfilled, IsCancelled

(* Where a transaction's reference is kept, so are the requests on it. *)
LEMMA RequestsAreKept ==
  ASSUME TypeOK, RequestsFollowOrders, NEW c \in Calls, UNCHANGED orders,
         \A d \in Calls : d # c => calls'[d] = calls[d],
         calls'[c].op \in {"capture", "void"} =>
           calls'[c].op = calls[c].op /\ calls'[c].txn = calls[c].txn,
         \A t \in DOMAIN txns : txns'[t].ref = txns[t].ref
  PROVE  RequestsFollowOrders'
<1> SUFFICES ASSUME NEW d \in Calls
             PROVE  /\ calls'[d].op = "capture" => IsFulfilled(txns'[calls'[d].txn].ref)
                    /\ calls'[d].op = "void" => IsCancelled(txns'[calls'[d].txn].ref)
  BY DEF RequestsFollowOrders, IsFulfilled, IsCancelled
<1>1. calls'[d].op \in {"capture", "void"} =>
        calls'[d].op = calls[d].op /\ calls'[d].txn = calls[d].txn
  OBVIOUS
<1>2. calls[d].op \in {"capture", "void"} => calls[d].txn \in DOMAIN txns
  BY CallShape
<1> QED BY <1>1, <1>2 DEF RequestsFollowOrders

(* Under the assumption that the caller of captureOrderPayment and of
   voidOrderPayment looks at the order when it calls, as their comments ask
   and the service does not: whatever calls overlap, and however long the
   provider takes while the order moves on, customers are charged and holds
   are released as the order went, since no order that is ready is ever
   cancelled (ORDER_TRANSITIONS).                                          *)
THEOREM ChargesFollowOrders == OrderPaymentSpec => []ChargedIfFulfilled
<1>1. OrderPaymentInit => MoneyFollowsOrders
  BY DEF OrderPaymentInit, Init, MoneyFollowsOrders, RequestsFollowOrders, LedgersFollowOrders,
     IdleCall
<1>2. OrderTypes /\ MoneyFollowsOrders /\ [OrderPaymentNext]_orderPaymentVars => MoneyFollowsOrders'
  <2> SUFFICES ASSUME OrderTypes, RequestsFollowOrders, LedgersFollowOrders,
                      [OrderPaymentNext]_orderPaymentVars
               PROVE  RequestsFollowOrders' /\ LedgersFollowOrders'
    BY DEF MoneyFollowsOrders
  <2>0. ASSUME UNCHANGED orders, UNCHANGED ledger
        PROVE  LedgersFollowOrders'
    BY <2>0 DEF LedgersFollowOrders, IsFulfilled, IsCancelled
  <2>1. CASE OrderNext /\ UNCHANGED vars
    <3>1. /\ \A r : IsFulfilled(r) => IsFulfilled(r)'
          /\ \A r : IsCancelled(r) => IsCancelled(r)'
      BY <2>1, OrderStep DEF OrderTypes
    <3>2. UNCHANGED <<txns, calls, ledger>>
      BY <2>1 DEF vars
    <3> QED BY <3>1, <3>2 DEF RequestsFollowOrders, LedgersFollowOrders
  <2>2. ASSUME UNCHANGED orders, NEW c \in Calls, NEW o \in DOMAIN orders, NEW a \in Amount,
               NEW tenant \in TenantConfig, CreateOrderPaymentIntent(c, o, a, tenant)
        PROVE  RequestsFollowOrders' /\ LedgersFollowOrders'
    <3>1. PICK p \in Conn :
            Sends(c, [op |-> "intent", verdict |-> "pending", ref |-> o,
                      amount |-> a, conn |-> p, primary |-> p])
      BY <2>2 DEF CreateOrderPaymentIntent, CreatePaymentIntent
    <3>2. /\ calls'[c].op = "intent"
          /\ \A d \in Calls : d # c => calls'[d] = calls[d]
      BY <3>1 DEF Sends, OrderTypes, TypeOK
    <3>3. UNCHANGED <<txns, ledger>>
      BY <2>2 DEF CreateOrderPaymentIntent, CreatePaymentIntent
    <3> QED BY <2>0, <2>2, <3>2, <3>3, RequestsAreKept DEF OrderTypes
  <2>3. ASSUME UNCHANGED orders, NEW c \in Calls, NEW o \in DOMAIN orders,
               CallerCaptures(c, o) \/ CallerVoids(c, o)
        PROVE  RequestsFollowOrders' /\ LedgersFollowOrders'
    BY <2>0, <2>3, RequestsAreMade
  <2>4. ASSUME UNCHANGED orders, NEW c \in Calls, Accept(c)
        PROVE  RequestsFollowOrders' /\ LedgersFollowOrders'
    <3>1. /\ calls'[c].op = calls[c].op
          /\ calls[c].op \in {"capture", "void"} => calls'[c].txn = calls[c].txn
          /\ \A d \in Calls : d # c => calls'[d] = calls[d]
          /\ UNCHANGED txns
      <4>1. calls' = [calls EXCEPT ![c].verdict = "accepted"] /\ ~Idle(c)
        BY <2>4 DEF Accept
      <4>2. /\ calls[c] \in IntentCall \cup TxnCall
            /\ calls[c].op \in {"capture", "void"} => calls[c] \in TxnCall
        BY <4>1, CallShape DEF OrderTypes
      <4>3. calls'[c] = [calls[c] EXCEPT !.verdict = "accepted"]
            /\ \A d \in Calls : d # c => calls'[d] = calls[d]
        BY <4>1 DEF OrderTypes, TypeOK
      <4> QED BY <2>4, <4>2, <4>3 DEF Accept, IntentCall, TxnCall, HoldCall, RefundCall
    <3>2. RequestsFollowOrders'
      BY <2>4, <3>1, RequestsAreKept DEF OrderTypes
    <3>3. ASSUME NEW p \in Conn, NEW r \in Refs,
                 calls[c].op \in {"capture", "void"}, <<p, r>> = IntentOf(calls[c])
          PROVE  r = txns[calls[c].txn].ref
      BY <3>3 DEF IntentOf
    <3>4. ASSUME NEW p \in Conn, NEW r \in Refs
          PROVE  /\ ledger'[<<p, r>>].captured > 0 => IsFulfilled(r)
                 /\ ledger'[<<p, r>>].voided => IsCancelled(r)
      <4>1. <<p, r>> \in Conn \X Refs
        OBVIOUS
      <4>2. /\ ledger'[<<p, r>>].captured > 0 =>
                  \/ ledger[<<p, r>>].captured > 0
                  \/ calls[c].op = "capture" /\ <<p, r>> = IntentOf(calls[c])
            /\ ledger'[<<p, r>>].voided =>
                  \/ ledger[<<p, r>>].voided
                  \/ calls[c].op = "void" /\ <<p, r>> = IntentOf(calls[c])
        BY <2>4, <4>1, LedgerFollowsRequests DEF OrderTypes
      <4> QED BY <3>3, <4>2 DEF RequestsFollowOrders, LedgersFollowOrders
    <3> QED BY <2>4, <3>2, <3>4 DEF LedgersFollowOrders, IsFulfilled, IsCancelled
  <2>5. ASSUME UNCHANGED orders, NEW c \in Calls, Decline(c)
        PROVE  RequestsFollowOrders' /\ LedgersFollowOrders'
    <3>1. calls' = [calls EXCEPT ![c].verdict = "declined"] /\ UNCHANGED <<txns, ledger>>
          /\ ~Idle(c)
      BY <2>5 DEF Decline
    <3>2. /\ calls[c] \in IntentCall \cup TxnCall
          /\ calls[c].op \in {"capture", "void"} => calls[c] \in TxnCall
      BY <3>1, CallShape DEF OrderTypes
    <3>3. /\ calls'[c].op = calls[c].op
          /\ calls[c].op \in {"capture", "void"} => calls'[c].txn = calls[c].txn
          /\ \A d \in Calls : d # c => calls'[d] = calls[d]
      BY <3>1, <3>2 DEF OrderTypes, TypeOK, IntentCall, TxnCall, HoldCall, RefundCall
    <3> QED BY <2>0, <2>5, <3>1, <3>3, RequestsAreKept DEF OrderTypes
  <2>6. ASSUME UNCHANGED orders, NEW c \in Calls, Resume(c)
        PROVE  RequestsFollowOrders' /\ LedgersFollowOrders'
    BY <2>0, <2>6, ResumeMakesNoRequest, ResumeKeepsRefs, RequestsAreKept DEF OrderTypes
  <2>7. CASE UNCHANGED orderPaymentVars
    BY <2>7 DEF orderPaymentVars, vars, RequestsFollowOrders, LedgersFollowOrders,
       IsFulfilled, IsCancelled
  <2> QED BY <2>1, <2>2, <2>3, <2>4, <2>5, <2>6, <2>7 DEF OrderPaymentNext
<1>3. OrderTypes /\ MoneyFollowsOrders => ChargedIfFulfilled
  BY OrdersAreRefs DEF MoneyFollowsOrders, LedgersFollowOrders, ChargedIfFulfilled,
     IsFulfilled, IsCancelled
<1> QED BY <1>1, <1>2, <1>3, OrderPaymentsTypeCorrect, PTL DEF OrderPaymentSpec
=============================================================================
