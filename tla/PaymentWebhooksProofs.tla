----------------------- MODULE PaymentWebhooksProofs -----------------------
(***************************************************************************)
(* Proofs about PaymentWebhooks, for any number of orders, providers,      *)
(* events and amounts: when webhooks arrive between service calls, that    *)
(* reprocessing has no effect, that what a processed event established     *)
(* stands, that the order of the events does not matter, and that refunds  *)
(* of the service mark nothing as refunded that was not answered for.      *)
(***************************************************************************)
EXTENDS PaymentWebhooksProps, PaymentSerialProofs

-----------------------------------------------------------------------------
(* The transition table and the order of the statuses.                     *)

LEMMA StatusFacts ==
  ASSUME NEW s \in Status
  PROVE  /\ IsValidTransition("authorized", "captured")
         /\ ~IsTerminal(s) /\ ~IsValidTransition(s, "refunded")
              => s \in {"created", "authorized"}
         /\ IsValidTransition(s, "refunded") => s \in Refundable
         /\ IsStateAhead(s, "captured") => s # "authorized"
         /\ \A target \in {"failed", "refunded", "voided"} : ~IsStateAhead(s, target)
         /\ s \notin {"created", "authorized"} => StateOrder[s] >= StateOrder["captured"]
         /\ \A target \in {"failed", "refunded", "voided"} :
              IsTerminal(s) => StateOrder[s] >= StateOrder[target]
  <1>1. /\ Transitions["created"] = {"authorized", "failed"}
        /\ Transitions["authorized"] = {"captured", "voided", "failed"}
        /\ Transitions["captured"] = {"refunded", "partially_refunded", "failed"}
        /\ Transitions["voided"] = {} /\ Transitions["refunded"] = {}
        /\ Transitions["partially_refunded"] = {"refunded", "partially_refunded"}
        /\ Transitions["failed"] = {}
    BY DEF Transitions
  <1>2. /\ StateOrder["created"] = 0 /\ StateOrder["authorized"] = 1
        /\ StateOrder["captured"] = 2 /\ StateOrder["partially_refunded"] = 3
        /\ StateOrder["refunded"] = 4 /\ StateOrder["voided"] = 4
        /\ StateOrder["failed"] = 4
    BY DEF StateOrder
  <1>3. s \in {"created", "authorized", "captured", "voided", "refunded",
               "partially_refunded", "failed"}
    BY DEF Status
  <1>4. /\ IsValidTransition("authorized", "captured")
        /\ ~IsTerminal(s) /\ ~IsValidTransition(s, "refunded")
              => s \in {"created", "authorized"}
        /\ IsValidTransition(s, "refunded") => s \in Refundable
    BY <1>1, <1>3 DEF IsValidTransition, IsTerminal, Refundable
  <1>5. /\ IsStateAhead(s, "captured") => s # "authorized"
        /\ \A target \in {"failed", "refunded", "voided"} : ~IsStateAhead(s, target)
    BY <1>2, <1>3 DEF IsStateAhead
  <1>6. s \notin {"created", "authorized"} => StateOrder[s] >= StateOrder["captured"]
    BY <1>2, <1>3
  <1>7. \A target \in {"failed", "refunded", "voided"} :
              IsTerminal(s) => StateOrder[s] >= StateOrder[target]
    BY <1>2, <1>3 DEF IsTerminal
  <1> QED
    BY <1>4, <1>5, <1>6, <1>7

-----------------------------------------------------------------------------
(* What the steps of a service call do to the records they share with the  *)
(* webhooks.                                                               *)

(* The calls are aimed at what their op stands for. *)
CallIsAimed(call) ==
  /\ call.op = "capture" => call.target = "captured"
  /\ call.op = "void" => call.target = "voided"
  /\ call.op = "refund" => call.target \in {"refunded", "partially_refunded"}

(* Requests about a transaction go to the provider that took it. *)
GoesToItsProvider(call) ==
  call.op \in {"capture", "void", "refund"} =>
    call.txn \in DOMAIN txns /\ call.conn = txns[call.txn].conn

SameIntent(new, old) ==
  new.ref = old.ref /\ new.conn = old.conn /\ new.hasProviderId = old.hasProviderId

(* One more transaction. *)
Grows ==
  LET n == Len(txns) + 1 IN
  /\ DOMAIN txns' = DOMAIN txns \cup {n}
  /\ \A t \in DOMAIN txns : txns'[t] = txns[t]
  /\ txns'[n].status \in {"authorized", "failed"}

(* Another state of one transaction. *)
Rewrites(t) ==
  /\ DOMAIN txns' = DOMAIN txns
  /\ \A u \in DOMAIN txns : u # t => txns'[u] = txns[u]
  /\ SameIntent(txns'[t], txns[t])

OthersStay(c) == \A d \in Calls \ {c} : calls'[d] = calls[d]

(* A request the service sends out, by what it has checked. *)
Checked(call) ==
  LET txn == txns[call.txn] IN
  /\ call.txn \in DOMAIN txns /\ call.conn = txn.conn
  /\ \/ call.op = "capture" /\ txn.status = "authorized"
     \/ call.op = "void" /\ txn.status = "authorized"
     \/ /\ call.op = "refund" /\ txn.status \in Refundable
        /\ call.target = RefundTarget(call.txn, call.amount)

(* How a request changes its transaction. *)
SettledAs(new, old, call) ==
  \/ call.op = "capture" /\ new.status = "captured"
  \/ call.op \in {"capture", "void"} /\ new.status \in {"voided", "failed"}
  \/ /\ call.op = "refund" /\ new.status = call.target /\ call.verdict = "accepted"
     /\ new.captured = old.captured /\ new.refunded = old.refunded + call.amount

Settled(new, old, call) ==
  /\ SettledAs(new, old, call)
  /\ call.op \in {"capture", "void"} => new.refunded = old.refunded

LEMMA StartEffect ==
  ASSUME TypeOK, NEW c \in Calls, Start(c)
  PROVE  /\ UNCHANGED txns /\ OthersStay(c)
         /\ CallIsAimed(calls'[c])
         /\ calls'[c].op = "intent" \/ Checked(calls'[c])
  <1>1. ASSUME NEW r \in Refs, NEW a \in Amount, NEW tenant \in TenantConfig,
               CreatePaymentIntent(c, r, a, tenant)
        PROVE  /\ UNCHANGED txns /\ OthersStay(c)
               /\ calls'[c].op = "intent"
    <2>1. PICK p \in Conn :
            Sends(c, [op |-> "intent", verdict |-> "pending", ref |-> r,
                      amount |-> a, conn |-> p, primary |-> p])
      BY <1>1 DEF CreatePaymentIntent
    <2> QED
      BY <1>1, <2>1 DEF CreatePaymentIntent, OthersStay, Sends, TypeOK
  <1>2. ASSUME NEW t \in DOMAIN txns, NEW op, NEW a, NEW k, NEW target,
               Sends(c, TxnRequest(op, t, a, k, target))
        PROVE  /\ OthersStay(c)
               /\ calls'[c].op = op /\ calls'[c].txn = t /\ calls'[c].amount = a
               /\ calls'[c].target = target /\ calls'[c].conn = txns[t].conn
    BY <1>2 DEF OthersStay, Sends, TxnRequest, TypeOK
  <1>3. ASSUME NEW t \in DOMAIN txns, NEW a \in Captures \cup {txns[t].amount},
               CapturePayment(c, t, a)
        PROVE  /\ UNCHANGED txns /\ OthersStay(c)
               /\ CallIsAimed(calls'[c]) /\ Checked(calls'[c])
    <2>1. txns[t].status = "authorized"
      BY <1>3, TxnAt, CapturableIsAuthorized DEF CapturePayment, Txn
    <2> QED
      BY <1>2, <1>3, <2>1 DEF CapturePayment, CallIsAimed, Checked
  <1>4. ASSUME NEW t \in DOMAIN txns, VoidPayment(c, t)
        PROVE  /\ UNCHANGED txns /\ OthersStay(c)
               /\ CallIsAimed(calls'[c]) /\ Checked(calls'[c])
    <2>1. txns[t].status = "authorized"
      BY <1>4, TxnAt, CapturableIsAuthorized DEF VoidPayment, Txn
    <2> QED
      BY <1>2, <1>4, <2>1 DEF VoidPayment, CallIsAimed, Checked
  <1>5. ASSUME NEW t \in DOMAIN txns, NEW a \in Amount, NEW k \in RefundKeys,
               ProcessRefund(c, t, a, k)
        PROVE  /\ UNCHANGED txns /\ OthersStay(c)
               /\ CallIsAimed(calls'[c]) /\ Checked(calls'[c])
    <2>1. RefundTarget(t, a) \in {"refunded", "partially_refunded"}
      BY DEF RefundTarget
    <2> QED
      BY <1>2, <1>5, <2>1 DEF ProcessRefund, CallIsAimed, Checked
  <1>6. ASSUME calls'[c].op = "intent"
        PROVE  CallIsAimed(calls'[c])
    BY <1>6 DEF CallIsAimed
  <1> QED
    BY <1>1, <1>3, <1>4, <1>5, <1>6 DEF Start

SameRequest(new, old) ==
  /\ new.op = old.op
  /\ old.op \in {"capture", "void", "refund"} =>
       /\ new.txn = old.txn /\ new.amount = old.amount /\ new.target = old.target
       /\ new.conn = old.conn

LEMMA VerdictEffect ==
  ASSUME TypeOK, NEW c \in Calls, Accept(c) \/ Decline(c)
  PROVE  /\ UNCHANGED txns /\ OthersStay(c)
         /\ SameRequest(calls'[c], calls[c])
  <1>1. ~Idle(c) /\ UNCHANGED txns
    BY DEF Accept, Decline
  <1>2. PICK v \in {"accepted", "declined"} : calls' = [calls EXCEPT ![c].verdict = v]
    BY DEF Accept, Decline
  <1>3. v \in Verdict
    BY DEF Verdict
  <1> DEFINE new == [calls[c] EXCEPT !.verdict = v]
  <1>3a. new.conn = calls[c].conn \/ calls[c].op \notin {"capture", "void", "refund"}
    BY CallShape DEF TxnCall, HoldCall, RefundCall
  <1>4. /\ new \in IntentCall \cup TxnCall /\ Sends(c, new)
        /\ SameRequest(new, calls[c])
    BY <1>1, <1>2, <1>3, <1>3a, VerdictIsGiven DEF SameRequest
  <1> HIDE DEF new
  <1> QED
    BY <1>1, <1>4, SendsType DEF OthersStay

LEMMA RecordEffect ==
  ASSUME TypeOK, NEW c \in Calls, calls[c] \in IntentCall, NEW conn \in Conn,
         NEW hasId \in BOOLEAN, NEW s \in {"authorized", "failed"},
         RecordTxn(calls[c], conn, hasId, s)
  PROVE  Grows /\ LET new == txns'[Len(txns) + 1] IN new.captured = 0 /\ new.refunded = 0
  <1>1. s \in Status
    BY DEF Status
  <1>2. /\ DOMAIN txns' = DOMAIN txns \cup {Len(txns) + 1}
        /\ \A t \in DOMAIN txns : txns'[t] = txns[t]
        /\ txns'[Len(txns) + 1] = NewTxn(calls[c], conn, hasId, s)
    BY <1>1, IntentRecord
  <1> QED
    BY <1>2 DEF Grows, NewTxn

(* The second half of a call rewrites the transaction it is for, records a
   new one, or leaves the transactions alone.                              *)
LEMMA ResumeEffect ==
  ASSUME TypeOK, NEW c \in Calls, CallIsAimed(calls[c]), Resume(c)
  PROVE  /\ OthersStay(c)
         /\ CallIsAimed(calls'[c])
         /\ \/ UNCHANGED txns /\ calls'[c].op \in {"none", "failover"}
            \/ /\ calls'[c] = IdleCall /\ Grows
               /\ LET new == txns'[Len(txns) + 1] IN new.captured = 0 /\ new.refunded = 0
            \/ /\ calls[c] \in TxnCall /\ calls[c].txn \in DOMAIN txns
               /\ calls'[c] = IdleCall /\ Rewrites(calls[c].txn)
               /\ Settled(txns'[calls[c].txn], txns[calls[c].txn], calls[c])
  <1> DEFINE call == calls[c]
             t    == call.txn
             Recorded ==
               /\ calls'[c] = IdleCall /\ Grows
               /\ LET new == txns'[Len(txns) + 1] IN new.captured = 0 /\ new.refunded = 0
             Updated ==
               /\ calls[c] \in TxnCall /\ calls[c].txn \in DOMAIN txns
               /\ calls'[c] = IdleCall /\ Rewrites(calls[c].txn)
               /\ Settled(txns'[calls[c].txn], txns[calls[c].txn], calls[c])
  <1>0. "failed" \in Status /\ 0 \in Nat
    BY DEF Status
  <1> SUFFICES OthersStay(c) /\ (\/ UNCHANGED txns /\ calls'[c].op \in {"none", "failover"}
                                 \/ Recorded \/ Updated)
    BY DEF CallIsAimed, IdleCall
  <1>1. ASSUME Returns(c)
        PROVE  OthersStay(c) /\ calls'[c] = IdleCall
    BY <1>1, SendsType DEF Returns, OthersStay
  <1>2. ASSUME NEW tenant \in TenantConfig, IntentFailsOver(c, tenant)
        PROVE  OthersStay(c) /\ UNCHANGED txns /\ calls'[c].op = "failover"
    <2>1. PICK f \in Conn : Sends(c, [call EXCEPT !.op = "failover", !.conn = f,
                                                  !.verdict = "pending"])
      BY <1>2 DEF IntentFailsOver
    <2>2. call \in IntentCall
      BY <1>2, AnsweredCall DEF IntentFailsOver
    <2> DEFINE new == [call EXCEPT !.op = "failover", !.conn = f, !.verdict = "pending"]
    <2>3. new.op = "failover"
      BY <2>2 DEF IntentCall
    <2>4. calls'[c] = new /\ OthersStay(c)
      BY <2>1 DEF Sends, OthersStay, TypeOK
    <2> HIDE DEF new
    <2> QED
      BY <1>2, <2>3, <2>4 DEF IntentFailsOver
  <1>3. ASSUME NEW tenant \in TenantConfig, IntentFails(c, tenant)
        PROVE  OthersStay(c) /\ Recorded
    <2>1. call \in IntentCall
      BY <1>3, AnsweredCall DEF IntentFails
    <2>2. call.primary \in Conn
      BY <2>1 DEF IntentCall
    <2> QED
      BY <1>1, <1>3, <2>1, <2>2, RecordEffect DEF IntentFails
  <1>4. CASE IntentAuthorized(c)
    <2>1. call \in IntentCall
      BY <1>4, AnsweredCall DEF IntentAuthorized
    <2>2. call.conn \in Conn
      BY <2>1 DEF IntentCall
    <2> QED
      BY <1>1, <1>4, <2>1, <2>2, RecordEffect DEF IntentAuthorized
  <1>5. ASSUME call \in TxnCall, t \in DOMAIN txns, Returns(c),
               NEW newTxn \in Txn, NEW n \in Nat, UpdateTxn(t, newTxn, n),
               SameIntent(newTxn, txns[t]), Settled(newTxn, txns[t], call)
        PROVE  OthersStay(c) /\ Updated
    <2>1. /\ DOMAIN txns' = DOMAIN txns /\ txns'[t] = newTxn
          /\ \A u \in DOMAIN txns : u # t => txns'[u] = txns[u]
      BY <1>5, UpdateType
    <2> QED
      BY <1>1, <1>5, <2>1 DEF Rewrites
  <1>6. CASE CaptureSettles(c)
    <2> DEFINE newTxn == [txns[t] EXCEPT !.status = call.target,
                                          !.captured = call.amount]
    <2>1. /\ call \in TxnCall /\ call.op = "capture" /\ t \in DOMAIN txns
          /\ txns[t] \in Txn /\ call.target \in Status /\ call.amount \in Int
      BY <1>6, AnsweredCall DEF CaptureSettles
    <2>2. /\ newTxn \in Txn /\ SameIntent(newTxn, txns[t])
          /\ newTxn.status = "captured" /\ newTxn.refunded = txns[t].refunded
      BY <2>1, SettledTxn DEF Txn, SameIntent, CallIsAimed
    <2>3. UpdateTxn(t, newTxn, 0) /\ Returns(c)
      BY <1>6 DEF CaptureSettles
    <2> HIDE DEF newTxn
    <2>4. Settled(newTxn, txns[t], call)
      BY <2>1, <2>2 DEF Settled, SettledAs
    <2> QED
      BY <1>0, <1>5, <2>1, <2>2, <2>3, <2>4
  <1>7. CASE VoidSettles(c)
    <2> DEFINE newTxn == [txns[t] EXCEPT !.status = call.target]
    <2>1. /\ call \in TxnCall /\ call.op = "void" /\ t \in DOMAIN txns
          /\ txns[t] \in Txn /\ call.target \in Status
      BY <1>7, AnsweredCall DEF VoidSettles
    <2>2. /\ newTxn \in Txn /\ SameIntent(newTxn, txns[t])
          /\ newTxn.status = "voided" /\ newTxn.refunded = txns[t].refunded
      BY <1>0, <2>1, SettledTxn DEF Txn, SameIntent, CallIsAimed
    <2>3. UpdateTxn(t, newTxn, 0) /\ Returns(c)
      BY <1>7 DEF VoidSettles
    <2> HIDE DEF newTxn
    <2>4. Settled(newTxn, txns[t], call)
      BY <2>1, <2>2 DEF Settled, SettledAs
    <2> QED
      BY <1>0, <1>5, <2>1, <2>2, <2>3, <2>4
  <1>8. CASE CaptureOrVoidFails(c)
    <2> DEFINE newTxn == [txns[t] EXCEPT !.status = "failed"]
    <2>1. /\ call \in TxnCall /\ call.op \in {"capture", "void"}
          /\ t \in DOMAIN txns /\ txns[t] \in Txn
      BY <1>8, AnsweredCall DEF CaptureOrVoidFails
    <2>2. /\ newTxn \in Txn /\ SameIntent(newTxn, txns[t])
          /\ newTxn.status = "failed" /\ newTxn.refunded = txns[t].refunded
      BY <1>0, <2>1, SettledTxn DEF Txn, SameIntent
    <2>3. UpdateTxn(t, newTxn, 0) /\ Returns(c)
      BY <1>8 DEF CaptureOrVoidFails
    <2> HIDE DEF newTxn
    <2>4. Settled(newTxn, txns[t], call)
      BY <2>1, <2>2 DEF Settled, SettledAs
    <2> QED
      BY <1>0, <1>5, <2>1, <2>2, <2>3, <2>4
  <1>9. CASE RefundSettles(c)
    <2> DEFINE newTxn == [txns[t] EXCEPT !.status = call.target,
                                          !.refunded = @ + call.amount]
    <2>1. /\ call \in TxnCall /\ call.op = "refund" /\ t \in DOMAIN txns
          /\ call.verdict = "accepted"
          /\ txns[t] \in Txn /\ call.target \in Status /\ call.amount \in Nat
          /\ call.amount \in Int
      BY <1>9, AnsweredCall DEF RefundSettles
    <2>2. /\ newTxn \in Txn /\ SameIntent(newTxn, txns[t])
          /\ newTxn.status = call.target /\ newTxn.captured = txns[t].captured
          /\ newTxn.refunded = txns[t].refunded + call.amount
      <3>1. newTxn \in Txn
        BY <2>1, SettledTxn
      <3>2. /\ SameIntent(newTxn, txns[t])
            /\ newTxn.status = call.target /\ newTxn.captured = txns[t].captured
        BY <2>1 DEF Txn, SameIntent
      <3>3. newTxn.refunded = txns[t].refunded + call.amount
        BY <2>1 DEF Txn
      <3> QED
        BY <3>1, <3>2, <3>3
    <2>3. UpdateTxn(t, newTxn, call.amount) /\ Returns(c)
      BY <1>9 DEF RefundSettles
    <2> HIDE DEF newTxn
    <2>4. Settled(newTxn, txns[t], call)
      BY <2>1, <2>2 DEF Settled, SettledAs
    <2> QED
      BY <2>1, <1>5, <2>2, <2>3, <2>4
  <1>10. CASE RefundFails(c)
    BY <1>1, <1>10 DEF RefundFails, IdleCall
  <1> QED
    BY <1>2, <1>3, <1>4, <1>6, <1>7, <1>8, <1>9, <1>10 DEF Resume

(* No step takes back what a provider has answered for, and an accepted refund
   comes on top of it.                                                     *)
MoneyStays == \A i \in Intents : Repaid(ledger'[i]) >= Repaid(ledger[i])

AcceptedRefundOf(call, t) ==
  call.op = "refund" /\ call.verdict = "accepted" /\ call.txn = t

MoneyStep(c) ==
  /\ MoneyStays
  /\ \A t \in DOMAIN txns :
       AcceptedRefundOf(calls'[c], t) =>
         Repaid(ledger'[TxnIntent(t)]) >= Repaid(ledger[TxnIntent(t)]) + calls'[c].amount

LEMMA RepaidIsNat ==
  ASSUME TypeOK, NEW i \in Intents
  PROVE  Repaid(ledger[i]) \in Nat
  <1>1. ledger[i] \in IntentState
    BY DEF TypeOK, Intents
  <1> QED
    BY <1>1 DEF IntentState, Repaid

(* A step without an acceptance leaves the money alone. *)
LEMMA QuietMoneyStep ==
  ASSUME TypeOK, NEW c \in Calls, UNCHANGED ledger,
         calls'[c].op # "refund" \/ calls'[c].verdict # "accepted"
  PROVE  MoneyStep(c)
  BY RepaidIsNat DEF MoneyStep, MoneyStays, AcceptedRefundOf

LEMMA MoneyEffect ==
  ASSUME TypeOK, NEW c \in Calls, GoesToItsProvider(calls[c]),
         Start(c) \/ Accept(c) \/ Decline(c) \/ Resume(c)
  PROVE  MoneyStep(c)
  <1>1. CASE Start(c)
    <2>1. \A t, op, a, k, target :
            Sends(c, TxnRequest(op, t, a, k, target)) => calls'[c].verdict = "pending"
      BY DEF Sends, TxnRequest, TypeOK
    <2>2. \A p, r, a : Sends(c, [op |-> "intent", verdict |-> "pending", ref |-> r,
                               amount |-> a, conn |-> p, primary |-> p])
                       => calls'[c].verdict = "pending"
      BY DEF Sends, TypeOK
    <2>3. UNCHANGED ledger /\ calls'[c].verdict = "pending"
      BY <1>1, <2>1, <2>2 DEF Start, CreatePaymentIntent, CapturePayment, VoidPayment,
                              ProcessRefund
    <2> QED
      BY <2>3, QuietMoneyStep
  <1>2. CASE Accept(c)
    <2> DEFINE call == calls[c]
               i    == IntentOf(call)
    <2>1. ~Idle(c) /\ UNCHANGED txns /\ calls' = [calls EXCEPT ![c].verdict = "accepted"]
      BY <1>2 DEF Accept
    <2>2. /\ i \in Intents
          /\ \A j \in Intents : j # i => ledger'[j] = ledger[j]
          /\ Repaid(ledger'[i]) = IF call.op = "refund" THEN Repaid(ledger[i]) + call.amount
                                                        ELSE Repaid(ledger[i])
      BY <1>2, AcceptedEffect DEF Intents
    <2>3. call.op = "refund" =>
            /\ call.amount \in Nat /\ i = TxnIntent(call.txn)
            /\ calls'[c].txn = call.txn /\ calls'[c].amount = call.amount
      <3>1. call.op = "refund" => call \in RefundCall
        BY CallShape
      <3>2. calls'[c] = [call EXCEPT !.verdict = "accepted"]
        BY <2>1 DEF TypeOK
      <3> SUFFICES ASSUME call.op = "refund"
                   PROVE  /\ call.amount \in Nat /\ i = TxnIntent(call.txn)
                          /\ calls'[c].txn = call.txn /\ calls'[c].amount = call.amount
        OBVIOUS
      <3>3. i = TxnIntent(call.txn)
        BY DEF IntentOf, TxnIntent, GoesToItsProvider
      <3>4. call.amount \in Nat
        BY <3>1, PaymentAssumption DEF RefundCall, Amount
      <3>5. calls'[c].txn = call.txn /\ calls'[c].amount = call.amount
        BY <3>1, <3>2 DEF RefundCall
      <3> QED
        BY <3>3, <3>4, <3>5
    <2>4. calls'[c].op = call.op
      BY <2>1, VerdictIsGiven, SendsType DEF Verdict
    <2> HIDE DEF i
    <2> QED
      BY <2>2, <2>3, <2>4, RepaidIsNat DEF MoneyStep, MoneyStays, AcceptedRefundOf
  <1>3. CASE Decline(c)
    <2>1. UNCHANGED ledger /\ calls'[c].verdict = "declined"
      <3>1. ~Idle(c) /\ calls' = [calls EXCEPT ![c].verdict = "declined"] /\ UNCHANGED ledger
        BY <1>3 DEF Decline
      <3> QED
        BY <3>1, VerdictIsGiven, SendsType DEF Verdict
    <2> QED
      BY <2>1, QuietMoneyStep
  <1>4. CASE Resume(c)
    <2>1. UNCHANGED ledger
      BY <1>4 DEF Resume, IntentFailsOver, IntentFails, IntentAuthorized, CaptureSettles,
                  VoidSettles, CaptureOrVoidFails, RefundSettles, RefundFails
    <2>2. Returns(c) => calls'[c].op # "refund"
      BY SendsType DEF Returns, IdleCall
    <2>3. ASSUME NEW tenant \in TenantConfig, IntentFailsOver(c, tenant)
          PROVE  calls'[c].op # "refund"
      <3>1. PICK f \in Conn : Sends(c, [calls[c] EXCEPT !.op = "failover", !.conn = f,
                                                        !.verdict = "pending"])
        BY <2>3 DEF IntentFailsOver
      <3>2. calls[c] \in IntentCall
        BY <2>3, AnsweredCall DEF IntentFailsOver
      <3> DEFINE new == [calls[c] EXCEPT !.op = "failover", !.conn = f, !.verdict = "pending"]
      <3>3. new.op = "failover"
        BY <3>2 DEF IntentCall
      <3>4. calls'[c] = new
        BY <3>1 DEF Sends, TypeOK
      <3> HIDE DEF new
      <3> QED
        BY <3>3, <3>4
    <2>4. calls'[c].op # "refund"
      BY <1>4, <2>2, <2>3 DEF Resume, IntentFails, IntentAuthorized, CaptureSettles,
                  VoidSettles, CaptureOrVoidFails, RefundSettles, RefundFails
    <2> QED
      BY <2>1, <2>4, QuietMoneyStep
  <1> QED
    BY <1>1, <1>2, <1>3, <1>4

(* Any step of a service call. *)
ServiceStep(c) ==
  /\ OthersStay(c) /\ CallIsAimed(calls'[c]) /\ MoneyStep(c)
  /\ \/ /\ UNCHANGED txns
        /\ \/ calls'[c].op \in {"none", "intent", "failover"}
           \/ SameRequest(calls'[c], calls[c])
           \/ Checked(calls'[c])
     \/ /\ calls'[c] = IdleCall /\ Grows
        /\ LET new == txns'[Len(txns) + 1] IN new.captured = 0 /\ new.refunded = 0
     \/ /\ calls[c] \in TxnCall /\ calls[c].txn \in DOMAIN txns
        /\ calls'[c] = IdleCall /\ Rewrites(calls[c].txn)
        /\ Settled(txns'[calls[c].txn], txns[calls[c].txn], calls[c])

LEMMA NextIsServiceStep ==
  ASSUME TypeOK, \A c \in Calls : CallIsAimed(calls[c]) /\ GoesToItsProvider(calls[c]), Next
  PROVE  TypeOK' /\ \E c \in Calls : ServiceStep(c)
  <1>1. PICK c \in Calls : Start(c) \/ Accept(c) \/ Decline(c) \/ Resume(c)
    BY DEF Next
  <1>2. CASE Start(c)
    BY <1>2, StartEffect, StartType, MoneyEffect DEF ServiceStep
  <1>3. CASE Accept(c) \/ Decline(c)
    <2>1. /\ UNCHANGED txns /\ OthersStay(c)
          /\ SameRequest(calls'[c], calls[c])
      BY <1>3, VerdictEffect
    <2>2. CallIsAimed(calls'[c])
      BY <2>1 DEF CallIsAimed, SameRequest
    <2> QED
      BY <1>3, <2>1, <2>2, AcceptType, DeclineType, MoneyEffect DEF ServiceStep
  <1>4. CASE Resume(c)
    BY <1>4, ResumeEffect, ResumeType, MoneyEffect DEF ServiceStep
  <1> QED
    BY <1>1, <1>2, <1>3, <1>4

-----------------------------------------------------------------------------
(* What processing an event does.                                          *)

(* An event that names a status asks for one of four. *)
LEMMA TargetIsKind ==
  ASSUME NEW e \in EventIds, emitted[e] \in Event, TargetStatus(e) # "none"
  PROVE  /\ TargetStatus(e) = emitted[e].kind
         /\ emitted[e].kind \in {"captured", "failed", "refunded", "voided"}
         /\ emitted[e].kind \in Status
  BY DEF TargetStatus, Event, Kinds, Status

LEMMA ReconciledTxn ==
  ASSUME NEW txn \in Txn, NEW event \in Event,
         event.kind \in {"captured", "failed", "refunded", "voided"}
  PROVE  LET new == Reconciled(txn, event) IN
         /\ new \in Txn /\ SameIntent(new, txn) /\ new.status = event.kind
         /\ event.kind # "refunded" => new.refunded = txn.refunded
  <1>1. txn.amount \in Int /\ event.amount \in Int /\ txn.captured \in Int
    BY PaymentAssumption DEF Txn, Amount, Event
  <1>2. CASE event.kind = "captured"
    <2> DEFINE x == [txn EXCEPT !.status = "captured"]
               n == IF event.amount = NoAmount THEN txn.amount ELSE event.amount
    <2>1. /\ x \in Txn /\ SameIntent(x, txn) /\ x.status = "captured"
          /\ x.refunded = txn.refunded
          /\ n \in Int
      BY <1>1 DEF Txn, Status, SameIntent, NoAmount
    <2>2. Reconciled(txn, event) = [x EXCEPT !.captured = n]
      BY <1>2 DEF Reconciled, Txn
    <2> HIDE DEF x, n
    <2>3. LET new == [x EXCEPT !.captured = n] IN
          /\ new \in Txn /\ SameIntent(new, x) /\ new.status = x.status
          /\ new.refunded = x.refunded
      BY <2>1 DEF Txn, SameIntent
    <2> QED
      BY <1>2, <2>1, <2>2, <2>3 DEF SameIntent
  <1>3. CASE event.kind = "refunded"
    <2> DEFINE x == [txn EXCEPT !.status = "refunded"]
               n == IF txn.captured = 0 THEN txn.amount ELSE txn.captured
    <2>1. /\ x \in Txn /\ SameIntent(x, txn) /\ x.status = "refunded"
          /\ n \in Int
      BY <1>1 DEF Txn, Status, SameIntent
    <2>2. Reconciled(txn, event) = [x EXCEPT !.refunded = n]
      BY <1>3 DEF Reconciled, Txn
    <2> HIDE DEF x, n
    <2>3. LET new == [x EXCEPT !.refunded = n] IN
          new \in Txn /\ SameIntent(new, x) /\ new.status = x.status
      BY <2>1 DEF Txn, SameIntent
    <2> QED
      BY <1>3, <2>1, <2>2, <2>3 DEF SameIntent
  <1>4. CASE event.kind \in {"failed", "voided"}
    <2>1. Reconciled(txn, event) = [txn EXCEPT !.status = event.kind]
      BY <1>4 DEF Reconciled
    <2> QED
      BY <1>4, <2>1 DEF Txn, Status, SameIntent
  <1> QED
    BY <1>2, <1>3, <1>4

(* The event finds nothing to do at its transaction. *)
Unmoved(e, t) ==
  LET s == txns[t].status IN
  /\ UNCHANGED txns
  /\ inbox'[e] = IF s = emitted[e].kind THEN "processed" ELSE "skipped"
  /\ s = emitted[e].kind \/ IsTerminal(s) \/ IsStateAhead(s, emitted[e].kind)

(* The event is applied to its transaction. *)
MovedOn(e, t) ==
  LET new == txns'[t]  old == txns[t] IN
  /\ Rewrites(t)
  /\ inbox'[e] = "processed"
  /\ new.status = emitted[e].kind
  /\ ~IsTerminal(old.status) /\ IsValidTransition(old.status, new.status)
  /\ emitted[e].kind # "refunded" => new.refunded = old.refunded

(* An event concerns at most one transaction. *)
LEMMA FirstIsUnique ==
  ASSUME txns \in Seq(Txn), NEW e, NEW t \in DOMAIN txns, NEW u \in DOMAIN txns,
         IsFirst(e, t), IsFirst(e, u)
  PROVE  t = u
  <1>1. t \in Nat /\ t >= 1 /\ u \in Nat /\ u >= 1
    OBVIOUS
  <1> QED
    BY <1>1 DEF IsFirst

LEMMA ProcessEffect ==
  ASSUME HookTypeOK, NEW e \in EventIds, emitted[e] \in Event, ProcessEvent(e)
  PROVE  /\ txns' \in Seq(Txn) /\ audit' \in Seq(AuditTotals) /\ Len(audit') = Len(txns')
         /\ DOMAIN txns' = DOMAIN txns
         /\ inbox' \in [EventIds -> EventStatus \cup {NotStored}]
         /\ inbox'[e] \in {"processed", "skipped", "failed"}
         /\ \A f \in EventIds \ {e} : inbox'[f] = inbox[f]
         /\ \/ /\ UNCHANGED txns /\ inbox'[e] = "failed"
               /\ \A t \in DOMAIN txns : IsFirst(e, t) => txns[t].status # emitted[e].kind
            \/ UNCHANGED txns /\ inbox'[e] = "skipped" /\ TargetStatus(e) = "none"
            \/ /\ TargetStatus(e) # "none"
               /\ \E t \in DOMAIN txns : IsFirst(e, t) /\ (Unmoved(e, t) \/ MovedOn(e, t))
  <1>1. /\ TypeOK /\ txns \in Seq(Txn) /\ audit \in Seq(AuditTotals)
        /\ Len(audit) = Len(txns)
        /\ inbox \in [EventIds -> EventStatus \cup {NotStored}]
    BY DEF HookTypeOK, TypeOK
  <1>2. ASSUME NEW s \in {"processed", "skipped", "failed"},
               inbox' = [inbox EXCEPT ![e] = s]
        PROVE  /\ inbox' \in [EventIds -> EventStatus \cup {NotStored}]
               /\ inbox'[e] = s
               /\ \A f \in EventIds \ {e} : inbox'[f] = inbox[f]
    BY <1>1, <1>2 DEF EventStatus
  <1>3. CASE TargetStatus(e) = "none" \/ ~TxnKnown(e)
    <2>1. PICK s \in {"skipped", "failed"} :
            /\ inbox' = [inbox EXCEPT ![e] = s] /\ UNCHANGED <<txns, audit>>
            /\ s = "skipped" => TargetStatus(e) = "none"
            /\ s = "failed" => ~TxnKnown(e)
      BY <1>3 DEF ProcessEvent, IsFirst, TxnKnown
    <2>1a. ~TxnKnown(e) => \A t \in DOMAIN txns : ~IsFirst(e, t)
      BY DEF TxnKnown, IsFirst
    <2>2. s \in {"processed", "skipped", "failed"}
      OBVIOUS
    <2> QED
      BY <1>1, <1>2, <2>1, <2>1a, <2>2
  <1>4. CASE TargetStatus(e) # "none" /\ TxnKnown(e)
    <2>1. PICK t \in DOMAIN txns :
            LET outcome == Reconciliation(TargetStatus(e), txns[t].status) IN
            /\ IsFirst(e, t)
            /\ IF outcome = "applied"
               THEN /\ UpdateTxn(t, Reconciled(txns[t], emitted[e]),
                                 IF emitted[e].kind = "refunded"
                                 THEN emitted[e].amount ELSE 0)
                    /\ inbox' = [inbox EXCEPT ![e] = "processed"]
               ELSE /\ inbox' = [inbox EXCEPT ![e] = outcome]
                    /\ UNCHANGED <<txns, audit>>
      BY <1>4 DEF ProcessEvent
    <2> DEFINE target  == emitted[e].kind
               s       == txns[t].status
               outcome == Reconciliation(target, s)
               new     == Reconciled(txns[t], emitted[e])
               n       == IF emitted[e].kind = "refunded" THEN emitted[e].amount ELSE 0
    <2>2. /\ TargetStatus(e) = target /\ target \in {"captured", "failed", "refunded", "voided"}
          /\ txns[t] \in Txn
      BY <1>1, <1>4, TargetIsKind
    <2>3. CASE outcome = "applied"
      <3>1. UpdateTxn(t, new, n) /\ inbox' = [inbox EXCEPT ![e] = "processed"]
        BY <2>1, <2>2, <2>3
      <3>2. n \in Nat
        BY DEF Event
      <3>3. /\ new \in Txn /\ SameIntent(new, txns[t]) /\ new.status = target
            /\ target # "refunded" => new.refunded = txns[t].refunded
        BY <2>2, ReconciledTxn
      <3>4. ~IsTerminal(s) /\ IsValidTransition(s, target)
        BY <2>3 DEF Reconciliation
      <3> HIDE DEF new, n
      <3>5. /\ txns' \in Seq(Txn) /\ audit' \in Seq(AuditTotals)
            /\ Len(audit') = Len(txns') /\ DOMAIN txns' = DOMAIN txns /\ txns'[t] = new
            /\ \A u \in DOMAIN txns : u # t => txns'[u] = txns[u]
        BY <1>1, <3>1, <3>2, <3>3, UpdateType
      <3>6. Rewrites(t)
        BY <3>3, <3>5 DEF Rewrites
      <3>7. inbox'[e] = "processed"
        BY <1>2, <3>1
      <3>8. MovedOn(e, t)
        BY <3>3, <3>4, <3>5, <3>6, <3>7 DEF MovedOn
      <3> QED
        BY <1>2, <1>4, <2>1, <3>1, <3>5, <3>8
    <2>4. CASE outcome # "applied"
      <3>1. inbox' = [inbox EXCEPT ![e] = outcome] /\ UNCHANGED <<txns, audit>>
        BY <2>1, <2>2, <2>4
      <3>2. /\ outcome \in {"processed", "skipped", "failed"}
            /\ outcome # "failed" =>
                 /\ outcome = IF s = target THEN "processed" ELSE "skipped"
                 /\ s = target \/ IsTerminal(s) \/ IsStateAhead(s, target)
        BY <2>4 DEF Reconciliation
      <3> HIDE DEF outcome
      <3>3. /\ inbox' \in [EventIds -> EventStatus \cup {NotStored}]
            /\ inbox'[e] = outcome
            /\ \A f \in EventIds \ {e} : inbox'[f] = inbox[f]
        BY <1>2, <3>1, <3>2
      <3>4. outcome # "failed" => Unmoved(e, t)
        BY <3>1, <3>2, <3>3 DEF Unmoved
      <3>5. outcome = "failed" => s # target
        BY DEF Reconciliation, outcome
      <3>6. \A u \in DOMAIN txns : IsFirst(e, u) => u = t
        BY <1>1, <2>1, FirstIsUnique
      <3> QED
        BY <1>1, <1>4, <2>1, <3>1, <3>2, <3>3, <3>4, <3>5, <3>6
    <2> QED
      BY <2>3, <2>4
  <1> QED
    BY <1>3, <1>4

-----------------------------------------------------------------------------
(* Type correctness.                                                       *)

(* Announced events are events, stored ones were announced and have been
   processed to some end; the calls in flight are aimed and go where they
   belong; no transaction is left in its first status.                     *)
HookInv ==
  /\ \A e \in EventIds : Stored(e) =>
       emitted[e] \in Event /\ inbox[e] \in {"processed", "skipped", "failed"}
  /\ \A e \in EventIds : inbox[e] = "processed" => TargetStatus(e) # "none"
  /\ \A c \in Calls : CallIsAimed(calls[c]) /\ GoesToItsProvider(calls[c])
  /\ \A t \in DOMAIN txns : txns[t].status # "created"

LEMMA NotEmittedIsNoEvent == NotEmitted \notin Event
  BY DEF NotEmitted, Event, Kinds

(* A webhook or a replay. *)
Processes(e) ==
  /\ emitted[e] \in Event /\ ProcessEvent(e) /\ MayArrive
  /\ UNCHANGED <<failoverLog, calls, ledger, refundUses, emitted, direct>>

LEMMA DeliveryProcesses ==
  ASSUME HookTypeOK, HookInv, NEW e \in EventIds, HandleWebhook(e) \/ ReplayEvent(e)
  PROVE  Processes(e)
  BY DEF HookTypeOK, HookInv, HandleWebhook, ReplayEvent, Processes

LEMMA ProcessKeepsType ==
  ASSUME HookTypeOK, NEW e \in EventIds, Processes(e)
  PROVE  HookTypeOK'
  <1>1. ProcessEvent(e) /\ emitted[e] \in Event
        /\ UNCHANGED <<failoverLog, calls, ledger, refundUses, emitted, direct>>
    BY DEF Processes
  <1>2. /\ txns' \in Seq(Txn) /\ audit' \in Seq(AuditTotals) /\ Len(audit') = Len(txns')
        /\ DOMAIN txns' = DOMAIN txns
        /\ inbox' \in [EventIds -> EventStatus \cup {NotStored}]
    BY <1>1, ProcessEffect
  <1>3. TypeOK'
    BY <1>1, <1>2 DEF HookTypeOK, TypeOK
  <1> QED
    BY <1>1, <1>2, <1>3 DEF HookTypeOK

LEMMA EmitKeepsType ==
  ASSUME HookTypeOK, NEW e \in EventIds, NEW i \in Conn \X Refs, NEW kind \in Kinds,
         NEW a \in {NoAmount, ledger[i].captured}, Emit(e, i, kind, a)
  PROVE  HookTypeOK' /\ \A f \in EventIds \ {e} : emitted'[f] = emitted[f]
  <1>1. a \in Nat
    BY DEF NoAmount, HookTypeOK, TypeOK, IntentState
  <1> DEFINE event == [kind |-> kind, intent |-> i, amount |-> a]
  <1>2. event \in Event
    BY <1>1 DEF Event
  <1>3. emitted' = [emitted EXCEPT ![e] = event] /\ UNCHANGED <<vars, inbox, direct>>
    BY DEF Emit
  <1> HIDE DEF event
  <1>4. /\ emitted' \in [EventIds -> Event \cup {NotEmitted}]
        /\ \A f \in EventIds \ {e} : emitted'[f] = emitted[f]
    BY <1>2, <1>3 DEF HookTypeOK
  <1>5. TypeOK'
    BY <1>3 DEF HookTypeOK, TypeOK, vars
  <1> QED
    BY <1>3, <1>4, <1>5 DEF HookTypeOK

(* An action at the provider changes its ledger only. *)
LEMMA DirectEffect ==
  ASSUME HookTypeOK, NEW i \in Conn \X Refs, NEW a \in Amount,
         CaptureDirectly(i, a) \/ VoidDirectly(i) \/ RefundDirectly(i, a)
  PROVE  /\ HookTypeOK' /\ MoneyStays
         /\ UNCHANGED <<txns, audit, failoverLog, calls, refundUses, emitted, inbox>>
  <1>1. ledger \in [Conn \X Refs -> IntentState] /\ a \in Nat
    BY PaymentAssumption DEF HookTypeOK, TypeOK, Amount
  <1>2. PICK s \in IntentState : ActDirectly(i, s) /\ Repaid(s) >= Repaid(ledger[i])
    <2>1. CASE CaptureDirectly(i, a)
      <3>1. /\ [ledger[i] EXCEPT !.captured = a] \in IntentState
            /\ Repaid([ledger[i] EXCEPT !.captured = a]) >= Repaid(ledger[i])
        BY <1>1 DEF IntentState, Repaid
      <3> QED
        BY <2>1, <3>1 DEF CaptureDirectly
    <2>2. CASE VoidDirectly(i)
      <3> DEFINE new == [ledger[i] EXCEPT !.voided = TRUE]
      <3>0. /\ new \in IntentState
            /\ new.refunded = ledger[i].refunded /\ new.repeated = ledger[i].repeated
        BY <1>1 DEF IntentState
      <3> HIDE DEF new
      <3>1. new \in IntentState /\ Repaid(new) >= Repaid(ledger[i])
        BY <1>1, <3>0 DEF IntentState, Repaid
      <3> USE DEF new
      <3> QED
        BY <2>2, <3>1 DEF VoidDirectly
    <2>3. CASE RefundDirectly(i, a)
      <3>1. /\ [ledger[i] EXCEPT !.refunded = @ + a] \in IntentState
            /\ Repaid([ledger[i] EXCEPT !.refunded = @ + a]) >= Repaid(ledger[i])
        BY <1>1 DEF IntentState, Repaid
      <3> QED
        BY <2>3, <3>1 DEF RefundDirectly
    <2> QED
      BY <2>1, <2>2, <2>3
  <1>3. ledger' \in [Conn \X Refs -> IntentState] /\ direct' \in Nat
    BY <1>1, <1>2 DEF ActDirectly, HookTypeOK
  <1>3a. MoneyStays
    <2>1. ledger' = [ledger EXCEPT ![i] = s]
      BY <1>2 DEF ActDirectly
    <2> QED
      BY <1>1, <1>2, <2>1, RepaidIsNat DEF MoneyStays, HookTypeOK, Intents
  <1>4. UNCHANGED <<txns, audit, failoverLog, calls, refundUses, emitted, inbox>>
    BY <1>2 DEF ActDirectly
  <1>5. TypeOK'
    BY <1>3, <1>4 DEF HookTypeOK, TypeOK
  <1> QED
    BY <1>3, <1>3a, <1>4, <1>5 DEF HookTypeOK

(* Service calls keep the invariant: the webhooks' own variables stay. *)
LEMMA ServiceKeepsHookInv ==
  ASSUME TypeOK, HookInv, NEW c \in Calls, ServiceStep(c), UNCHANGED hookVars
  PROVE  HookInv'
  <1>1. \A d \in Calls : CallIsAimed(calls'[d])
    BY DEF ServiceStep, OthersStay, HookInv
  <1>2. \A d \in Calls : CallIsAimed(calls[d])'
    BY <1>1 DEF CallIsAimed
  <1>2a. ASSUME NEW d \in Calls
         PROVE  GoesToItsProvider(calls[d])'
    <2>1. \A t \in DOMAIN txns : t \in DOMAIN txns' /\ txns'[t].conn = txns[t].conn
      BY DEF ServiceStep, Grows, Rewrites, SameIntent
    <2>2. CASE d # c
      BY <2>1, <2>2 DEF ServiceStep, OthersStay, HookInv, GoesToItsProvider
    <2>3. CASE d = c
      <3>1. CASE calls'[c].op \in {"none", "intent", "failover"}
        BY <2>3, <3>1 DEF GoesToItsProvider
      <3>2. CASE SameRequest(calls'[c], calls[c])
        BY <2>1, <2>3, <3>2 DEF HookInv, GoesToItsProvider, SameRequest
      <3>3. CASE Checked(calls'[c])
        BY <2>1, <2>3, <3>3 DEF GoesToItsProvider, Checked
      <3>4. CASE calls'[c] = IdleCall
        BY <3>1, <3>4 DEF IdleCall
      <3> QED
        BY <3>1, <3>2, <3>3, <3>4 DEF ServiceStep
    <2> QED
      BY <2>2, <2>3
  <1>3. \A t \in DOMAIN txns' : txns'[t].status # "created"
    <2>1. CASE UNCHANGED txns
      BY <2>1 DEF HookInv
    <2>2. CASE Grows
      BY <2>2 DEF HookInv, Grows
    <2>3. ASSUME calls[c] \in TxnCall, Rewrites(calls[c].txn),
                 Settled(txns'[calls[c].txn], txns[calls[c].txn], calls[c])
          PROVE  \A t \in DOMAIN txns' : txns'[t].status # "created"
      BY <2>3 DEF HookInv, Rewrites, Settled, SettledAs, CallIsAimed
    <2> QED
      BY <2>1, <2>2, <2>3 DEF ServiceStep
  <1>4. UNCHANGED <<emitted, inbox>>
    BY DEF hookVars
  <1> QED
    BY <1>2, <1>2a, <1>3, <1>4 DEF HookInv, Stored, TargetStatus

LEMMA ProcessKeepsHookInv ==
  ASSUME HookTypeOK, HookInv, NEW e \in EventIds, Processes(e)
  PROVE  HookInv'
  <1>1. ProcessEvent(e) /\ emitted[e] \in Event /\ UNCHANGED <<calls, emitted>>
    BY DEF Processes
  <1>2. /\ DOMAIN txns' = DOMAIN txns
        /\ inbox'[e] \in {"processed", "skipped", "failed"}
        /\ \A f \in EventIds \ {e} : inbox'[f] = inbox[f]
        /\ \/ UNCHANGED txns /\ inbox'[e] # "processed"
           \/ /\ TargetStatus(e) # "none"
              /\ \E t \in DOMAIN txns : Unmoved(e, t) \/ MovedOn(e, t)
    BY <1>1, ProcessEffect
  <1>3. \A t \in DOMAIN txns' : txns'[t].status # "created"
    <2>1. CASE UNCHANGED txns
      BY <2>1 DEF HookInv
    <2>2. ASSUME TargetStatus(e) # "none", NEW t \in DOMAIN txns, MovedOn(e, t)
          PROVE  \A u \in DOMAIN txns' : txns'[u].status # "created"
      BY <1>1, <2>2, TargetIsKind DEF HookInv, MovedOn, Rewrites
    <2> QED
      BY <1>2, <2>1, <2>2 DEF Unmoved
  <1>4. \A f \in EventIds : (TargetStatus(f) # "none")' <=> TargetStatus(f) # "none"
    BY <1>1 DEF TargetStatus
  <1>5. \A f \in EventIds : inbox'[f] = "processed" => TargetStatus(f) # "none"
    BY <1>2 DEF HookInv
  <1>6. \A f \in EventIds : Stored(f)' =>
          emitted'[f] \in Event /\ inbox'[f] \in {"processed", "skipped", "failed"}
    BY <1>1, <1>2 DEF HookInv, Stored
  <1>7. \A c \in Calls : GoesToItsProvider(calls[c])'
    <2>1. \A t \in DOMAIN txns : txns'[t].conn = txns[t].conn
      BY <1>2 DEF Unmoved, MovedOn, Rewrites, SameIntent
    <2> QED
      BY <1>1, <1>2, <2>1 DEF HookInv, GoesToItsProvider
  <1> QED
    BY <1>1, <1>3, <1>4, <1>5, <1>6, <1>7 DEF HookInv, CallIsAimed

LEMMA EmitKeepsHookInv ==
  ASSUME HookTypeOK, HookInv, NEW e \in EventIds, NEW i \in Conn \X Refs,
         NEW kind \in Kinds, NEW a \in {NoAmount, ledger[i].captured}, Emit(e, i, kind, a)
  PROVE  /\ HookInv' /\ UNCHANGED <<txns, calls, inbox>>
         /\ \A f \in EventIds : Stored(f) => emitted'[f] = emitted[f]
  <1>1. UNCHANGED <<txns, calls, inbox>> /\ emitted[e] = NotEmitted
    BY DEF Emit, vars
  <1>2. \A f \in EventIds : Stored(f) => emitted'[f] = emitted[f]
    BY <1>1, EmitKeepsType, NotEmittedIsNoEvent DEF HookInv
  <1>3. \A f \in EventIds : inbox[f] = "processed" => Stored(f)
    BY DEF Stored, NotStored
  <1> QED
    BY <1>1, <1>2, <1>3 DEF HookInv, Stored, TargetStatus, CallIsAimed, GoesToItsProvider

(* Records, events and their statuses have their types, stored events have
   been processed to some end, and no transaction is ever left in "created",
   for webhooks that arrive at any time.                                   *)
THEOREM HookTypeCorrect == HookSpec => [](HookTypeOK /\ HookInv)
  <1>1. HookInit => HookTypeOK /\ HookInv
    <2>1. Init => TypeOK
      BY DEF Init, TypeOK, IntentState, IdleCall, IntentCall, TxnCall, HoldCall, RefundCall
    <2>2. HookInit => HookTypeOK
      BY <2>1 DEF HookInit, HookTypeOK
    <2>3. HookInit => HookInv
      <3> SUFFICES ASSUME HookInit
                   PROVE  HookInv
        OBVIOUS
      <3>1. \A c \in Calls : CallIsAimed(calls[c]) /\ GoesToItsProvider(calls[c])
        BY DEF HookInit, Init, CallIsAimed, GoesToItsProvider, IdleCall
      <3>2. DOMAIN txns = {}
        BY DEF HookInit, Init
      <3>3. \A e \in EventIds : inbox[e] = NotStored
        BY DEF HookInit
      <3> QED
        BY <3>1, <3>2, <3>3 DEF HookInv, Stored, NotStored
    <2> QED
      BY <2>2, <2>3
  <1>2. HookTypeOK /\ HookInv /\ [HookNext]_allVars => (HookTypeOK /\ HookInv)'
    <2> SUFFICES ASSUME HookTypeOK, HookInv, [HookNext]_allVars
                 PROVE  HookTypeOK' /\ HookInv'
      OBVIOUS
    <2>0. TypeOK /\ \A c \in Calls : CallIsAimed(calls[c]) /\ GoesToItsProvider(calls[c])
      BY DEF HookTypeOK, HookInv
    <2>1. CASE UNCHANGED allVars
      BY <2>1 DEF allVars, vars, hookVars, HookTypeOK, TypeOK, HookInv, Stored,
                  TargetStatus, CallIsAimed, GoesToItsProvider
    <2>2. CASE Next /\ UNCHANGED hookVars
      <3>1. TypeOK' /\ HookInv'
        BY <2>0, <2>2, NextIsServiceStep, ServiceKeepsHookInv
      <3> QED
        BY <2>2, <3>1 DEF HookTypeOK, hookVars
    <2>3. ASSUME NEW e \in EventIds, NEW i \in Conn \X Refs, NEW kind \in Kinds,
                 NEW a \in {NoAmount, ledger[i].captured}, Emit(e, i, kind, a)
          PROVE  HookTypeOK' /\ HookInv'
      BY <2>3, EmitKeepsType, EmitKeepsHookInv
    <2>4. ASSUME NEW i \in Conn \X Refs, NEW a \in Amount,
                 CaptureDirectly(i, a) \/ VoidDirectly(i) \/ RefundDirectly(i, a)
          PROVE  HookTypeOK' /\ HookInv'
      <3>1. /\ HookTypeOK'
            /\ UNCHANGED <<txns, audit, failoverLog, calls, refundUses, emitted, inbox>>
        BY <2>4, DirectEffect
      <3> QED
        BY <3>1 DEF HookInv, Stored, TargetStatus, CallIsAimed, GoesToItsProvider
    <2>5. ASSUME NEW e \in EventIds, HandleWebhook(e) \/ ReplayEvent(e)
          PROVE  HookTypeOK' /\ HookInv'
      BY <2>5, DeliveryProcesses, ProcessKeepsType, ProcessKeepsHookInv
    <2> QED
      BY <2>1, <2>2, <2>3, <2>4, <2>5 DEF HookNext, HookStep
  <1> QED
    BY <1>1, <1>2, PTL DEF HookSpec

-----------------------------------------------------------------------------
(* Webhooks between service calls.                                         *)

Done(e) == inbox[e] \in {"processed", "skipped"} /\ TargetStatus(e) # "none"

Busy(t, ops) == \E c \in Calls : calls[c].op \in ops /\ calls[c].txn = t

(* The transaction is past what an event of the kind announces, for good: no
   call in flight will take it back.                                       *)
IsPast(kind, t) ==
  IF kind = "captured"
  THEN txns[t].status # "authorized" /\ ~Busy(t, {"capture", "void"})
  ELSE IsTerminal(txns[t].status) /\ ~Busy(t, {"capture", "void", "refund"})

DoneIsPast ==
  \A e \in EventIds : Done(e) =>
    \E t \in DOMAIN txns : IsFirst(e, t) /\ IsPast(emitted[e].kind, t)

(* Which transaction an event concerns never changes. *)
LEMMA SameFirst ==
  ASSUME txns \in Seq(Txn), NEW e, NEW t \in DOMAIN txns, emitted'[e] = emitted[e],
         \A u \in DOMAIN txns : SameIntent(txns'[u], txns[u])
  PROVE  IsFirst(e, t)' <=> IsFirst(e, t)
  <1>1. \A u \in DOMAIN txns : Concerns(e, u)' <=> Concerns(e, u)
    BY DEF Concerns, SameIntent
  <1>2. \A u \in 1..t - 1 : u \in DOMAIN txns
    OBVIOUS
  <1> QED
    BY <1>1, <1>2 DEF IsFirst

(* A done event names a status. *)
LEMMA DoneKind ==
  ASSUME HookInv, NEW e \in EventIds, Done(e)
  PROVE  /\ Stored(e) /\ emitted[e] \in Event
         /\ TargetStatus(e) = emitted[e].kind
         /\ emitted[e].kind \in {"captured", "failed", "refunded", "voided"}
  <1>1. Stored(e) /\ emitted[e] \in Event
    BY DEF Done, HookInv, Stored, NotStored
  <1> QED
    BY <1>1, TargetIsKind DEF Done

(* A transaction that is past something stays past it. *)
LEMMA ServiceStaysPast ==
  ASSUME TypeOK, HookInv, NEW c \in Calls, ServiceStep(c),
         NEW kind, NEW t \in DOMAIN txns, IsPast(kind, t)
  PROVE  /\ IsPast(kind, t)' /\ t \in DOMAIN txns'
         /\ \A u \in DOMAIN txns : SameIntent(txns'[u], txns[u])
  <1> DEFINE ops == IF kind = "captured" THEN {"capture", "void"}
                                         ELSE {"capture", "void", "refund"}
             s   == txns[t].status
  <1>1. IsPast(kind, t) <=>
          (IF kind = "captured" THEN s # "authorized" ELSE IsTerminal(s)) /\ ~Busy(t, ops)
    BY DEF IsPast
  <1>2. \A d \in Calls : ~(calls[d].op \in ops /\ calls[d].txn = t)
    BY <1>1 DEF Busy
  <1>3. IsPast(kind, t)' <=>
          /\ IF kind = "captured" THEN txns'[t].status # "authorized"
                                  ELSE IsTerminal(txns'[t].status)
          /\ ~Busy(t, ops)'
    BY DEF IsPast
  <1>4. ASSUME ~(calls'[c].op \in ops /\ calls'[c].txn = t)
        PROVE  ~Busy(t, ops)'
    BY <1>2, <1>4 DEF Busy, ServiceStep, OthersStay
  <1>5. CASE UNCHANGED txns
    <2>1. s \in Status
      BY TxnAt DEF Txn
    <2>2. ~(calls'[c].op \in ops /\ calls'[c].txn = t)
      <3>1. CASE calls'[c].op \in {"none", "intent", "failover"} \/ SameRequest(calls'[c], calls[c])
        BY <1>2, <3>1 DEF SameRequest
      <3>2. CASE Checked(calls'[c])
        BY <1>1, <3>2 DEF Checked, IsTerminal, Refundable
      <3>3. CASE calls'[c] = IdleCall
        BY <3>3 DEF IdleCall
      <3> QED
        BY <3>1, <3>2, <3>3 DEF ServiceStep
    <2> QED
      BY <1>1, <1>3, <1>4, <1>5, <2>2 DEF SameIntent
  <1>6. CASE Grows /\ calls'[c] = IdleCall
    BY <1>1, <1>3, <1>4, <1>6 DEF Grows, SameIntent, IdleCall
  <1>7. ASSUME calls[c] \in TxnCall, calls[c].txn \in DOMAIN txns, calls'[c] = IdleCall,
               Rewrites(calls[c].txn),
               Settled(txns'[calls[c].txn], txns[calls[c].txn], calls[c])
        PROVE  /\ IsPast(kind, t)' /\ t \in DOMAIN txns'
               /\ \A u \in DOMAIN txns : SameIntent(txns'[u], txns[u])
    <2>1. \A u \in DOMAIN txns : SameIntent(txns'[u], txns[u])
      BY <1>7 DEF Rewrites, SameIntent
    <2>2. ~Busy(t, ops)' /\ t \in DOMAIN txns'
      BY <1>4, <1>7 DEF IdleCall, Rewrites
    <2>3. CASE t # calls[c].txn
      BY <1>1, <1>3, <1>7, <2>1, <2>2, <2>3 DEF Rewrites
    <2>4. CASE t = calls[c].txn
      <3>1. kind = "captured" /\ calls[c].op = "refund"
        BY <1>2, <1>7, <2>4 DEF TxnCall, HoldCall, RefundCall
      <3>2. txns'[t].status \in {"refunded", "partially_refunded"}
        BY <1>7, <2>4, <3>1 DEF Settled, SettledAs, HookInv, CallIsAimed
      <3> QED
        BY <1>3, <2>1, <2>2, <3>1, <3>2
    <2> QED
      BY <2>3, <2>4
  <1> QED
    BY <1>5, <1>6, <1>7 DEF ServiceStep

(* An event that moves or finds a transaction leaves it past what it said. *)
LEMMA ProcessedIsPast ==
  ASSUME HookTypeOK, NEW e \in EventIds, Processes(e), TargetStatus(e) # "none",
         \A c \in Calls : Idle(c),
         NEW t \in DOMAIN txns, Unmoved(e, t) \/ MovedOn(e, t)
  PROVE  /\ IsPast(emitted[e].kind, t)'
         /\ \A kind \in Kinds, u \in DOMAIN txns : IsPast(kind, u) => IsPast(kind, u)'
         /\ \A u \in DOMAIN txns : SameIntent(txns'[u], txns[u])
  <1>1. emitted[e] \in Event /\ UNCHANGED <<calls, emitted>> /\ TypeOK
    BY DEF Processes, HookTypeOK
  <1>2. emitted[e].kind \in {"captured", "failed", "refunded", "voided"}
    BY <1>1, TargetIsKind
  <1>3. \A u, ops : "none" \notin ops => ~Busy(u, ops) /\ ~Busy(u, ops)'
    BY <1>1 DEF Busy, Idle, IdleCall
  <1>4. \A kind, u : /\ IsPast(kind, u) => (IF kind = "captured" THEN txns[u].status # "authorized"
                                           ELSE IsTerminal(txns[u].status))
                     /\ (IF kind = "captured" THEN txns'[u].status # "authorized"
                         ELSE IsTerminal(txns'[u].status)) => IsPast(kind, u)'
    BY <1>3 DEF IsPast
  <1>5. txns[t].status \in Status
    BY <1>1, TxnAt DEF Txn
  <1>6. CASE Unmoved(e, t)
    <2>1. UNCHANGED txns
      BY <1>6 DEF Unmoved
    <2>2. IF emitted[e].kind = "captured" THEN txns'[t].status # "authorized"
                                          ELSE IsTerminal(txns'[t].status)
      BY <1>2, <1>5, <1>6, <2>1, StatusFacts DEF Unmoved, IsTerminal
    <2>3. IsPast(emitted[e].kind, t)'
      BY <1>1, <1>4, <2>2
    <2> QED
      BY <1>4, <2>1, <2>3 DEF SameIntent
  <1>7. CASE MovedOn(e, t)
    <2>1. /\ txns'[t].status = emitted[e].kind /\ ~IsTerminal(txns[t].status)
          /\ \A u \in DOMAIN txns : u # t => txns'[u] = txns[u]
          /\ SameIntent(txns'[t], txns[t])
      BY <1>7 DEF MovedOn, Rewrites
    <2>2. IsPast(emitted[e].kind, t)'
      BY <1>1, <1>2, <1>4, <2>1 DEF IsTerminal
    <2>3. ASSUME NEW kind \in Kinds, NEW u \in DOMAIN txns, IsPast(kind, u)
          PROVE  IsPast(kind, u)'
      BY <1>2, <1>4, <2>1, <2>3
    <2> QED
      BY <2>1, <2>2, <2>3 DEF SameIntent
  <1> QED
    BY <1>6, <1>7

LEMMA ProcessKeepsPast ==
  ASSUME HookTypeOK, HookInv, DoneIsPast, ~Overlap, NEW e \in EventIds, Processes(e)
  PROVE  DoneIsPast'
  <1>1. /\ ProcessEvent(e) /\ emitted[e] \in Event /\ UNCHANGED <<calls, emitted>>
        /\ \A c \in Calls : Idle(c)
        /\ txns \in Seq(Txn)
    BY DEF Processes, MayArrive, HookTypeOK, TypeOK
  <1>2. /\ DOMAIN txns' = DOMAIN txns
        /\ \A f \in EventIds \ {e} : inbox'[f] = inbox[f]
        /\ \/ UNCHANGED txns /\ (inbox'[e] = "failed" \/ TargetStatus(e) = "none")
           \/ /\ TargetStatus(e) # "none"
              /\ \E t \in DOMAIN txns : IsFirst(e, t) /\ (Unmoved(e, t) \/ MovedOn(e, t))
    BY <1>1, ProcessEffect
  <1>3. \A f : TargetStatus(f)' = TargetStatus(f)
    BY <1>1 DEF TargetStatus
  <1>4. CASE UNCHANGED txns /\ (inbox'[e] = "failed" \/ TargetStatus(e) = "none")
    <2>1. \A f \in EventIds : Done(f)' => Done(f)
      BY <1>2, <1>3, <1>4 DEF Done
    <2>2. \A f, t : (IsFirst(f, t) => IsFirst(f, t)')
      BY <1>1, <1>4 DEF IsFirst, Concerns
    <2>3. \A kind, t : IsPast(kind, t) => IsPast(kind, t)'
      BY <1>1, <1>4 DEF IsPast, Busy
    <2> QED
      BY <1>1, <1>4, <2>1, <2>2, <2>3 DEF DoneIsPast
  <1>5. ASSUME TargetStatus(e) # "none", NEW t \in DOMAIN txns, IsFirst(e, t),
               Unmoved(e, t) \/ MovedOn(e, t)
        PROVE  DoneIsPast'
    <2>1. /\ IsPast(emitted[e].kind, t)'
          /\ \A kind \in Kinds, u \in DOMAIN txns : IsPast(kind, u) => IsPast(kind, u)'
          /\ \A u \in DOMAIN txns : SameIntent(txns'[u], txns[u])
      BY <1>1, <1>5, ProcessedIsPast
    <2>2. \A f \in EventIds, u \in DOMAIN txns : IsFirst(f, u) => IsFirst(f, u)'
      BY <1>1, <2>1, SameFirst
    <2>3. ASSUME NEW f \in EventIds, Done(f)'
          PROVE  \E u \in DOMAIN txns' : IsFirst(f, u)' /\ IsPast(emitted[f].kind, u)'
      <3>1. CASE f = e
        BY <1>1, <1>2, <1>5, <2>1, <2>2, <3>1
      <3>2. CASE f # e
        <4>1. Done(f)
          BY <1>2, <1>3, <2>3, <3>2 DEF Done
        <4>2. PICK u \in DOMAIN txns : IsFirst(f, u) /\ IsPast(emitted[f].kind, u)
          BY <4>1 DEF DoneIsPast
        <4>3. emitted[f].kind \in Kinds
          BY <4>1, DoneKind DEF Kinds
        <4> QED
          BY <1>1, <1>2, <2>1, <2>2, <4>2, <4>3
      <3> QED
        BY <3>1, <3>2
    <2> QED
      BY <2>3 DEF DoneIsPast
  <1> QED
    BY <1>2, <1>4, <1>5

(* When webhooks arrive between service calls, what a done event announced is
   behind its transaction for good.                                        *)
THEOREM AlwaysPast == Overlap = FALSE => (HookSpec => []DoneIsPast)
  <1> SUFFICES ASSUME Overlap = FALSE
               PROVE  HookSpec => []DoneIsPast
    OBVIOUS
  <1>1. HookInit => DoneIsPast
    BY DEF HookInit, DoneIsPast, Done, NotStored
  <1>2. HookTypeOK /\ HookInv /\ DoneIsPast /\ [HookNext]_allVars => DoneIsPast'
    <2> SUFFICES ASSUME HookTypeOK, HookInv, DoneIsPast, [HookNext]_allVars
                 PROVE  DoneIsPast'
      OBVIOUS
    <2>0. /\ TypeOK /\ txns \in Seq(Txn)
          /\ \A c \in Calls : CallIsAimed(calls[c]) /\ GoesToItsProvider(calls[c])
      BY DEF HookTypeOK, TypeOK, HookInv
    <2>1. ASSUME UNCHANGED <<txns, calls, inbox>>,
                 \A f \in EventIds : Stored(f) => emitted'[f] = emitted[f]
          PROVE  DoneIsPast'
      <3> SUFFICES ASSUME NEW f \in EventIds, Done(f)'
                   PROVE  \E t \in DOMAIN txns : IsFirst(f, t)' /\ IsPast(emitted[f].kind, t)'
        BY <2>1 DEF DoneIsPast
      <3>1. emitted'[f] = emitted[f]
        BY <2>1 DEF Done, Stored, NotStored
      <3>2. Done(f)
        BY <2>1, <3>1 DEF Done, TargetStatus
      <3>3. PICK t \in DOMAIN txns : IsFirst(f, t) /\ IsPast(emitted[f].kind, t)
        BY <3>2 DEF DoneIsPast
      <3> QED
        BY <2>1, <3>1, <3>3 DEF IsFirst, Concerns, IsPast, Busy
    <2>2. CASE UNCHANGED allVars
      BY <2>1, <2>2 DEF allVars, vars, hookVars
    <2>3. CASE Next /\ UNCHANGED hookVars
      <3>1. PICK c \in Calls : ServiceStep(c)
        BY <2>0, <2>3, NextIsServiceStep
      <3>2. UNCHANGED <<emitted, inbox>>
        BY <2>3 DEF hookVars
      <3> SUFFICES ASSUME NEW f \in EventIds, Done(f)
                   PROVE  \E t \in DOMAIN txns' : IsFirst(f, t)' /\ IsPast(emitted[f].kind, t)'
        BY <3>2 DEF DoneIsPast, Done, TargetStatus
      <3>3. PICK t \in DOMAIN txns : IsFirst(f, t) /\ IsPast(emitted[f].kind, t)
        BY DEF DoneIsPast
      <3>4. \A kind : IsPast(kind, t) =>
              /\ IsPast(kind, t)' /\ t \in DOMAIN txns'
              /\ \A u \in DOMAIN txns : SameIntent(txns'[u], txns[u])
        BY <2>0, <3>1, ServiceStaysPast
      <3>5. IsFirst(f, t)'
        BY <2>0, <3>2, <3>3, <3>4, SameFirst
      <3> QED
        BY <3>2, <3>3, <3>4, <3>5 DEF IsPast
    <2>4. ASSUME NEW e \in EventIds, NEW i \in Conn \X Refs, NEW kind \in Kinds,
                 NEW a \in {NoAmount, ledger[i].captured}, Emit(e, i, kind, a)
          PROVE  DoneIsPast'
      BY <2>1, <2>4, EmitKeepsHookInv
    <2>5. ASSUME NEW i \in Conn \X Refs, NEW a \in Amount,
                 CaptureDirectly(i, a) \/ VoidDirectly(i) \/ RefundDirectly(i, a)
          PROVE  DoneIsPast'
      BY <2>1, <2>5, DirectEffect
    <2>6. ASSUME NEW e \in EventIds, HandleWebhook(e) \/ ReplayEvent(e)
          PROVE  DoneIsPast'
      BY <2>6, DeliveryProcesses, ProcessKeepsPast
    <2> QED
      BY <2>2, <2>3, <2>4, <2>5, <2>6 DEF HookNext, HookStep
  <1> QED
    BY <1>1, <1>2, HookTypeCorrect, PTL DEF HookSpec

(* A done event and the transaction it concerns. *)
LEMMA DoneTxn ==
  ASSUME HookTypeOK, HookInv, DoneIsPast, NEW e \in EventIds, Done(e)
  PROVE  \E t \in DOMAIN txns :
           /\ IsFirst(e, t) /\ \A u \in DOMAIN txns : IsFirst(e, u) => u = t
           /\ txns[t].status \in Status \ {"created"}
           /\ IF emitted[e].kind = "captured" THEN txns[t].status # "authorized"
                                              ELSE IsTerminal(txns[t].status)
  <1>1. PICK t \in DOMAIN txns : IsFirst(e, t) /\ IsPast(emitted[e].kind, t)
    BY DEF DoneIsPast
  <1>2. TypeOK /\ txns \in Seq(Txn)
    BY DEF HookTypeOK, TypeOK
  <1>3. txns[t].status \in Status \ {"created"}
    BY <1>2, TxnAt DEF Txn, HookInv
  <1> QED
    BY <1>1, <1>2, <1>3, FirstIsUnique DEF IsPast

(* "Idempotent - reprocessing the same event produces no additional side
   effects", however much happened to its transaction since.               *)
THEOREM DoneHasNoEffect == Overlap = FALSE => (HookSpec => []DoneEventsHaveNoEffect)
  <1>1. HookTypeOK /\ HookInv /\ DoneIsPast => DoneEventsHaveNoEffect
    <2> SUFFICES ASSUME HookTypeOK, HookInv, DoneIsPast, NEW e \in EventIds,
                        inbox[e] \in {"processed", "skipped"}, WouldApply(e)
                 PROVE  FALSE
      BY DEF DoneEventsHaveNoEffect
    <2>1. Done(e)
      BY DEF Done, WouldApply
    <2>2. PICK t \in DOMAIN txns :
            /\ IsFirst(e, t) /\ \A u \in DOMAIN txns : IsFirst(e, u) => u = t
            /\ txns[t].status \in Status \ {"created"}
            /\ IF emitted[e].kind = "captured" THEN txns[t].status # "authorized"
                                               ELSE IsTerminal(txns[t].status)
      BY <2>1, DoneTxn
    <2>3. Reconciliation(emitted[e].kind, txns[t].status) = "applied"
      BY <2>1, <2>2, DoneKind DEF WouldApply
    <2>4. ~IsTerminal(txns[t].status)
          /\ IsValidTransition(txns[t].status, emitted[e].kind)
      BY <2>3 DEF Reconciliation
    <2> QED
      BY <2>2, <2>4, CapturableIsAuthorized
  <1> QED
    BY <1>1, HookTypeCorrect, AlwaysPast, PTL

(* What a processed event established is never undone. *)
THEOREM ProcessedStands == Overlap = FALSE => (HookSpec => []ProcessedEventsStand)
  <1>1. HookTypeOK /\ HookInv /\ DoneIsPast => ProcessedEventsStand
    <2> SUFFICES ASSUME HookTypeOK, HookInv, DoneIsPast, NEW e \in EventIds,
                        inbox[e] = "processed"
                 PROVE  \E t \in DOMAIN txns :
                          /\ IsFirst(e, t)
                          /\ StateOrder[txns[t].status] >= StateOrder[TargetStatus(e)]
      BY DEF ProcessedEventsStand
    <2>1. Done(e)
      BY DEF Done, HookInv
    <2>2. PICK t \in DOMAIN txns :
            /\ IsFirst(e, t)
            /\ txns[t].status \in Status \ {"created"}
            /\ IF emitted[e].kind = "captured" THEN txns[t].status # "authorized"
                                               ELSE IsTerminal(txns[t].status)
      BY <2>1, DoneTxn
    <2>3. /\ TargetStatus(e) = emitted[e].kind
          /\ emitted[e].kind \in {"captured", "failed", "refunded", "voided"}
      BY <2>1, DoneKind
    <2>4. StateOrder[txns[t].status] >= StateOrder[emitted[e].kind]
      BY <2>2, <2>3, StatusFacts
    <2> QED
      BY <2>2, <2>3, <2>4
  <1> QED
    BY <1>1, HookTypeCorrect, AlwaysPast, PTL

(* Once no failed event has anything left to apply, a transaction whose
   capture and refund were both announced is finished, in whichever order the
   two came.                                                               *)
THEOREM Converges == Overlap = FALSE => (HookSpec => []ReplayConverges)
  <1>1. HookTypeOK /\ HookInv /\ DoneIsPast => ReplayConverges
    <2> SUFFICES ASSUME HookTypeOK, HookInv, DoneIsPast,
                        \A e \in EventIds : inbox[e] = "failed" => ~WouldApply(e),
                        NEW e \in EventIds, NEW f \in EventIds, NEW t \in DOMAIN txns,
                        Stored(e), emitted[e].kind = "captured", IsFirst(e, t),
                        Stored(f), emitted[f].kind = "refunded", IsFirst(f, t)
                 PROVE  IsTerminal(txns[t].status)
      BY DEF ReplayConverges
    <2>1. txns[t].status \in Status \ {"created"}
      BY TxnAt DEF HookTypeOK, Txn, HookInv
    <2>2. TargetStatus(e) = "captured" /\ TargetStatus(f) = "refunded"
      BY DEF TargetStatus
    <2>3. ASSUME NEW g \in EventIds, Done(g), IsFirst(g, t)
          PROVE  IF emitted[g].kind = "captured" THEN txns[t].status # "authorized"
                                                 ELSE IsTerminal(txns[t].status)
      BY <2>3, DoneTxn
    <2>4. ASSUME NEW g \in EventIds, Stored(g), IsFirst(g, t), TargetStatus(g) # "none"
          PROVE  Done(g) \/ Reconciliation(TargetStatus(g), txns[t].status) # "applied"
      BY <2>4 DEF HookInv, Done, WouldApply
    <2>5. txns[t].status # "authorized"
      <3>1. CASE Done(e)
        BY <2>3, <3>1
      <3>2. CASE Reconciliation("captured", txns[t].status) # "applied"
        BY <2>1, <3>2, StatusFacts DEF Reconciliation, IsTerminal
      <3> QED
        BY <2>2, <2>4, <3>1, <3>2
    <2>6. CASE Done(f)
      BY <2>3, <2>6
    <2>7. CASE Reconciliation("refunded", txns[t].status) # "applied"
      BY <2>1, <2>5, <2>7, StatusFacts DEF Reconciliation, IsTerminal
    <2> QED
      BY <2>2, <2>4, <2>6, <2>7
  <1> QED
    BY <1>1, HookTypeCorrect, AlwaysPast, PTL

-----------------------------------------------------------------------------
(* What the customer got back, for one caller at a time.                   *)

(* What a request was checked for still holds. *)
CheckHolds(call) ==
  LET txn == txns[call.txn] IN
  /\ call.op \in {"capture", "void"} => txn.status = "authorized"
  /\ call.op = "refund" =>
       /\ txn.status \in Refundable
       /\ call.target = "refunded" => txn.refunded + call.amount = txn.captured

(* The provider has answered for the refunds on record and for the one under
   way, and they are the whole capture where the status says so.           *)
RefundsAnswered(t) ==
  LET repaid == Repaid(ledger[TxnIntent(t)])  txn == txns[t] IN
  /\ repaid >= txn.refunded
  /\ \A c \in Calls : AcceptedRefundOf(calls[c], t) =>
       repaid >= txn.refunded + calls[c].amount
  /\ txn.status = "refunded" => txn.refunded = txn.captured

RefundsRepaid ==
  /\ \A c \in Calls : CheckHolds(calls[c])
  /\ \A t \in DOMAIN txns :
       IF MarkedByEvent(t) THEN txns[t].status = "refunded" ELSE RefundsAnswered(t)

(* Marks stay while the inbox does. *)
LEMMA SameMarks ==
  ASSUME txns \in Seq(Txn), UNCHANGED inbox, NEW t \in DOMAIN txns,
         \A e \in EventIds : Stored(e) => emitted'[e] = emitted[e],
         \A u \in DOMAIN txns : SameIntent(txns'[u], txns[u])
  PROVE  MarkedByEvent(t)' <=> MarkedByEvent(t)
  <1>1. ASSUME NEW e \in EventIds, inbox[e] = "processed"
        PROVE  /\ TargetStatus(e)' = TargetStatus(e)
               /\ IsFirst(e, t)' <=> IsFirst(e, t)
    <2>1. emitted'[e] = emitted[e]
      BY <1>1 DEF Stored, NotStored
    <2> QED
      BY <2>1, SameFirst DEF TargetStatus
  <1> QED
    BY <1>1 DEF MarkedByEvent

LEMMA EntryIsNat ==
  ASSUME NEW s \in IntentState
  PROVE  Repaid(s) \in Nat
  BY DEF IntentState, Repaid

(* The transaction of an unmarked intent, when nothing is rewritten. *)
LEMMA AnswersStay ==
  ASSUME SingleCaller, TypeOK, TypeOK', NEW c \in Calls, MoneyStep(c),
         NEW t \in DOMAIN txns, t \in DOMAIN txns', txns'[t] = txns[t],
         RefundsAnswered(t)
  PROVE  RefundsAnswered(t)'
  <1>1. /\ TxnIntent(t) \in Intents /\ TxnIntent(t)' = TxnIntent(t)
        /\ txns[t].refunded \in Int
    BY TxnAt DEF TypeOK, Txn, TxnIntent, Intents
  <1> DEFINE i == TxnIntent(t)
  <1>2. Repaid(ledger[i]) \in Nat /\ Repaid(ledger'[i]) \in Nat
    BY <1>1, EntryIsNat DEF TypeOK, Intents
  <1>3. Repaid(ledger'[i]) >= Repaid(ledger[i]) /\ Repaid(ledger[i]) >= txns[t].refunded
    BY <1>1 DEF MoneyStep, MoneyStays, RefundsAnswered
  <1>4. ASSUME NEW d \in Calls, AcceptedRefundOf(calls'[d], t)
        PROVE  Repaid(ledger'[i]) >= txns[t].refunded + calls'[d].amount
    <2>1. d = c
      BY OneCall
    <2>2. calls'[c].amount \in Int
      <3>1. calls'[c].op = "refund"
        BY <1>4, <2>1 DEF AcceptedRefundOf
      <3>2. calls'[c] \in {IdleCall} \cup IntentCall \cup TxnCall
        BY DEF TypeOK
      <3>3. calls'[c] \in RefundCall
        BY <3>1, <3>2 DEF IdleCall, IntentCall, TxnCall, HoldCall, RefundCall
      <3> QED
        BY <3>3, PaymentAssumption DEF RefundCall, Amount
    <2>3. Repaid(ledger'[i]) >= Repaid(ledger[i]) + calls'[c].amount
      BY <1>4, <2>1 DEF MoneyStep
    <2> HIDE DEF i
    <2> QED
      BY <1>1, <1>2, <1>3, <2>1, <2>2, <2>3
  <1> HIDE DEF i
  <1>5. Repaid(ledger'[i]) >= txns[t].refunded
    BY <1>1, <1>2, <1>3
  <1> USE DEF i
  <1> QED
    BY <1>1, <1>4, <1>5 DEF RefundsAnswered, AcceptedRefundOf

LEMMA ServiceKeepsRepaid ==
  ASSUME SingleCaller, HookTypeOK, TypeOK', HookInv, DoneIsPast, RefundsRepaid,
         NEW c \in Calls, ServiceStep(c), UNCHANGED hookVars
  PROVE  RefundsRepaid'
  <1>1. /\ TypeOK /\ txns \in Seq(Txn) /\ txns' \in Seq(Txn) /\ MoneyStep(c)
        /\ UNCHANGED <<emitted, inbox>>
    BY DEF HookTypeOK, TypeOK, ServiceStep, hookVars
  <1>2. \A t \in DOMAIN txns : t \in DOMAIN txns' /\ SameIntent(txns'[t], txns[t])
    BY DEF ServiceStep, Grows, Rewrites, SameIntent
  <1>3. \A t \in DOMAIN txns : MarkedByEvent(t)' <=> MarkedByEvent(t)
    BY <1>1, <1>2, SameMarks
  <1>4. \A d \in Calls : d = c
    BY OneCall
  <1>5. calls'[c] = IdleCall => CheckHolds(calls[c])'
    BY DEF CheckHolds, IdleCall
  <1>6. CASE UNCHANGED txns
    <2>1. \A t \in DOMAIN txns : RefundsAnswered(t) => RefundsAnswered(t)'
      BY <1>1, <1>6, AnswersStay
    <2>2. CheckHolds(calls[c])'
      <3>1. CASE calls'[c].op \in {"none", "intent", "failover"}
        BY <3>1 DEF CheckHolds
      <3>2. CASE SameRequest(calls'[c], calls[c])
        BY <1>6, <3>2 DEF RefundsRepaid, CheckHolds, SameRequest, Refundable
      <3>3. CASE Checked(calls'[c])
        BY <1>6, <3>3 DEF CheckHolds, Checked, RefundTarget
      <3> QED
        BY <1>5, <3>1, <3>2, <3>3 DEF ServiceStep
    <2> QED
      BY <1>3, <1>4, <1>6, <2>1, <2>2 DEF RefundsRepaid
  <1>7. CASE /\ calls'[c] = IdleCall /\ Grows
             /\ LET new == txns'[Len(txns) + 1] IN new.captured = 0 /\ new.refunded = 0
    <2> PICK n : n = Len(txns) + 1
      OBVIOUS
    <2>1. \A t \in DOMAIN txns : RefundsAnswered(t) => RefundsAnswered(t)'
      BY <1>1, <1>2, <1>7, AnswersStay DEF Grows
    <2>2. n \in DOMAIN txns' /\ n \notin DOMAIN txns
      BY <1>1, <1>7 DEF Grows
    <2>3. ~MarkedByEvent(n)'
      <3> SUFFICES ASSUME NEW e \in EventIds, inbox[e] = "processed", IsFirst(e, n)'
                   PROVE  FALSE
        BY <1>1 DEF MarkedByEvent
      <3>1. Done(e)
        BY DEF Done, HookInv
      <3>2. PICK u \in DOMAIN txns : IsFirst(e, u)
        BY <3>1 DEF DoneIsPast
      <3>3. IsFirst(e, u)'
        BY <1>1, <1>2, <3>2, SameFirst
      <3>4. u \in Nat /\ n \in Nat /\ u >= 1 /\ n >= 1 /\ u < n
        BY <1>1
      <3> QED
        BY <3>3, <3>4 DEF IsFirst
    <2>4. RefundsAnswered(n)'
      <3>1. /\ txns'[n].refunded = 0 /\ txns'[n].status # "refunded"
        BY <1>7 DEF Grows
      <3>2. \A d \in Calls : ~AcceptedRefundOf(calls'[d], n)
        BY <1>4, <1>7 DEF AcceptedRefundOf, IdleCall
      <3>3. Repaid(ledger[TxnIntent(n)])' \in Nat
        <4>1. txns'[n] \in Txn
          BY <1>1, <2>2
        <4>2. <<txns'[n].conn, txns'[n].ref>> \in Conn \X Refs
          BY <4>1 DEF Txn
        <4> QED
          BY <4>2, EntryIsNat DEF TypeOK, TxnIntent
      <3>4. Repaid(ledger[TxnIntent(n)])' >= txns'[n].refunded
        BY <3>1, <3>3
      <3> QED
        BY <3>1, <3>2, <3>4 DEF RefundsAnswered, AcceptedRefundOf
    <2>5. DOMAIN txns' = DOMAIN txns \cup {n}
      BY <1>7 DEF Grows
    <2>6. \A t \in DOMAIN txns : txns'[t] = txns[t]
      BY <1>7 DEF Grows
    <2> QED
      BY <1>3, <1>4, <1>5, <1>7, <2>1, <2>3, <2>4, <2>5, <2>6 DEF RefundsRepaid
  <1>8. ASSUME calls[c] \in TxnCall, calls[c].txn \in DOMAIN txns, calls'[c] = IdleCall,
               Rewrites(calls[c].txn),
               Settled(txns'[calls[c].txn], txns[calls[c].txn], calls[c])
        PROVE  RefundsRepaid'
    <2> PICK t : t = calls[c].txn
      OBVIOUS
    <2> PICK i : i = TxnIntent(t)
      OBVIOUS
    <2>1. CheckHolds(calls[c]) /\ calls[c].op \in {"capture", "void", "refund"}
      BY <1>8 DEF RefundsRepaid, TxnCall, HoldCall, RefundCall
    <2>2. ~MarkedByEvent(t) /\ RefundsAnswered(t)
      <3>1. txns[t].status # "refunded"
        BY <2>1 DEF CheckHolds, Refundable
      <3> QED
        BY <1>8, <3>1 DEF RefundsRepaid
    <2>3. \A u \in DOMAIN txns : u # t /\ RefundsAnswered(u) => RefundsAnswered(u)'
      BY <1>1, <1>2, <1>8, AnswersStay DEF Rewrites
    <2>4. RefundsAnswered(t)'
      <3>1. /\ i \in Intents /\ TxnIntent(t)' = i
            /\ txns[t].refunded \in Int
        BY <1>1, <1>8, TxnAt DEF TypeOK, Txn, TxnIntent, Intents, Rewrites, SameIntent
      <3>2. Repaid(ledger[i]) \in Nat /\ Repaid(ledger'[i]) \in Nat
        BY <1>1, <3>1, EntryIsNat DEF TypeOK, Intents
      <3>3. Repaid(ledger'[i]) >= Repaid(ledger[i])
        BY <1>1, <3>1 DEF MoneyStep, MoneyStays
      <3>4. \A d \in Calls : ~AcceptedRefundOf(calls'[d], t)
        BY <1>4, <1>8 DEF AcceptedRefundOf, IdleCall
      <3>5. CASE calls[c].op = "refund"
        <4>1. /\ calls[c].verdict = "accepted" /\ calls[c].amount \in Int
              /\ txns'[t].captured = txns[t].captured
              /\ txns'[t].refunded = txns[t].refunded + calls[c].amount
              /\ txns'[t].status = calls[c].target
          BY <1>1, <1>8, <3>5, CallShape, PaymentAssumption DEF Settled, SettledAs, RefundCall, Amount
        <4>2. Repaid(ledger[i]) >= txns[t].refunded + calls[c].amount
          BY <2>2, <3>5, <4>1 DEF RefundsAnswered, AcceptedRefundOf
        <4>3. txns'[t].status = "refunded" => txns'[t].refunded = txns'[t].captured
          BY <2>1, <3>5, <4>1 DEF CheckHolds
        <4>4. Repaid(ledger'[i]) >= txns'[t].refunded
          BY <3>1, <3>2, <3>3, <4>1, <4>2
        <4> QED
          BY <3>1, <3>4, <4>3, <4>4 DEF RefundsAnswered, AcceptedRefundOf
      <3>6. CASE calls[c].op \in {"capture", "void"}
        <4>1. txns'[t].status # "refunded" /\ txns'[t].refunded = txns[t].refunded
          BY <1>8, <3>6 DEF Settled, SettledAs
        <4>2. Repaid(ledger[i]) >= txns[t].refunded
          BY <2>2 DEF RefundsAnswered
        <4>3. Repaid(ledger'[i]) >= txns'[t].refunded
          BY <3>1, <3>2, <3>3, <4>1, <4>2
        <4> QED
          BY <3>1, <3>4, <4>1, <4>3 DEF RefundsAnswered, AcceptedRefundOf
      <3> QED
        BY <2>1, <3>5, <3>6
    <2>5. /\ DOMAIN txns' = DOMAIN txns /\ t \in DOMAIN txns
          /\ \A u \in DOMAIN txns : u # t => txns'[u] = txns[u]
      BY <1>8 DEF Rewrites
    <2> QED
      BY <1>3, <1>4, <1>5, <1>8, <2>2, <2>3, <2>4, <2>5 DEF RefundsRepaid
  <1> QED
    BY <1>6, <1>7, <1>8 DEF ServiceStep

(* An event that is processed marks its transaction or leaves its refunds
   alone, and takes no mark away.                                          *)
LEMMA ProcessKeepsRepaid ==
  ASSUME HookTypeOK, HookInv, RefundsRepaid, ~Overlap, NEW e \in EventIds, Processes(e)
  PROVE  RefundsRepaid'
  <1>1. /\ ProcessEvent(e) /\ emitted[e] \in Event /\ UNCHANGED <<calls, emitted, ledger>>
        /\ \A c \in Calls : calls[c] = IdleCall
        /\ txns \in Seq(Txn)
    BY DEF Processes, MayArrive, HookTypeOK, TypeOK, Idle
  <1>2. /\ DOMAIN txns' = DOMAIN txns
        /\ \A f \in EventIds \ {e} : inbox'[f] = inbox[f]
        /\ \/ /\ UNCHANGED txns /\ inbox'[e] = "failed"
              /\ \A t \in DOMAIN txns : IsFirst(e, t) => txns[t].status # emitted[e].kind
           \/ UNCHANGED txns /\ inbox'[e] = "skipped" /\ TargetStatus(e) = "none"
           \/ /\ TargetStatus(e) # "none"
              /\ \E t \in DOMAIN txns : IsFirst(e, t) /\ (Unmoved(e, t) \/ MovedOn(e, t))
    BY <1>1, ProcessEffect
  <1>3. /\ \A c \in Calls : CheckHolds(calls[c])'
        /\ \A c \in Calls : \A t : ~AcceptedRefundOf(calls'[c], t)
    BY <1>1 DEF CheckHolds, AcceptedRefundOf, IdleCall
  <1>4. \A u \in DOMAIN txns : SameIntent(txns'[u], txns[u])
    BY <1>2 DEF Unmoved, MovedOn, Rewrites, SameIntent
  <1>5. \A f \in EventIds, u \in DOMAIN txns : IsFirst(f, u)' <=> IsFirst(f, u)
    BY <1>1, <1>4, SameFirst
  <1>6. \A f \in EventIds : TargetStatus(f)' = TargetStatus(f)
    BY <1>1 DEF TargetStatus
  <1>7. TargetStatus(e) = "refunded" => emitted[e].kind = "refunded"
    BY <1>1, TargetIsKind
  (* e's own transaction, if it is marked by e. *)
  <1>8. ASSUME NEW u \in DOMAIN txns, inbox[e] = "processed", TargetStatus(e) = "refunded",
               IsFirst(e, u)
        PROVE  inbox'[e] = "processed"
    <2>1. txns[u].status = "refunded"
      BY <1>8 DEF RefundsRepaid, MarkedByEvent
    <2>2. ASSUME NEW t \in DOMAIN txns, IsFirst(e, t), Unmoved(e, t)
          PROVE  inbox'[e] = "processed"
      <3>1. t = u
        BY <1>1, <1>8, <2>2, FirstIsUnique
      <3> QED
        BY <1>7, <1>8, <2>1, <2>2, <3>1 DEF Unmoved
    <2> QED
      BY <1>2, <1>7, <1>8, <2>1, <2>2 DEF MovedOn
  <1>9. \A u \in DOMAIN txns : MarkedByEvent(u) => MarkedByEvent(u)'
    BY <1>2, <1>5, <1>6, <1>8 DEF MarkedByEvent
  <1>10. ASSUME NEW u \in DOMAIN txns, txns'[u].refunded = txns[u].refunded,
                RefundsAnswered(u), txns'[u] = txns[u] \/ txns'[u].status # "refunded"
         PROVE  RefundsAnswered(u)'
    <2>1. TxnIntent(u)' = TxnIntent(u)
      BY <1>4 DEF TxnIntent, SameIntent
    <2> QED
      BY <1>1, <1>3, <1>10, <2>1 DEF RefundsAnswered, AcceptedRefundOf
  <1>11. ASSUME NEW u \in DOMAIN txns, txns'[u] = txns[u],
                MarkedByEvent(u)' => MarkedByEvent(u) \/ txns[u].status = "refunded"
         PROVE  IF MarkedByEvent(u)' THEN txns'[u].status = "refunded" ELSE RefundsAnswered(u)'
    BY <1>9, <1>10, <1>11 DEF RefundsRepaid
  <1>12. CASE UNCHANGED txns /\ inbox'[e] # "processed"
    <2>1. \A u \in DOMAIN txns : MarkedByEvent(u)' => MarkedByEvent(u)
      BY <1>2, <1>5, <1>6, <1>12 DEF MarkedByEvent
    <2> QED
      BY <1>2, <1>3, <1>11, <1>12, <2>1 DEF RefundsRepaid
  <1>13. ASSUME NEW t \in DOMAIN txns, IsFirst(e, t), Unmoved(e, t)
         PROVE  RefundsRepaid'
    <2>1. \A u \in DOMAIN txns : MarkedByEvent(u)' =>
            MarkedByEvent(u) \/ (IsFirst(e, u) /\ inbox'[e] = "processed"
                                 /\ TargetStatus(e) = "refunded")
      BY <1>2, <1>5, <1>6 DEF MarkedByEvent
    <2>2. UNCHANGED txns /\ (inbox'[e] = "processed" => txns[t].status = emitted[e].kind)
      BY <1>13 DEF Unmoved
    <2>3. \A u \in DOMAIN txns : IsFirst(e, u) => u = t
      BY <1>1, <1>13, FirstIsUnique
    <2>4. \A u \in DOMAIN txns : MarkedByEvent(u)' =>
            MarkedByEvent(u) \/ txns[u].status = "refunded"
      BY <1>7, <2>1, <2>2, <2>3
    <2> QED
      BY <1>2, <1>3, <1>11, <2>2, <2>4 DEF RefundsRepaid
  <1>14. ASSUME NEW t \in DOMAIN txns, IsFirst(e, t), MovedOn(e, t), TargetStatus(e) # "none"
         PROVE  RefundsRepaid'
    <2>1. /\ \A u \in DOMAIN txns : u # t => txns'[u] = txns[u]
          /\ inbox'[e] = "processed" /\ txns'[t].status = emitted[e].kind
          /\ ~IsTerminal(txns[t].status)
          /\ emitted[e].kind # "refunded" => txns'[t].refunded = txns[t].refunded
          /\ TargetStatus(e) = emitted[e].kind
      BY <1>1, <1>14, TargetIsKind DEF MovedOn, Rewrites
    <2>2. \A u \in DOMAIN txns : MarkedByEvent(u)' =>
            MarkedByEvent(u) \/ (IsFirst(e, u) /\ TargetStatus(e) = "refunded")
      BY <1>2, <1>5, <1>6 DEF MarkedByEvent
    <2>3. \A u \in DOMAIN txns : IsFirst(e, u) => u = t
      BY <1>1, <1>14, FirstIsUnique
    <2>4. ~MarkedByEvent(t) /\ RefundsAnswered(t)
      BY <2>1 DEF RefundsRepaid, IsTerminal
    <2>5. IF MarkedByEvent(t)' THEN txns'[t].status = "refunded" ELSE RefundsAnswered(t)'
      <3>1. CASE emitted[e].kind = "refunded"
        <4>1. MarkedByEvent(t)'
          BY <1>5, <1>6, <1>14, <2>1, <3>1 DEF MarkedByEvent
        <4> QED
          BY <2>1, <3>1, <4>1
      <3>2. CASE emitted[e].kind # "refunded"
        BY <1>10, <2>1, <2>2, <2>4, <3>2
      <3> QED
        BY <3>1, <3>2
    <2>6. \A u \in DOMAIN txns : u # t =>
            IF MarkedByEvent(u)' THEN txns'[u].status = "refunded" ELSE RefundsAnswered(u)'
      BY <1>11, <2>1, <2>2, <2>3
    <2> QED
      BY <1>2, <1>3, <2>5, <2>6 DEF RefundsRepaid
  <1> QED
    BY <1>2, <1>12, <1>13, <1>14

(* Announcing an event, or acting at a provider, changes no answer. *)
LEMMA QuietKeepsRepaid ==
  ASSUME HookTypeOK, HookTypeOK', RefundsRepaid, UNCHANGED <<txns, calls, inbox>>, MoneyStays,
         \A e \in EventIds : Stored(e) => emitted'[e] = emitted[e]
  PROVE  RefundsRepaid'
  <1>1. TypeOK /\ TypeOK' /\ txns \in Seq(Txn)
    BY DEF HookTypeOK, TypeOK
  <1>2. \A t \in DOMAIN txns : MarkedByEvent(t)' <=> MarkedByEvent(t)
    BY <1>1, SameMarks DEF SameIntent
  <1>3. ASSUME NEW t \in DOMAIN txns, RefundsAnswered(t)
        PROVE  RefundsAnswered(t)'
    <2> DEFINE i == TxnIntent(t)
    <2>1. i \in Intents /\ TxnIntent(t)' = i /\ txns[t].refunded \in Int
      BY <1>1, TxnAt DEF TypeOK, Txn, TxnIntent, Intents
    <2>2. Repaid(ledger[i]) \in Nat /\ Repaid(ledger'[i]) \in Nat
      BY <1>1, <2>1, EntryIsNat DEF TypeOK, Intents
    <2>3. Repaid(ledger'[i]) >= Repaid(ledger[i])
      BY <2>1 DEF MoneyStays
    <2>4. ASSUME NEW d \in Calls, AcceptedRefundOf(calls[d], t)
          PROVE  Repaid(ledger'[i]) >= txns[t].refunded + calls[d].amount
      <3>1. calls[d].amount \in Int
        BY <1>1, <2>4, CallShape, PaymentAssumption DEF AcceptedRefundOf, RefundCall, Amount
      <3>2. Repaid(ledger[i]) >= txns[t].refunded + calls[d].amount
        BY <1>3, <2>4 DEF RefundsAnswered
      <3> HIDE DEF i
      <3> QED
        BY <2>1, <2>2, <2>3, <3>1, <3>2
    <2>5. Repaid(ledger'[i]) >= txns[t].refunded
      <3>1. Repaid(ledger[i]) >= txns[t].refunded
        BY <1>3 DEF RefundsAnswered
      <3> HIDE DEF i
      <3> QED
        BY <2>1, <2>2, <2>3, <3>1
    <2> QED
      BY <1>3, <2>1, <2>4, <2>5 DEF RefundsAnswered, AcceptedRefundOf
  <1>4. \A c \in Calls : CheckHolds(calls[c]) => CheckHolds(calls[c])'
    BY DEF CheckHolds
  <1> QED
    BY <1>2, <1>3, <1>4 DEF RefundsRepaid

(* With one caller and webhooks between its calls, only a refund event marks a
   transaction as refunded whose capture the provider has not answered for:
   whatever is captured and refunded at the provider, in whatever order its
   events come, and however often they are replayed.                       *)
THEOREM RefundedIsRepaid ==
  SingleCaller /\ Overlap = FALSE => (HookSpec => []RefundedMeansRepaid)
  <1> SUFFICES ASSUME SingleCaller, Overlap = FALSE
               PROVE  HookSpec => []RefundedMeansRepaid
    OBVIOUS
  <1>1. HookInit => RefundsRepaid
    BY DEF HookInit, Init, RefundsRepaid, CheckHolds, IdleCall
  <1>2. HookTypeOK /\ HookTypeOK' /\ HookInv /\ DoneIsPast /\ RefundsRepaid
          /\ [HookNext]_allVars => RefundsRepaid'
    <2> SUFFICES ASSUME HookTypeOK, HookTypeOK', HookInv, DoneIsPast, RefundsRepaid,
                        [HookNext]_allVars
                 PROVE  RefundsRepaid'
      OBVIOUS
    <2>0. /\ TypeOK /\ TypeOK'
          /\ \A c \in Calls : CallIsAimed(calls[c]) /\ GoesToItsProvider(calls[c])
      BY DEF HookTypeOK, HookInv
    <2>1. UNCHANGED ledger => MoneyStays
      BY <2>0, RepaidIsNat DEF MoneyStays
    <2>2. CASE UNCHANGED allVars
      BY <2>1, <2>2, QuietKeepsRepaid DEF allVars, vars, hookVars
    <2>3. CASE Next /\ UNCHANGED hookVars
      BY <2>0, <2>3, NextIsServiceStep, ServiceKeepsRepaid
    <2>4. ASSUME NEW e \in EventIds, NEW i \in Conn \X Refs, NEW kind \in Kinds,
                 NEW a \in {NoAmount, ledger[i].captured}, Emit(e, i, kind, a)
          PROVE  RefundsRepaid'
      <3>1. UNCHANGED <<txns, calls, inbox, ledger>>
        BY <2>4 DEF Emit, vars
      <3>2. \A f \in EventIds : Stored(f) => emitted'[f] = emitted[f]
        BY <2>4, EmitKeepsHookInv
      <3> QED
        BY <2>1, <3>1, <3>2, QuietKeepsRepaid
    <2>5. ASSUME NEW i \in Conn \X Refs, NEW a \in Amount,
                 CaptureDirectly(i, a) \/ VoidDirectly(i) \/ RefundDirectly(i, a)
          PROVE  RefundsRepaid'
      BY <2>5, DirectEffect, QuietKeepsRepaid
    <2>6. ASSUME NEW e \in EventIds, HandleWebhook(e) \/ ReplayEvent(e)
          PROVE  RefundsRepaid'
      BY <2>6, DeliveryProcesses, ProcessKeepsRepaid
    <2> QED
      BY <2>2, <2>3, <2>4, <2>5, <2>6 DEF HookNext, HookStep
  <1>3. HookTypeOK /\ RefundsRepaid => RefundedMeansRepaid
    <2> SUFFICES ASSUME HookTypeOK, RefundsRepaid, NEW t \in DOMAIN txns,
                        txns[t].status = "refunded", ~MarkedByEvent(t)
                 PROVE  Repaid(ledger[TxnIntent(t)]) >= txns[t].captured
      BY DEF RefundedMeansRepaid, TxnIntent
    <2> QED
      BY DEF RefundsRepaid, RefundsAnswered
  <1> QED
    BY <1>1, <1>2, <1>3, HookTypeCorrect, AlwaysPast, PTL DEF HookSpec

=============================================================================
