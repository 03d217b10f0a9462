--------------------- MODULE PaymentTransactionsProps ----------------------
(***************************************************************************)
(* What PaymentTransactionService is expected to guarantee.  The first     *)
(* group holds for any number of concurrent calls, the second only when at *)
(* most one call is in flight, the third is what the documentation of the  *)
(* service says and concurrent or repeated calls break.                    *)
(***************************************************************************)
EXTENDS PaymentTransactions

InFlight(op) == {c \in Calls : calls[c].op = op}

Serviced == {c \in Calls : calls[c] \in TxnCall}

TxnsOf(i) == {t \in DOMAIN txns : <<txns[t].conn, txns[t].ref>> = i}

Intents == Conn \X Refs

-----------------------------------------------------------------------------
(* Any number of calls in flight.                                          *)

(* A capture, void or refund in flight is for a transaction that has a
   provider id, at a provider that did authorize that intent: the service's
   providerTransactionId! assertions and its "original processor" routing
   are justified whatever happens to routing and connections meanwhile.    *)
ProviderCallsAreBacked ==
  \A c \in Serviced :
    /\ txns[calls[c].txn].hasProviderId
    /\ ledger[IntentOf(calls[c])].authorized

(* At every provider, money was captured, voided or refunded only on an
   intent it authorized, and refunded only where it was captured.          *)
MoneyFollowsAuthorization ==
  \A i \in Intents :
    LET s == ledger[i] IN
    /\ s.captured > 0 \/ s.voided => s.authorized
    /\ s.refunded > 0 => s.captured > 0

RefundedAmount  == [t \in DOMAIN txns |-> txns[t].refunded]
RequestedAmount == [c \in InFlight("refund") |-> calls[c].amount]

RefundsSent(t) == {c \in InFlight("refund") : calls[c].txn = t}

AcceptedRefunds(i) ==
  {c \in InFlight("refund") : calls[c].verdict = "accepted" /\ IntentOf(calls[c]) = i}

(* What the refunds that a provider has answered for an intent add up to:
   those it paid out and those it had paid out under that key before.      *)
Repaid(s) == s.refunded + s.repeated

(* The refunds on record, plus those whose answer is still to be applied, are
   what the providers paid out and, on top of it, exactly the amounts they
   answered under a key already used: overlapping refunds of one transaction
   lose no amount, although both read it before their await.               *)
RefundsReconcile ==
  \A i \in Intents :
    Repaid(ledger[i]) = SumFunctionOnSet(RefundedAmount, TxnsOf(i))
                        + SumFunctionOnSet(RequestedAmount, AcceptedRefunds(i))

(* The audit trail accounts for every refund: completed amounts add up to the
   refunded total on record, and every refund at a provider, answered or
   not, was announced by a refund_initiated event before it was sent.      *)
RefundsAreAudited ==
  \A t \in DOMAIN txns :
    /\ audit[t].completed = txns[t].refunded
    /\ audit[t].initiated >= audit[t].completed
                             + SumFunctionOnSet(RequestedAmount, RefundsSent(t))

(* The latest audit event of a transaction shows its current status, so no
   change of status, overlapping or not, goes by unaudited.                *)
AuditShowsStatus == \A t \in DOMAIN txns : audit[t].last = txns[t].status

(* A status that says money moved is never ahead of the provider's answers.*)
StatusIsBacked ==
  \A t \in DOMAIN txns :
    LET s == ledger[<<txns[t].conn, txns[t].ref>>] IN
    /\ txns[t].status = "captured" => s.captured >= txns[t].captured
    /\ txns[t].status = "voided" => s.voided
    /\ txns[t].status \in {"refunded", "partially_refunded"} => Repaid(s) > 0

-----------------------------------------------------------------------------
(* At most one call in flight.                                             *)

SingleCaller == \A c, d \in Calls : c = d

(* With one call at a time the service implements the payment lifecycle: one
   payment per idempotency key, transitions along the table, no refund
   beyond what was captured.                                               *)
Book ==
  [t \in DOMAIN txns |->
     [ref |-> txns[t].ref, status |-> txns[t].status, amount |-> txns[t].amount,
      captured |-> txns[t].captured, refunded |-> txns[t].refunded]]

Lifecycle == INSTANCE PaymentLifecycle WITH book <- Book

LifecycleSpec == Lifecycle!Spec

(* A customer is never held twice under one idempotency key, which for an
   order or a booking is the order or the booking: failing over, also across
   changes of routing, leaves at most one provider with an authorized
   intent for a reference.                                                 *)
OneHoldPerRef ==
  \A r \in Refs, c, d \in Conn :
    ledger[<<c, r>>].authorized /\ ledger[<<d, r>>].authorized => c = d

(* Between calls the books and the providers agree, whatever amount was asked
   to be captured: captured money is on record as captured, the refunds on
   record are within it and were paid out but for those asked again under a
   key already used, a void is on record.                                  *)
BooksMatchProvider ==
  (\A c \in Calls : Idle(c)) =>
    \A t \in DOMAIN txns :
      LET s == ledger[<<txns[t].conn, txns[t].ref>>] IN
      txns[t].hasProviderId =>
        /\ s.captured = Positive(txns[t].captured)
        /\ Repaid(s) = txns[t].refunded
        /\ txns[t].refunded <= s.captured
        /\ s.captured > 0 => txns[t].status \in
                               {"captured", "refunded", "partially_refunded"}
        /\ txns[t].status \in {"refunded", "partially_refunded"} => s.captured > 0
        /\ s.voided <=> txns[t].status = "voided"

(* A transaction that did not stay with the provider it was sent to first is
   in the log of failovers for the alert pipeline.  Whatever is in the log
   moved from that first provider, which had not authorized the intent, to
   another, and the record stays there unless that one declined as well.   *)
FailoverIsAccounted ==
  /\ \A t \in DOMAIN txns :
       LET u == txns[t] IN
       u.conn # u.first => <<u.ref, u.first, u.conn>> \in failoverLog
  /\ \A r \in Refs, p, f \in Conn :
       <<r, p, f>> \in failoverLog =>
         /\ p # f
         /\ ~ledger[<<p, r>>].authorized
         /\ \A t \in DOMAIN txns :
              txns[t].ref = r =>
                /\ txns[t].first = p
                /\ txns[t].conn = IF txns[t].hasProviderId THEN f ELSE p

(* Every intent that was sent ends in a record, authorized or failed; it is
   never lost in failover.                                                 *)
IntentLeavesRecord ==
  \A r \in Refs :
    (\E c \in IntentsInFlight : calls[c].ref = r)
      ~> (\E t \in DOMAIN txns : txns[t].ref = r)

-----------------------------------------------------------------------------
(* What the documentation says and the code does not ensure.               *)

(* "Handles idempotency: duplicate idempotency keys return the existing
   transaction.": also when two createPaymentIntent calls overlap.         *)
OneTxnPerKey ==
  \A t, u \in DOMAIN txns : txns[t].ref = txns[u].ref => t = u

(* "Idempotent: duplicate idempotency keys are rejected.": a refund that is on
   record was paid out, also when its key had been used before.            *)
RefundsWerePaidOut ==
  \A i \in Intents :
    SumFunctionOnSet(RefundedAmount, TxnsOf(i)) <= ledger[i].refunded

(* "should reject refund exceeding remaining captured amount": also when two
   refunds pass that check before either is answered.                      *)
RefundWithinCapture == \A t \in DOMAIN txns : txns[t].refunded <= txns[t].captured
=============================================================================
