----------------------- MODULE PaymentTransactions -------------------------
(***************************************************************************)
(* PaymentTransactionService of one tenant: intents with failover, capture,*)
(* void and refund, each cut in two by the await on the provider adapter.  *)
(*                                                                         *)
(* A service call runs without interruption up to the await, the provider  *)
(* then decides, and the call resumes at some later time; between the      *)
(* three, any other call may run.  The repository hands out live records,  *)
(* so what a resumed call reads from its transaction is the value at that  *)
(* moment, while the checks and the target status are those from before.   *)
(***************************************************************************)
EXTENDS PaymentStates, Integers, Sequences, FiniteSetsExt

CONSTANTS
  Refs,        \* orders and bookings; each has one intent idempotency key
  NumConns,    \* payment connections of the tenant, one per provider
  Calls,       \* the service calls that may be in flight at once
  RefundKeys,  \* idempotency keys the callers of processRefund supply
  Captures,    \* amounts the callers of capturePayment supply
  MaxAmount,   \* bound: the largest amount of an intent
  MaxTxns,     \* bound: transactions recorded or about to be
  MaxRefunds   \* bound: refund requests sent under one key

ASSUME PaymentAssumption ==
  /\ NumConns \in Nat \ {0}
  /\ MaxAmount \in Nat /\ MaxTxns \in Nat /\ MaxRefunds \in Nat

ASSUME CallsAssumption == IsFiniteSet(Calls)

ASSUME CapturesAssumption == Captures \subseteq Int

VARIABLES
  txns,        \* payment transaction records, in creation order
  audit,       \* what the audit events of each transaction add up to
  failoverLog, \* FailoverEvents: which intent moved from where to where
  calls,       \* the service calls in flight
  ledger,      \* what the providers have done for each intent
  refundUses   \* how many refund requests carried each key

vars == <<txns, audit, failoverLog, calls, ledger, refundUses>>

Conn   == 1..NumConns      \* numbered in creation order
NoConn == 0
Amount == 1..MaxAmount

(* first is no field of the record but its history: the connection the
   intent was sent to first.                                               *)
Txn == [ref: Refs, conn: Conn, first: Conn, hasProviderId: BOOLEAN,
        status: Status, amount: Amount, captured: Int, refunded: Int]

AuditTotals == [initiated: Nat, completed: Nat, last: Status]

Verdict    == {"pending", "accepted", "declined"}
IdleCall   == [op |-> "none"]
IntentCall == [op: {"intent", "failover"}, verdict: Verdict, ref: Refs,
               amount: Amount, conn: Conn, primary: Conn]
NoKey      == "no key"
HoldCall   == [op: {"capture", "void"}, verdict: Verdict, txn: Nat, conn: Conn,
               amount: Int, key: {NoKey}, target: Status]
RefundCall == [op: {"refund"}, verdict: Verdict, txn: Nat, conn: Conn,
               amount: Amount, key: RefundKeys, target: Status]
TxnCall    == HoldCall \cup RefundCall

(* Money moved at the provider, the refund keys it has executed, and the sum
   of the refunds it answered a second time without executing them.        *)
IntentState == [authorized: BOOLEAN, captured: Nat, voided: BOOLEAN,
                refunded: Nat, keys: SUBSET RefundKeys, repeated: Nat]

TypeOK ==
  /\ txns \in Seq(Txn)
  /\ audit \in Seq(AuditTotals) /\ Len(audit) = Len(txns)
  /\ failoverLog \in SUBSET (Refs \X Conn \X Conn)
  /\ calls \in [Calls -> {IdleCall} \cup IntentCall \cup TxnCall]
  /\ \A c \in Calls : calls[c] \in TxnCall => calls[c].txn \in DOMAIN txns
  /\ ledger \in [Conn \X Refs -> IntentState]
  /\ refundUses \in [RefundKeys -> Nat]

Init ==
  /\ txns = << >> /\ audit = << >>
  /\ failoverLog = {}
  /\ calls = [c \in Calls |-> IdleCall]
  /\ ledger = [i \in Conn \X Refs |->
                 [authorized |-> FALSE, captured |-> 0, voided |-> FALSE,
                  refunded |-> 0, keys |-> {}, repeated |-> 0]]
  /\ refundUses = [k \in RefundKeys |-> 0]

-----------------------------------------------------------------------------
(* Routing.  Connections are activated and suspended, and the routing config
   is replaced, at any time; a stretch of a call between two awaits sees one
   configuration of the tenant: its active connections, the preferred one
   (NoConn if none is configured) and whether failover is on.              *)

TenantConfig == [active: SUBSET Conn, primary: Conn \cup {NoConn},
                 failover: BOOLEAN]

(* resolveConnection: the preferred connection if active, else the first.  *)
ResolvesTo(c, tenant) ==
  /\ c \in tenant.active
  /\ IF tenant.primary \in tenant.active THEN c = tenant.primary
                                         ELSE \A d \in tenant.active : c <= d

(* resolveFailoverConnection: the first other active one, if it is on.     *)
FailsOverTo(c, excluded, tenant) ==
  LET others == tenant.active \ {excluded} IN
  tenant.failover /\ c \in others /\ \A d \in others : c <= d

-----------------------------------------------------------------------------
(* Calls in flight.                                                        *)

Idle(c) == calls[c] = IdleCall

Sends(c, call) == calls' = [calls EXCEPT ![c] = call]

Returns(c) == Sends(c, IdleCall)

Answered(c, op, verdict) ==
  /\ ~Idle(c)
  /\ calls[c].op = op
  /\ calls[c].verdict = verdict

IntentsInFlight == {c \in Calls : calls[c].op \in {"intent", "failover"}}

(* The provider-side intent of a call: providers derive the transaction id
   from the idempotency key, so equal keys meet in one intent.             *)
IntentOf(call) ==
  IF call.op \in {"intent", "failover"}
  THEN <<call.conn, call.ref>>
  ELSE <<call.conn, txns[call.txn].ref>>

(* The adapters take any amount; nothing is captured for none or less.     *)
Positive(n) == IF n > 0 THEN n ELSE 0

(* Providers derive the refund id from the idempotency key too: a request
   under a key that they have executed is answered again and pays nothing. *)
Repeats(call) == \E r \in Refs : call.key \in ledger[<<call.conn, r>>].keys

Refunded(s, call) ==
  IF Repeats(call) THEN [s EXCEPT !.repeated = @ + call.amount]
                   ELSE [s EXCEPT !.refunded = @ + call.amount,
                                  !.keys = @ \cup {call.key}]

(* The provider accepts or declines; either way the promise is resolved.   *)
Accept(c) ==
  LET call == calls[c]
      i    == IntentOf(call) IN
  /\ ~Idle(c) /\ call.verdict = "pending"
  /\ calls' = [calls EXCEPT ![c].verdict = "accepted"]
  /\ ledger' =
       CASE call.op \in {"intent", "failover"} ->
              [ledger EXCEPT ![i].authorized = TRUE]
         [] call.op = "capture" ->
              [ledger EXCEPT ![i].captured = @ + Positive(call.amount)]
         [] call.op = "void" -> [ledger EXCEPT ![i].voided = TRUE]
         [] call.op = "refund" ->
              [ledger EXCEPT ![i] = Refunded(@, call)]
  /\ UNCHANGED <<txns, audit, failoverLog, refundUses>>

Decline(c) ==
  /\ ~Idle(c) /\ calls[c].verdict = "pending"
  /\ calls' = [calls EXCEPT ![c].verdict = "declined"]
  /\ UNCHANGED <<txns, audit, failoverLog, ledger, refundUses>>

-----------------------------------------------------------------------------
(* createPaymentIntent.                                                    *)

(* Mutant: the idempotency lookup is missing.                              *)
CreatePaymentIntent_NoLookup(c, r, a, tenant) ==
  /\ Idle(c)
  /\ Len(txns) + Cardinality(IntentsInFlight) < MaxTxns
  /\ \E p \in Conn :
       /\ ResolvesTo(p, tenant)
       /\ Sends(c, [op |-> "intent", verdict |-> "pending", ref |-> r,
                    amount |-> a, conn |-> p, primary |-> p])
  /\ UNCHANGED <<txns, audit, failoverLog, ledger, refundUses>>

CreatePaymentIntent(c, r, a, tenant) ==
  /\ Idle(c)
  /\ \A i \in DOMAIN txns : txns[i].ref # r
  /\ Len(txns) + Cardinality(IntentsInFlight) < MaxTxns
  /\ \E p \in Conn :
       /\ ResolvesTo(p, tenant)
       /\ Sends(c, [op |-> "intent", verdict |-> "pending", ref |-> r,
                    amount |-> a, conn |-> p, primary |-> p])
  /\ UNCHANGED <<txns, audit, failoverLog, ledger, refundUses>>

NewTxn(call, conn, hasId, s) ==
  [ref |-> call.ref, conn |-> conn, first |-> call.primary,
   hasProviderId |-> hasId, status |-> s, amount |-> call.amount,
   captured |-> 0, refunded |-> 0]

(* Mutants: no audit event for a new transaction; the failover branch stores
   the primary connection.                                                 *)
RecordTxn_NoAudit(call, conn, hasId, s) ==
  /\ txns' = Append(txns, NewTxn(call, conn, hasId, s))
  /\ UNCHANGED audit

RecordTxn_PrimaryConn(call, conn, hasId, s) ==
  /\ txns' = Append(txns, NewTxn(call, call.primary, hasId, s))
  /\ audit' = Append(audit, [initiated |-> 0, completed |-> 0, last |-> s])

RecordTxn(call, conn, hasId, s) ==
  /\ txns' = Append(txns, NewTxn(call, conn, hasId, s))
  /\ audit' = Append(audit, [initiated |-> 0, completed |-> 0, last |-> s])

IntentAuthorized(c) ==
  /\ Answered(c, "intent", "accepted") \/ Answered(c, "failover", "accepted")
  /\ RecordTxn(calls[c], calls[c].conn, TRUE, "authorized")
  /\ Returns(c)
  /\ UNCHANGED <<failoverLog, ledger, refundUses>>

(* Mutant: the failover is not logged.                                     *)
IntentFailsOver_NotLogged(c, tenant) ==
  /\ Answered(c, "intent", "declined")
  /\ \E f \in Conn :
       /\ FailsOverTo(f, calls[c].conn, tenant)
       /\ Sends(c, [calls[c] EXCEPT !.op = "failover", !.conn = f,
                                    !.verdict = "pending"])
  /\ UNCHANGED <<txns, audit, failoverLog, ledger, refundUses>>

IntentFailsOver(c, tenant) ==
  /\ Answered(c, "intent", "declined")
  /\ \E f \in Conn :
       /\ FailsOverTo(f, calls[c].conn, tenant)
       /\ failoverLog' = failoverLog \cup {<<calls[c].ref, calls[c].conn, f>>}
       /\ Sends(c, [calls[c] EXCEPT !.op = "failover", !.conn = f,
                                    !.verdict = "pending"])
  /\ UNCHANGED <<txns, audit, ledger, refundUses>>

(* Mutant: an intent that the failover provider declines is not recorded.  *)
IntentFails_NotAfterFailover(c, tenant) ==
  /\ Answered(c, "intent", "declined")
  /\ \A f \in Conn : ~FailsOverTo(f, calls[c].conn, tenant)
  /\ RecordTxn(calls[c], calls[c].primary, FALSE, "failed")
  /\ Returns(c)
  /\ UNCHANGED <<failoverLog, ledger, refundUses>>

IntentFails(c, tenant) ==
  /\ \/ Answered(c, "failover", "declined")
     \/ /\ Answered(c, "intent", "declined")
        /\ \A f \in Conn : ~FailsOverTo(f, calls[c].conn, tenant)
  /\ RecordTxn(calls[c], calls[c].primary, FALSE, "failed")
  /\ Returns(c)
  /\ UNCHANGED <<failoverLog, ledger, refundUses>>

-----------------------------------------------------------------------------
(* capturePayment, voidPayment and processRefund: the part up to the await.*)

(* Every later operation goes to the connection that took the intent.      *)
TxnRequest(op, t, a, k, target) ==
  [op |-> op, verdict |-> "pending", txn |-> t, conn |-> txns[t].conn,
   amount |-> a, key |-> k, target |-> target]

(* The amount to capture is the caller's, zero and less included.          *)
CapturePayment(c, t, a) ==
  /\ Idle(c)
  /\ IsValidTransition(txns[t].status, "captured")
  /\ Sends(c, TxnRequest("capture", t, a, NoKey, "captured"))
  /\ UNCHANGED <<txns, audit, failoverLog, ledger, refundUses>>

VoidPayment(c, t) ==
  /\ Idle(c)
  /\ IsValidTransition(txns[t].status, "voided")
  /\ Sends(c, TxnRequest("void", t, txns[t].amount, NoKey, "voided"))
  /\ UNCHANGED <<txns, audit, failoverLog, ledger, refundUses>>

(* Mutant: a refund is full only if it alone is the captured amount.       *)
RefundTarget_IgnoresEarlier(t, a) ==
  IF a = txns[t].captured THEN "refunded" ELSE "partially_refunded"

(* Mutant: the refund is compared with what was authorized.                *)
RefundTarget_OfAuthorized(t, a) ==
  IF txns[t].refunded + a = txns[t].amount THEN "refunded"
                                           ELSE "partially_refunded"

RefundTarget(t, a) ==
  IF txns[t].refunded + a = txns[t].captured THEN "refunded"
                                             ELSE "partially_refunded"

(* Mutant: refund_initiated is not emitted before the provider is called.  *)
ProcessRefund_NotAnnounced(c, t, a, k) ==
  /\ Idle(c) /\ refundUses[k] < MaxRefunds
  /\ txns[t].refunded + a <= txns[t].captured
  /\ txns[t].status \in Refundable
  /\ Sends(c, TxnRequest("refund", t, a, k, RefundTarget(t, a)))
  /\ refundUses' = [refundUses EXCEPT ![k] = @ + 1]
  /\ UNCHANGED <<txns, audit, failoverLog, ledger>>

ProcessRefund(c, t, a, k) ==
  /\ Idle(c) /\ refundUses[k] < MaxRefunds
  /\ txns[t].refunded + a <= txns[t].captured
  /\ txns[t].status \in Refundable
  /\ Sends(c, TxnRequest("refund", t, a, k, RefundTarget(t, a)))
  /\ audit' = [audit EXCEPT ![t].initiated = @ + a, ![t].last = txns[t].status]
  /\ refundUses' = [refundUses EXCEPT ![k] = @ + 1]
  /\ UNCHANGED <<txns, failoverLog, ledger>>

-----------------------------------------------------------------------------
(* The part after the await.                                               *)

(* Mutant: the status is updated and no audit event is emitted.            *)
UpdateTxn_Silent(t, newTxn, refundCompleted) ==
  /\ txns' = [txns EXCEPT ![t] = newTxn]
  /\ audit' = [audit EXCEPT ![t].completed = @ + refundCompleted]

(* updateTransactionStatus and the audit event that follows it.            *)
UpdateTxn(t, newTxn, refundCompleted) ==
  /\ txns' = [txns EXCEPT ![t] = newTxn]
  /\ audit' = [audit EXCEPT ![t].completed = @ + refundCompleted,
                            ![t].last = newTxn.status]

(* Mutant: a partial capture is recorded as a capture of the whole amount.  *)
CaptureSettles_WholeAmount(c) ==
  LET call == calls[c]  t == call.txn IN
  /\ Answered(c, "capture", "accepted")
  /\ UpdateTxn(t, [txns[t] EXCEPT !.status = call.target,
                                  !.captured = txns[t].amount], 0)
  /\ Returns(c)
  /\ UNCHANGED <<failoverLog, ledger, refundUses>>

CaptureSettles(c) ==
  LET call == calls[c]  t == call.txn IN
  /\ Answered(c, "capture", "accepted")
  /\ UpdateTxn(t, [txns[t] EXCEPT !.status = call.target,
                                  !.captured = call.amount], 0)
  /\ Returns(c)
  /\ UNCHANGED <<failoverLog, ledger, refundUses>>

(* Mutant: the provider's answer to a void is not looked at.               *)
VoidSettles_AnyAnswer(c) ==
  LET call == calls[c]  t == call.txn IN
  /\ Answered(c, "void", "accepted") \/ Answered(c, "void", "declined")
  /\ UpdateTxn(t, [txns[t] EXCEPT !.status = call.target], 0)
  /\ Returns(c)
  /\ UNCHANGED <<failoverLog, ledger, refundUses>>

VoidSettles(c) ==
  LET call == calls[c]  t == call.txn IN
  /\ Answered(c, "void", "accepted")
  /\ UpdateTxn(t, [txns[t] EXCEPT !.status = call.target], 0)
  /\ Returns(c)
  /\ UNCHANGED <<failoverLog, ledger, refundUses>>

(* A declined capture or void fails the transaction, whatever it is now.   *)
CaptureOrVoidFails(c) ==
  LET t == calls[c].txn IN
  /\ Answered(c, "capture", "declined") \/ Answered(c, "void", "declined")
  /\ UpdateTxn(t, [txns[t] EXCEPT !.status = "failed"], 0)
  /\ Returns(c)
  /\ UNCHANGED <<failoverLog, ledger, refundUses>>

(* Mutant: the refunded total is replaced instead of added to.             *)
RefundSettles_Overwrites(c) ==
  LET call == calls[c]  t == call.txn IN
  /\ Answered(c, "refund", "accepted")
  /\ UpdateTxn(t, [txns[t] EXCEPT !.status = call.target,
                                  !.refunded = call.amount], call.amount)
  /\ Returns(c)
  /\ UNCHANGED <<failoverLog, ledger, refundUses>>

RefundSettles(c) ==
  LET call == calls[c]  t == call.txn IN
  /\ Answered(c, "refund", "accepted")
  /\ UpdateTxn(t, [txns[t] EXCEPT !.status = call.target,
                                  !.refunded = @ + call.amount], call.amount)
  /\ Returns(c)
  /\ UNCHANGED <<failoverLog, ledger, refundUses>>

(* A declined refund throws: the transaction keeps its status.             *)
RefundFails(c) ==
  /\ Answered(c, "refund", "declined")
  /\ Returns(c)
  /\ UNCHANGED <<txns, audit, failoverLog, ledger, refundUses>>
-----------------------------------------------------------------------------
(* The specification.  A rejected call changes nothing and has no action.  *)

Resume(c) ==
  \/ \E tenant \in TenantConfig : IntentFailsOver(c, tenant) \/ IntentFails(c, tenant)
  \/ IntentAuthorized(c)
  \/ CaptureSettles(c) \/ VoidSettles(c) \/ CaptureOrVoidFails(c)
  \/ RefundSettles(c) \/ RefundFails(c)

Start(c) ==
  \/ \E r \in Refs, a \in Amount, tenant \in TenantConfig :
       CreatePaymentIntent(c, r, a, tenant)
  \/ \E t \in DOMAIN txns :
       \/ \E a \in Captures \cup {txns[t].amount} : CapturePayment(c, t, a)
       \/ VoidPayment(c, t)
  \/ \E t \in DOMAIN txns, a \in Amount, k \in RefundKeys :
       ProcessRefund(c, t, a, k)

Next == \E c \in Calls : Start(c) \/ Accept(c) \/ Decline(c) \/ Resume(c)

Spec == Init /\ [][Next]_vars

(* Adapters resolve their promises and the event loop resumes the awaiting
   call; nobody is obliged to start one.                                   *)
Fairness == \A c \in Calls : WF_vars(Accept(c) \/ Decline(c)) /\ WF_vars(Resume(c))

FairSpec == Spec /\ Fairness
=============================================================================
