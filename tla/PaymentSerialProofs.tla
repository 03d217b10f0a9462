------------------------ MODULE PaymentSerialProofs ------------------------
(***************************************************************************)
(* Proofs about PaymentTransactions when at most one call is in flight, as *)
(* for a tenant whose requests do not overlap: for any number of orders,   *)
(* providers and changes of routing and for any amounts.                   *)
(***************************************************************************)
EXTENDS PaymentTransactionsProofs

-----------------------------------------------------------------------------
(* The invariant.                                                          *)

(* A reference has one transaction, and none while its intent is open. *)
OneRecordPerRef ==
  /\ \A t, u \in DOMAIN txns : txns[t].ref = txns[u].ref => t = u
  /\ \A c \in IntentsInFlight, t \in DOMAIN txns : txns[t].ref # calls[c].ref

Holds(t, p, r) == txns[t].hasProviderId /\ txns[t].conn = p /\ txns[t].ref = r

WillHold(c, p, r) ==
  /\ calls[c].verdict = "accepted"
  /\ calls[c].conn = p /\ calls[c].ref = r

(* An authorization belongs to a transaction or to an intent whose acceptance
   is about to be recorded.                                                *)
HoldsAreKnown ==
  \A p \in Conn, r \in Refs :
    ledger[<<p, r>>].authorized =>
      \/ \E t \in DOMAIN txns : Holds(t, p, r)
      \/ \E c \in IntentsInFlight : WillHold(c, p, r)

(* A logged failover is the story of one intent, in flight or recorded. *)
FailoverIsTold(r, p, f) ==
  /\ p # f
  /\ \/ \E t \in DOMAIN txns : txns[t].ref = r
     \/ \E c \in IntentsInFlight : calls[c].ref = r
  /\ \A t \in DOMAIN txns :
       txns[t].ref = r =>
         /\ txns[t].first = p
         /\ txns[t].conn = IF txns[t].hasProviderId THEN f ELSE p
  /\ \A c \in IntentsInFlight :
       calls[c].ref = r =>
         calls[c].op = "failover" /\ calls[c].conn = f /\ calls[c].primary = p

FailoversAreTold ==
  /\ \A c \in Calls : calls[c].op = "intent" => calls[c].primary = calls[c].conn
  /\ \A r \in Refs, p, f \in Conn :
       <<r, p, f>> \in failoverLog => FailoverIsTold(r, p, f)

(* Whatever left its first provider is in the log. *)
Moved(txn) == txn.conn # txn.first

MovesAreLogged ==
  /\ \A c \in Calls :
       calls[c].op = "failover" =>
         <<calls[c].ref, calls[c].primary, calls[c].conn>> \in failoverLog
  /\ \A t \in DOMAIN txns :
       Moved(txns[t]) => <<txns[t].ref, txns[t].first, txns[t].conn>> \in failoverLog

(* The call in flight, whose checks nothing has overtaken. *)
CaptureStands(call) ==
  /\ txns[call.txn].status = "authorized"
  /\ call.amount \in Captures \cup {txns[call.txn].amount}
  /\ call.verdict = "accepted" =>
       ledger[TxnIntent(call.txn)].captured = Positive(call.amount)

VoidStands(call) == txns[call.txn].status = "authorized"

RefundStands(call) ==
  LET txn == txns[call.txn] IN
  /\ txn.status \in Refundable
  /\ txn.refunded + call.amount <= txn.captured
  /\ call.target = RefundTarget(call.txn, call.amount)
  /\ call.verdict = "accepted" =>
       Repaid(ledger[TxnIntent(call.txn)]) = txn.refunded + call.amount

ChecksStand ==
  \A c \in Calls :
    /\ calls[c].op = "capture" => CaptureStands(calls[c])
    /\ calls[c].op = "void" => VoidStands(calls[c])
    /\ calls[c].op = "refund" => RefundStands(calls[c])

(* An accepted operation that its transaction does not show yet. *)
Owes(t, op) ==
  \E c \in InFlight(op) : calls[c].txn = t /\ calls[c].verdict = "accepted"

(* Nothing is on record as captured but in the statuses that say so, and only
   what was captured can be refunded.                                      *)
StatusOfMoney(status, captured) ==
  /\ status \notin {"captured", "refunded", "partially_refunded"} => captured = 0
  /\ status \in {"refunded", "partially_refunded"} => captured > 0

(* A transaction agrees with its provider on all that is not owed. *)
Agrees(t) ==
  LET s == ledger[TxnIntent(t)]  txn == txns[t] IN
  /\ txn.refunded <= Positive(txn.captured)
  /\ StatusOfMoney(txn.status, txn.captured)
  /\ ~Owes(t, "capture") => s.captured = Positive(txn.captured)
  /\ ~Owes(t, "refund") => Repaid(s) = txn.refunded
  /\ ~Owes(t, "void") => (s.voided <=> txn.status = "voided")

BooksAgree == \A t \in DOMAIN txns : txns[t].hasProviderId => Agrees(t)

(* Nothing has happened on an intent that has no transaction. *)
Untouched(s) == s.captured = 0 /\ Repaid(s) = 0 /\ ~s.voided

OthersUntouched ==
  \A p \in Conn, r \in Refs :
    (\A t \in DOMAIN txns : ~Holds(t, p, r)) => Untouched(ledger[<<p, r>>])

Serial ==
  /\ OneRecordPerRef /\ HoldsAreKnown /\ FailoversAreTold /\ MovesAreLogged
  /\ ChecksStand /\ BooksAgree /\ OthersUntouched

-----------------------------------------------------------------------------
(* The transition table.                                                   *)

(* Only an authorized payment can be captured or voided. *)
LEMMA CapturableIsAuthorized ==
  ASSUME NEW s \in Status
  PROVE  /\ IsValidTransition(s, "captured") => s = "authorized"
         /\ IsValidTransition(s, "voided") => s = "authorized"
  <1>1. /\ Transitions["created"] = {"authorized", "failed"}
        /\ Transitions["captured"] = {"refunded", "partially_refunded", "failed"}
        /\ Transitions["voided"] = {} /\ Transitions["refunded"] = {}
        /\ Transitions["partially_refunded"] = {"refunded", "partially_refunded"}
        /\ Transitions["failed"] = {}
    BY DEF Transitions
  <1> QED
    BY <1>1 DEF IsValidTransition, Status
-----------------------------------------------------------------------------
(* Steps that leave the transactions and the ledger alone.                 *)

Unaccepted(call) == call.op = "none" \/ call.verdict # "accepted"

CallStands(call) ==
  /\ call.op \in {"intent", "failover"} => \A t \in DOMAIN txns : txns[t].ref # call.ref
  /\ call.op = "capture" => CaptureStands(call)
  /\ call.op = "void" => VoidStands(call)
  /\ call.op = "refund" => RefundStands(call)

(* With one caller, what is said of every call is said of this one. *)
LEMMA OneCall ==
  ASSUME SingleCaller, NEW c \in Calls
  PROVE  \A d \in Calls : d = c
  BY DEF SingleCaller

(* The only call, none of whose effects is outstanding before or after. *)
LEMMA SendIsSerial ==
  ASSUME SingleCaller, TypeOK, Serial, NEW c \in Calls,
         NEW call \in {IdleCall} \cup IntentCall \cup TxnCall, Sends(c, call),
         UNCHANGED <<txns, ledger>>,
         Unaccepted(calls[c]), Unaccepted(call), CallStands(call),
         FailoversAreTold', MovesAreLogged'
  PROVE  Serial'
  <1>1. calls'[c] = call /\ \A d \in Calls : d = c
    BY SendsType, OneCall
  <1>2. OneRecordPerRef'
    BY <1>1 DEF Serial, OneRecordPerRef, IntentsInFlight, CallStands
  <1>3. HoldsAreKnown'
    <2> SUFFICES ASSUME NEW p \in Conn, NEW r \in Refs, ledger[<<p, r>>].authorized
                 PROVE  \E t \in DOMAIN txns : Holds(t, p, r)'
      BY DEF HoldsAreKnown
    <2>1. \A d \in IntentsInFlight : ~WillHold(d, p, r)
      BY <1>1 DEF IntentsInFlight, WillHold, Unaccepted
    <2>2. PICK t \in DOMAIN txns : Holds(t, p, r)
      BY <2>1 DEF Serial, HoldsAreKnown
    <2> QED
      BY <2>2 DEF Holds
  <1>4. ChecksStand'
    BY <1>1 DEF CallStands, ChecksStand, CaptureStands, VoidStands, RefundStands,
                RefundTarget, TxnIntent
  <1>5. BooksAgree'
    <2>1. \A t, op : (op # "none" => ~Owes(t, op)) /\ (op # "none" => ~Owes(t, op)')
      BY <1>1 DEF Owes, InFlight, Unaccepted
    <2> QED
      BY <2>1 DEF Serial, BooksAgree, Agrees, TxnIntent
  <1>6. OthersUntouched'
    BY DEF Serial, OthersUntouched, Untouched, Holds
  <1> QED
    BY <1>2, <1>3, <1>4, <1>5, <1>6 DEF Serial

(* Nothing is told about failover that the new call contradicts. *)
LEMMA SendIsTold ==
  ASSUME SingleCaller, TypeOK, Serial, NEW c \in Calls,
         NEW call \in {IdleCall} \cup IntentCall \cup TxnCall, Sends(c, call),
         UNCHANGED <<txns, failoverLog>>,
         calls[c].op \notin {"intent", "failover"},
         call.op # "failover",
         call.op = "intent" =>
           call.primary = call.conn /\ \A t \in DOMAIN txns : txns[t].ref # call.ref
  PROVE  FailoversAreTold' /\ MovesAreLogged'
  <1>1. calls'[c] = call /\ \A d \in Calls : d = c
    BY SendsType, OneCall
  <1>2. ASSUME NEW r \in Refs, NEW p \in Conn, NEW f \in Conn, <<r, p, f>> \in failoverLog
        PROVE  FailoverIsTold(r, p, f)'
    <2>1. FailoverIsTold(r, p, f) /\ IntentsInFlight = {}
      BY <1>1, <1>2 DEF Serial, FailoversAreTold, IntentsInFlight
    <2>2. \E t \in DOMAIN txns : txns[t].ref = r
      BY <2>1 DEF FailoverIsTold
    <2>3. \A d \in IntentsInFlight' : calls'[d].ref # r
      BY <1>1, <2>2 DEF IntentsInFlight
    <2> QED
      BY <2>1, <2>2, <2>3 DEF FailoverIsTold
  <1>3. MovesAreLogged'
    BY <1>1 DEF Serial, MovesAreLogged
  <1> QED
    BY <1>1, <1>2, <1>3 DEF FailoversAreTold

(* A request that starts. *)
LEMMA StartIsSerial ==
  ASSUME SingleCaller, TypeOK, Grounding, Serial, NEW c \in Calls, Start(c)
  PROVE  Serial'
  <1>0. Unaccepted(calls[c]) /\ calls[c].op = "none"
    BY CallShape DEF Start, CreatePaymentIntent, CapturePayment, VoidPayment,
                     ProcessRefund, Unaccepted, Idle, IdleCall
  <1>1. ASSUME NEW r \in Refs, NEW a \in Amount, NEW tenant \in TenantConfig,
               CreatePaymentIntent(c, r, a, tenant)
        PROVE  Serial'
    <2>1. PICK p \in Conn :
            Sends(c, [op |-> "intent", verdict |-> "pending", ref |-> r,
                      amount |-> a, conn |-> p, primary |-> p])
      BY <1>1 DEF CreatePaymentIntent
    <2> DEFINE new == [op |-> "intent", verdict |-> "pending", ref |-> r,
                       amount |-> a, conn |-> p, primary |-> p]
    <2>2. new \in IntentCall
      BY DEF IntentCall, Verdict
    <2>3. /\ new.op = "intent" /\ new.primary = new.conn
          /\ \A t \in DOMAIN txns : txns[t].ref # new.ref
          /\ Unaccepted(new)
      BY <1>1 DEF CreatePaymentIntent, Unaccepted
    <2>4. Sends(c, new) /\ UNCHANGED <<txns, ledger, failoverLog>>
      BY <1>1, <2>1 DEF CreatePaymentIntent
    <2> HIDE DEF new
    <2>5. CallStands(new)
      BY <2>3 DEF CallStands
    <2>6. FailoversAreTold' /\ MovesAreLogged'
      BY <1>0, <2>2, <2>3, <2>4, SendIsTold
    <2> QED
      BY <1>0, <2>2, <2>3, <2>4, <2>5, <2>6, SendIsSerial
  <1>2. ASSUME NEW call \in TxnCall, Sends(c, call), call.verdict = "pending",
               CallStands(call), UNCHANGED <<txns, ledger, failoverLog>>
        PROVE  Serial'
    <2>1. call.op \in {"capture", "void", "refund"}
      BY DEF TxnCall, HoldCall, RefundCall
    <2>2. FailoversAreTold' /\ MovesAreLogged'
      BY <1>0, <1>2, <2>1, SendIsTold
    <2> QED
      BY <1>0, <1>2, <2>2, SendIsSerial DEF Unaccepted
  <1>3. ASSUME NEW t \in DOMAIN txns, NEW a \in Captures \cup {txns[t].amount},
               CapturePayment(c, t, a)
        PROVE  Serial'
    <2> DEFINE new == TxnRequest("capture", t, a, NoKey, "captured")
    <2>1. new \in TxnCall
      BY CaptureAmounts, RequestType DEF Status
    <2>2. txns[t].status = "authorized"
      BY <1>3, TxnAt, CapturableIsAuthorized DEF CapturePayment, Txn
    <2>3. CallStands(new) /\ new.verdict = "pending"
      BY <2>2 DEF CallStands, CaptureStands, TxnRequest
    <2>4. Sends(c, new) /\ UNCHANGED <<txns, ledger, failoverLog>>
      BY <1>3 DEF CapturePayment
    <2> HIDE DEF new
    <2> QED
      BY <1>2, <2>1, <2>3, <2>4
  <1>4. ASSUME NEW t \in DOMAIN txns, VoidPayment(c, t)
        PROVE  Serial'
    <2> DEFINE new == TxnRequest("void", t, txns[t].amount, NoKey, "voided")
    <2>1. txns[t].amount \in Int
      BY CaptureAmounts
    <2>2. new \in TxnCall
      BY <2>1, RequestType DEF Status
    <2>3. txns[t].status = "authorized"
      BY <1>4, TxnAt, CapturableIsAuthorized DEF VoidPayment, Txn
    <2>4. CallStands(new) /\ new.verdict = "pending"
      BY <2>3 DEF CallStands, VoidStands, TxnRequest
    <2>5. Sends(c, new) /\ UNCHANGED <<txns, ledger, failoverLog>>
      BY <1>4 DEF VoidPayment
    <2> HIDE DEF new
    <2> QED
      BY <1>2, <2>2, <2>4, <2>5
  <1>5. ASSUME NEW t \in DOMAIN txns, NEW a \in Amount, NEW k \in RefundKeys,
               ProcessRefund(c, t, a, k)
        PROVE  Serial'
    <2> DEFINE new == TxnRequest("refund", t, a, k, RefundTarget(t, a))
    <2>1. RefundTarget(t, a) \in {"refunded", "partially_refunded"}
      BY DEF RefundTarget
    <2>2. new \in TxnCall
      BY <2>1, RequestType DEF Status
    <2>3. CallStands(new) /\ new.verdict = "pending"
      BY <1>5 DEF CallStands, RefundStands, TxnRequest, ProcessRefund
    <2>4. Sends(c, new) /\ UNCHANGED <<txns, ledger, failoverLog>>
      BY <1>5 DEF ProcessRefund
    <2> HIDE DEF new
    <2> QED
      BY <1>2, <2>2, <2>3, <2>4
  <1> QED
    BY <1>1, <1>3, <1>4, <1>5 DEF Start

-----------------------------------------------------------------------------
(* The provider's answer.                                                  *)

(* An answered call differs from the pending one in its verdict only. *)
LEMMA VerdictIsGiven ==
  ASSUME TypeOK, NEW c \in Calls, ~Idle(c), NEW v \in Verdict,
         calls' = [calls EXCEPT ![c].verdict = v]
  PROVE  LET call == calls[c]  new == [call EXCEPT !.verdict = v] IN
         /\ new \in IntentCall \cup TxnCall /\ Sends(c, new)
         /\ new.op = call.op /\ new.op # "none" /\ new.verdict = v
         /\ call.op \in {"intent", "failover"} =>
              /\ call \in IntentCall
              /\ new.ref = call.ref /\ new.conn = call.conn
              /\ new.primary = call.primary
         /\ call.op \in {"capture", "void", "refund"} =>
              /\ call \in TxnCall /\ new \in TxnCall
              /\ new.txn = call.txn /\ new.amount = call.amount
              /\ new.target = call.target
  <1> DEFINE call == calls[c]
             new  == [call EXCEPT !.verdict = v]
  <1>1. Sends(c, new)
    BY DEF Sends, TypeOK
  <1>2. CASE call.op \in {"intent", "failover"}
    <2>1. call \in IntentCall
      BY <1>2, CallShape
    <2> QED
      BY <1>1, <1>2, <2>1 DEF IntentCall
  <1>3. CASE call.op \in {"capture", "void", "refund"}
    <2>1. call \in TxnCall
      BY <1>3, CallShape
    <2> QED
      BY <1>1, <1>3, <2>1 DEF TxnCall, HoldCall, RefundCall
  <1> QED
    BY <1>2, <1>3, CallShape

(* What exactly an accepted call adds to the ledger. *)
LEMMA AcceptedEffect ==
  ASSUME TypeOK, NEW c \in Calls, Accept(c)
  PROVE  LET call == calls[c]  i == IntentOf(call)  s == ledger[i]  n == ledger'[i] IN
         /\ i \in Conn \X Refs
         /\ \A j \in Conn \X Refs : j # i => ledger'[j] = ledger[j]
         /\ n.authorized = (s.authorized \/ call.op \in {"intent", "failover"})
         /\ n.voided = (s.voided \/ call.op = "void")
         /\ n.captured = IF call.op = "capture" THEN s.captured + Positive(call.amount)
                                                ELSE s.captured
         /\ Repaid(n) = IF call.op = "refund" THEN Repaid(s) + call.amount
                                              ELSE Repaid(s)
  <1> DEFINE call == calls[c]
             i    == IntentOf(call)
  <1>1. /\ ~Idle(c) /\ i \in Conn \X Refs /\ ledger[i] \in IntentState
        /\ ledger \in [Conn \X Refs -> IntentState]
    BY IntentOfCall DEF Accept, TypeOK
  <1>2. CASE call.op \in {"intent", "failover"}
    <2>1. ledger' = [ledger EXCEPT ![i].authorized = TRUE]
      BY <1>2 DEF Accept
    <2> HIDE DEF i
    <2>2. (\A j \in Conn \X Refs : j # i => ledger'[j] = ledger[j])
          /\ ledger'[i] = [ledger[i] EXCEPT !.authorized = TRUE]
      BY <1>1, <2>1
    <2> QED
      BY <1>1, <1>2, <2>2 DEF IntentState, Repaid, i
  <1>3. CASE call.op = "capture"
    <2>1. ledger' = [ledger EXCEPT ![i].captured = @ + Positive(call.amount)]
      BY <1>3 DEF Accept
    <2> HIDE DEF i
    <2>2. (\A j \in Conn \X Refs : j # i => ledger'[j] = ledger[j])
          /\ ledger'[i] = [ledger[i] EXCEPT !.captured = @ + Positive(call.amount)]
      BY <1>1, <2>1
    <2> QED
      BY <1>1, <1>3, <2>2 DEF IntentState, Repaid, i
  <1>4. CASE call.op = "void"
    <2>1. ledger' = [ledger EXCEPT ![i].voided = TRUE]
      BY <1>4 DEF Accept
    <2> HIDE DEF i
    <2>2. (\A j \in Conn \X Refs : j # i => ledger'[j] = ledger[j])
          /\ ledger'[i] = [ledger[i] EXCEPT !.voided = TRUE]
      BY <1>1, <2>1
    <2> QED
      BY <1>1, <1>4, <2>2 DEF IntentState, Repaid, i
  <1>5. CASE call.op = "refund"
    <2>1. ledger' = [ledger EXCEPT ![i] = Refunded(@, call)] /\ call \in RefundCall
      BY <1>5, CallShape DEF Accept
    <2> HIDE DEF i
    <2>2. (\A j \in Conn \X Refs : j # i => ledger'[j] = ledger[j])
          /\ ledger'[i] = Refunded(ledger[i], call)
      BY <1>1, <2>1
    <2>3. PICK s : s = ledger[i]
      OBVIOUS
    <2>4. PICK n : n = Refunded(s, call)
      OBVIOUS
    <2>5. /\ Repaid(n) = Repaid(s) + call.amount /\ n.authorized = s.authorized
          /\ n.captured = s.captured /\ n.voided = s.voided
      BY <1>1, <2>1, <2>3, <2>4, RefundedEntry
    <2>6. s.authorized \in BOOLEAN /\ s.voided \in BOOLEAN
      BY <1>1, <2>3 DEF IntentState
    <2> QED
      BY <1>1, <1>5, <2>2, <2>3, <2>4, <2>5, <2>6 DEF i
  <1> QED
    BY <1>1, <1>2, <1>3, <1>4, <1>5, CallShape

(* An accepted intent is a hold of its provider, about to be recorded. *)
LEMMA IntentAcceptIsSerial ==
  ASSUME SingleCaller, TypeOK, Serial, NEW c \in Calls, Accept(c),
         calls[c].op \in {"intent", "failover"}
  PROVE  Serial'
  <1> DEFINE call == calls[c]
             new  == [call EXCEPT !.verdict = "accepted"]
             i    == <<call.conn, call.ref>>
  <1>1. /\ ~Idle(c) /\ call.verdict = "pending" /\ UNCHANGED <<txns, failoverLog>>
        /\ calls' = [calls EXCEPT ![c].verdict = "accepted"]
    BY DEF Accept
  <1>2. /\ calls'[c] = new /\ \A d \in Calls : d = c
        /\ new.op = call.op /\ new.verdict = "accepted"
        /\ new.ref = call.ref /\ new.conn = call.conn /\ new.primary = call.primary
        /\ call \in IntentCall
    BY <1>1, VerdictIsGiven, SendsType, OneCall DEF Verdict
  <1> HIDE DEF new
  <1>3. /\ \A j \in Conn \X Refs : j # i => ledger'[j] = ledger[j]
        /\ \A j \in Conn \X Refs :
             /\ ledger'[j].captured = ledger[j].captured
             /\ Repaid(ledger'[j]) = Repaid(ledger[j])
             /\ ledger'[j].voided = ledger[j].voided
    <2>1. i = IntentOf(call) /\ call.op # "void"
      BY DEF IntentOf
    <2>2. ledger[i].voided \in BOOLEAN /\ i \in Conn \X Refs
      BY <1>2 DEF IntentCall, TypeOK, IntentState
    <2> QED
      BY <2>1, <2>2, AcceptedEffect
  <1>4. OneRecordPerRef'
    BY <1>1, <1>2 DEF Serial, OneRecordPerRef, IntentsInFlight
  <1>5. HoldsAreKnown'
    <2> SUFFICES ASSUME NEW p \in Conn, NEW r \in Refs, ledger'[<<p, r>>].authorized
                 PROVE  \/ \E t \in DOMAIN txns' : Holds(t, p, r)'
                        \/ \E d \in IntentsInFlight' : WillHold(d, p, r)'
      BY DEF HoldsAreKnown
    <2>1. CASE <<p, r>> = i
      BY <1>2, <2>1 DEF IntentsInFlight, WillHold
    <2>2. CASE <<p, r>> # i
      <3>1. ledger[<<p, r>>].authorized
        BY <1>3, <2>2
      <3>2. PICK t \in DOMAIN txns : Holds(t, p, r)
        BY <3>1, <1>1, <1>2 DEF Serial, HoldsAreKnown, IntentsInFlight, WillHold
      <3> QED
        BY <3>2, <1>1 DEF Holds
    <2> QED
      BY <2>1, <2>2
  <1>6. FailoversAreTold'
    BY <1>1, <1>2 DEF Serial, FailoversAreTold, FailoverIsTold, IntentsInFlight
  <1>6a. MovesAreLogged'
    BY <1>1, <1>2 DEF Serial, MovesAreLogged
  <1>7. ChecksStand'
    BY <1>2 DEF ChecksStand
  <1>8. BooksAgree'
    <2>1. \A t \in DOMAIN txns : <<txns[t].conn, txns[t].ref>> \in Conn \X Refs
      BY TxnAt
    <2>2. \A t, op : op \in {"capture", "void", "refund"} =>
                       ~Owes(t, op) /\ ~Owes(t, op)'
      BY <1>2 DEF Owes, InFlight
    <2>3. \A t \in DOMAIN txns : txns[t].hasProviderId => Agrees(t)
      BY DEF Serial, BooksAgree
    <2> QED
      BY <1>1, <1>3, <2>1, <2>2, <2>3 DEF BooksAgree, Agrees, TxnIntent
  <1>9. OthersUntouched'
    BY <1>1, <1>3 DEF Serial, OthersUntouched, Untouched, Holds
  <1> QED
    BY <1>4, <1>5, <1>6, <1>6a, <1>7, <1>8, <1>9 DEF Serial

(* An accepted capture, void or refund is owed to its transaction. *)
LEMMA RequestAcceptIsSerial ==
  ASSUME SingleCaller, TypeOK, Grounding, Serial, NEW c \in Calls, Accept(c),
         calls[c].op \in {"capture", "void", "refund"}
  PROVE  Serial'
  <1> DEFINE call == calls[c]
             new  == [call EXCEPT !.verdict = "accepted"]
             t    == call.txn
             i    == TxnIntent(t)
  <1>1. /\ ~Idle(c) /\ call.verdict = "pending" /\ UNCHANGED <<txns, failoverLog>>
        /\ calls' = [calls EXCEPT ![c].verdict = "accepted"]
    BY DEF Accept
  <1>2. /\ calls'[c] = new /\ \A d \in Calls : d = c
        /\ new.op = call.op /\ new.verdict = "accepted"
        /\ new.txn = call.txn /\ new.amount = call.amount /\ new.target = call.target
        /\ call \in TxnCall
    BY <1>1, VerdictIsGiven, SendsType, OneCall DEF Verdict
  <1> HIDE DEF new
  <1>3. /\ t \in DOMAIN txns /\ txns[t] \in Txn /\ txns[t].hasProviderId
        /\ i = IntentOf(call) /\ i \in Conn \X Refs /\ Agrees(t)
    BY RequestIsBacked, AcceptedEffect DEF Serial, BooksAgree
  <1>4. /\ \A j \in Conn \X Refs : j # i => ledger'[j] = ledger[j]
        /\ \A j \in Conn \X Refs : ledger'[j].authorized = ledger[j].authorized
        /\ ledger'[i].voided = (ledger[i].voided \/ call.op = "void")
        /\ ledger'[i].captured = IF call.op = "capture"
                                 THEN ledger[i].captured + Positive(call.amount)
                                 ELSE ledger[i].captured
        /\ Repaid(ledger'[i]) = IF call.op = "refund"
                                THEN Repaid(ledger[i]) + call.amount
                                ELSE Repaid(ledger[i])
    <2>1. ledger[i].authorized \in BOOLEAN
      BY <1>3 DEF TypeOK, IntentState
    <2> QED
      BY <1>3, <2>1, AcceptedEffect
  <1>5. \A u, op : ~Owes(u, op)
    BY <1>1, <1>2 DEF Owes, InFlight
  <1>6. \A u, op : Owes(u, op)' <=> u = t /\ op = call.op
    BY <1>2 DEF Owes, InFlight
  <1>7. \A u \in DOMAIN txns : u # t =>
          TxnIntent(u) # i /\ TxnIntent(u) \in Conn \X Refs
    BY <1>3, TxnAt DEF Serial, OneRecordPerRef, TxnIntent
  <1>8. IntentsInFlight = {} /\ IntentsInFlight' = {}
    BY <1>2 DEF IntentsInFlight
  <1>9. OneRecordPerRef'
    BY <1>1, <1>8 DEF Serial, OneRecordPerRef
  <1>10. HoldsAreKnown'
    BY <1>1, <1>4, <1>8 DEF Serial, HoldsAreKnown, Holds
  <1>11. FailoversAreTold'
    BY <1>1, <1>2, <1>8 DEF Serial, FailoversAreTold, FailoverIsTold
  <1>11a. MovesAreLogged'
    BY <1>1, <1>2 DEF Serial, MovesAreLogged
  <1>12. ChecksStand'
    <2>1. /\ call.op = "capture" => CaptureStands(call)
          /\ call.op = "void" => VoidStands(call)
          /\ call.op = "refund" => RefundStands(call)
      BY DEF Serial, ChecksStand
    <2>2. /\ ledger[i].captured = Positive(txns[t].captured)
          /\ Repaid(ledger[i]) = txns[t].refunded
      BY <1>3, <1>5 DEF Agrees
    <2>3. call.op = "capture" => CaptureStands(calls[c])'
      <3>1. Positive(call.amount) \in Nat
        <4>1. call.amount \in Int
          BY <1>2, PaymentAssumption DEF TxnCall, HoldCall, RefundCall, Amount
        <4> QED
          BY <4>1 DEF Positive
      <3>2. txns[t].status = "authorized" => Positive(txns[t].captured) = 0
        BY <1>3 DEF Agrees, StatusOfMoney, Positive
      <3> QED
        BY <1>1, <1>2, <1>4, <2>1, <2>2, <3>1, <3>2 DEF CaptureStands, TxnIntent
    <2>4. call.op = "void" => VoidStands(calls[c])'
      BY <1>1, <1>2, <2>1 DEF VoidStands
    <2>5. call.op = "refund" => RefundStands(calls[c])'
      BY <1>1, <1>2, <1>4, <2>1, <2>2 DEF RefundStands, RefundTarget, TxnIntent
    <2> QED
      BY <1>2, <2>3, <2>4, <2>5 DEF ChecksStand
  <1>13. BooksAgree'
    <2>1. ASSUME NEW u \in DOMAIN txns, u # t, txns[u].hasProviderId
          PROVE  Agrees(u)'
      <3>1. Agrees(u)
        BY <2>1 DEF Serial, BooksAgree
      <3>2. ledger'[TxnIntent(u)] = ledger[TxnIntent(u)]
        BY <1>4, <1>7, <2>1
      <3> QED
        BY <1>1, <1>5, <1>6, <2>1, <3>1, <3>2 DEF Agrees, TxnIntent
    <2>2. ASSUME NEW u \in DOMAIN txns, u = t
          PROVE  Agrees(u)'
      BY <1>1, <1>2, <1>3, <1>4, <1>5, <1>6, <2>2 DEF Agrees, TxnIntent
    <2> QED
      BY <1>1, <2>1, <2>2 DEF BooksAgree
  <1>14. OthersUntouched'
    <2>1. \A p \in Conn, r \in Refs :
            (\A u \in DOMAIN txns : ~Holds(u, p, r)) => <<p, r>> # i
      BY <1>3 DEF Holds, TxnIntent
    <2> QED
      BY <1>1, <1>4, <2>1 DEF Serial, OthersUntouched, Untouched, Holds
  <1> QED
    BY <1>9, <1>10, <1>11, <1>11a, <1>12, <1>13, <1>14 DEF Serial

(* A refusal changes nothing that counts. *)
LEMMA DeclineIsSerial ==
  ASSUME SingleCaller, TypeOK, Serial, NEW c \in Calls, Decline(c)
  PROVE  Serial'
  <1> DEFINE call == calls[c]
             new  == [call EXCEPT !.verdict = "declined"]
  <1>1. /\ ~Idle(c) /\ call.verdict = "pending"
        /\ UNCHANGED <<txns, failoverLog, ledger>>
        /\ calls' = [calls EXCEPT ![c].verdict = "declined"]
    BY DEF Decline
  <1>2. /\ new \in IntentCall \cup TxnCall /\ Sends(c, new)
        /\ new.op = call.op /\ new.verdict = "declined"
        /\ call.op \in {"intent", "failover"} =>
             /\ new.ref = call.ref /\ new.conn = call.conn
             /\ new.primary = call.primary
        /\ call.op \in {"capture", "void", "refund"} =>
             /\ new.txn = call.txn /\ new.amount = call.amount
             /\ new.target = call.target
    BY <1>1, VerdictIsGiven DEF Verdict
  <1> HIDE DEF new
  <1>3. calls'[c] = new /\ \A d \in Calls : d = c
    BY <1>2, SendsType, OneCall
  <1>4. CallStands(new)
    BY <1>2 DEF Serial, OneRecordPerRef, IntentsInFlight, ChecksStand, CallStands,
                CaptureStands, VoidStands, RefundStands
  <1>5. FailoversAreTold'
    BY <1>1, <1>2, <1>3 DEF Serial, FailoversAreTold, FailoverIsTold, IntentsInFlight
  <1>6. MovesAreLogged'
    BY <1>1, <1>2, <1>3 DEF Serial, MovesAreLogged
  <1> QED
    BY <1>1, <1>2, <1>4, <1>5, <1>6, SendIsSerial DEF Unaccepted

-----------------------------------------------------------------------------
(* The part after the await.                                               *)

(* Nothing is owed once the only call has returned. *)
LEMMA ReturnedOwesNothing ==
  ASSUME SingleCaller, TypeOK, NEW c \in Calls, Returns(c)
  PROVE  /\ calls'[c] = IdleCall /\ \A d \in Calls : d = c
         /\ calls'[c].op = "none"
         /\ IntentsInFlight' = {}
         /\ \A u, op : op # "none" => ~Owes(u, op)'
  <1>1. calls'[c] = IdleCall /\ \A d \in Calls : d = c
    BY SendsType, OneCall DEF Returns
  <1>2. calls'[c].op = "none"
    BY <1>1 DEF IdleCall
  <1> QED
    BY <1>1, <1>2 DEF IntentsInFlight, Owes, InFlight

(* The transaction an intent ends in. *)
LEMMA IntentRecord ==
  ASSUME TypeOK, NEW c \in Calls, calls[c] \in IntentCall,
         NEW conn \in Conn, NEW hasId \in BOOLEAN, NEW s \in Status,
         RecordTxn(calls[c], conn, hasId, s)
  PROVE  /\ DOMAIN txns' = DOMAIN txns \cup {Len(txns) + 1}
         /\ \A t \in DOMAIN txns : txns'[t] = txns[t]
         /\ txns'[Len(txns) + 1] = NewTxn(calls[c], conn, hasId, s)
  BY RecordType

(* An intent that ends in a record. *)
LEMMA RecordIsSerial ==
  ASSUME SingleCaller, TypeOK, Serial, NEW c \in Calls, calls[c] \in IntentCall,
         NEW conn \in Conn, NEW hasId \in BOOLEAN, NEW s \in {"authorized", "failed"},
         RecordTxn(calls[c], conn, hasId, s), Returns(c),
         UNCHANGED <<failoverLog, ledger>>,
         hasId => conn = calls[c].conn,
         ~hasId => conn = calls[c].primary /\ calls[c].verdict # "accepted"
  PROVE  Serial'
  <1> DEFINE n   == Len(txns) + 1
             r   == calls[c].ref
             txn == NewTxn(calls[c], conn, hasId, s)
  <1>1. /\ DOMAIN txns' = DOMAIN txns \cup {n}
        /\ \A t \in DOMAIN txns : txns'[t] = txns[t]
        /\ txns'[n] = txn /\ n \notin DOMAIN txns
    <2>1. s \in Status /\ n \notin DOMAIN txns
      BY DEF Status, TypeOK
    <2> QED
      BY <2>1, IntentRecord
  <1>2. /\ txn.ref = r /\ txn.conn = conn /\ txn.hasProviderId = hasId
        /\ txn.first = calls[c].primary
        /\ txn.status = s /\ txn.captured = 0 /\ txn.refunded = 0
    BY DEF NewTxn
  <1> HIDE DEF txn, n
  <1>3. /\ c \in IntentsInFlight /\ r \in Refs
        /\ \A t \in DOMAIN txns : txns[t].ref # r
    BY DEF IntentsInFlight, IntentCall, Serial, OneRecordPerRef
  <1>4. /\ IntentsInFlight' = {} /\ calls'[c].op = "none"
        /\ \A d \in Calls : d = c
        /\ \A u, op : op # "none" => ~Owes(u, op)'
    BY ReturnedOwesNothing
  <1>5. OneRecordPerRef'
    BY <1>1, <1>2, <1>3, <1>4 DEF Serial, OneRecordPerRef
  <1>6. HoldsAreKnown'
    <2> SUFFICES ASSUME NEW p \in Conn, NEW q \in Refs, ledger[<<p, q>>].authorized
                 PROVE  \E t \in DOMAIN txns' : Holds(t, p, q)'
      BY DEF HoldsAreKnown
    <2>1. CASE \E t \in DOMAIN txns : Holds(t, p, q)
      BY <1>1, <2>1 DEF Holds
    <2>2. CASE WillHold(c, p, q)
      BY <1>1, <1>2, <2>2 DEF Holds, WillHold
    <2> QED
      BY <1>4, <2>1, <2>2 DEF Serial, HoldsAreKnown, IntentsInFlight
  <1>7. FailoversAreTold'
    <2>1. ASSUME NEW q \in Refs, NEW p \in Conn, NEW f \in Conn, <<q, p, f>> \in failoverLog
          PROVE  FailoverIsTold(q, p, f)'
      <3>1. FailoverIsTold(q, p, f)
        BY <2>1 DEF Serial, FailoversAreTold
      <3>2. \E t \in DOMAIN txns' : txns'[t].ref = q
        BY <1>1, <1>2, <1>4, <3>1 DEF FailoverIsTold, IntentsInFlight
      <3>3. ASSUME NEW t \in DOMAIN txns', txns'[t].ref = q
            PROVE  /\ txns'[t].first = p
                   /\ txns'[t].conn = IF txns'[t].hasProviderId THEN f ELSE p
        BY <1>1, <1>2, <1>3, <3>1, <3>3 DEF FailoverIsTold
      <3> QED
        BY <1>4, <3>1, <3>2, <3>3 DEF FailoverIsTold
    <2> QED
      BY <1>4, <2>1 DEF FailoversAreTold
  <1>7a. MovesAreLogged'
    <2>1. Moved(txn) => <<txn.ref, txn.first, txn.conn>> \in failoverLog
      BY <1>2 DEF Moved, Serial, MovesAreLogged, FailoversAreTold, IntentCall
    <2> QED
      BY <1>1, <1>4, <2>1 DEF Serial, MovesAreLogged
  <1>8. ChecksStand'
    BY <1>4 DEF ChecksStand
  <1>9. BooksAgree'
    <2>1. ASSUME NEW t \in DOMAIN txns, txns[t].hasProviderId
          PROVE  Agrees(t)'
      <3>1. Agrees(t) /\ txns'[t] = txns[t]
        BY <1>1, <2>1 DEF Serial, BooksAgree
      <3>2. \A op : op \in {"capture", "void", "refund"} => ~Owes(t, op) /\ ~Owes(t, op)'
        BY <1>4 DEF Owes, InFlight, IntentCall
      <3> QED
        BY <3>1, <3>2 DEF Agrees, TxnIntent
    <2>2. ASSUME NEW t, t = n, hasId
          PROVE  Agrees(t)'
      <3>1. Untouched(ledger[<<conn, r>>])
        BY <1>3 DEF Serial, OthersUntouched, Holds
      <3>2. s # "voided" /\ s \notin {"captured", "refunded", "partially_refunded"}
        OBVIOUS
      <3> QED
        BY <1>1, <1>2, <1>4, <2>2, <3>1, <3>2
           DEF Agrees, TxnIntent, Untouched, StatusOfMoney, Positive
    <2> QED
      BY <1>1, <1>2, <2>1, <2>2 DEF BooksAgree
  <1>10. OthersUntouched'
    BY <1>1 DEF Serial, OthersUntouched, Holds
  <1> QED
    BY <1>5, <1>6, <1>7, <1>7a, <1>8, <1>9, <1>10 DEF Serial

(* A capture, void or refund that brings its transaction up to date. *)
LEMMA UpdateIsSerial ==
  ASSUME SingleCaller, TypeOK, Serial, NEW c \in Calls, NEW t \in DOMAIN txns,
         calls[c] \in TxnCall, calls[c].txn = t,
         NEW newTxn \in Txn, NEW n \in Nat, UpdateTxn(t, newTxn, n), Returns(c),
         UNCHANGED <<failoverLog, ledger>>,
         newTxn.conn = txns[t].conn, newTxn.ref = txns[t].ref,
         newTxn.hasProviderId = txns[t].hasProviderId,
         newTxn.first = txns[t].first,
         newTxn.refunded <= Positive(newTxn.captured),
         StatusOfMoney(newTxn.status, newTxn.captured),
         ledger[TxnIntent(t)].captured = Positive(newTxn.captured),
         Repaid(ledger[TxnIntent(t)]) = newTxn.refunded,
         ledger[TxnIntent(t)].voided <=> newTxn.status = "voided"
  PROVE  Serial'
  <1>1. /\ DOMAIN txns' = DOMAIN txns /\ txns'[t] = newTxn
        /\ \A u \in DOMAIN txns : u # t => txns'[u] = txns[u]
        /\ \A u \in DOMAIN txns : /\ txns'[u].ref = txns[u].ref
                                  /\ txns'[u].conn = txns[u].conn
                                  /\ txns'[u].first = txns[u].first
                                  /\ txns'[u].hasProviderId = txns[u].hasProviderId
    BY UpdateType
  <1>2. /\ IntentsInFlight' = {} /\ calls'[c].op = "none"
        /\ \A d \in Calls : d = c
        /\ \A u, op : op # "none" => ~Owes(u, op)'
    BY ReturnedOwesNothing
  <1>3. IntentsInFlight = {}
    BY <1>2 DEF IntentsInFlight, TxnCall, HoldCall, RefundCall
  <1>4. OneRecordPerRef'
    BY <1>1, <1>2 DEF Serial, OneRecordPerRef
  <1>5. HoldsAreKnown'
    BY <1>1, <1>2, <1>3 DEF Serial, HoldsAreKnown, Holds
  <1>6. FailoversAreTold'
    BY <1>1, <1>2, <1>3 DEF Serial, FailoversAreTold, FailoverIsTold
  <1>6a. MovesAreLogged'
    BY <1>1, <1>2 DEF Serial, MovesAreLogged, Moved
  <1>7. ChecksStand'
    BY <1>2 DEF ChecksStand
  <1>8. BooksAgree'
    <2>1. ASSUME NEW u \in DOMAIN txns, u # t, txns[u].hasProviderId
          PROVE  Agrees(u)'
      <3>1. Agrees(u) /\ txns'[u] = txns[u]
        BY <1>1, <2>1 DEF Serial, BooksAgree
      <3>2. \A op : op # "none" => ~Owes(u, op) /\ ~Owes(u, op)'
        BY <1>2, <2>1 DEF Owes, InFlight
      <3> QED
        BY <3>1, <3>2 DEF Agrees, TxnIntent
    <2>2. Agrees(t)'
      BY <1>1, <1>2 DEF Agrees, TxnIntent
    <2> QED
      BY <1>1, <2>1, <2>2 DEF BooksAgree
  <1>9. OthersUntouched'
    BY <1>1 DEF Serial, OthersUntouched, Holds
  <1> QED
    BY <1>4, <1>5, <1>6, <1>6a, <1>7, <1>8, <1>9 DEF Serial

(* What a service call finds when it resumes: its checks still stand, and the
   books lack exactly what it brings.                                      *)
LEMMA RequestResumes ==
  ASSUME SingleCaller, TypeOK, Grounding, Serial, NEW c \in Calls,
         calls[c].op \in {"capture", "void", "refund"}
  PROVE  LET call == calls[c]  t == call.txn  txn == txns[t]  s == ledger[TxnIntent(t)] IN
         /\ call \in TxnCall /\ t \in DOMAIN txns /\ txn \in Txn /\ txn.hasProviderId
         /\ s \in IntentState
         /\ call.amount \in Int /\ call.target \in Status
         /\ call.op = "refund" => call.amount \in Nat /\ call.amount > 0
         /\ txn.captured \in Int /\ txn.refunded \in Nat
         /\ txn.refunded <= Positive(txn.captured)
         /\ StatusOfMoney(txn.status, txn.captured)
         /\ call.op \in {"capture", "void"} =>
              txn.status = "authorized" /\ txn.captured = 0 /\ txn.refunded = 0
         /\ call.op = "capture" =>
              /\ call.target = "captured"
              /\ call.amount \in Captures \cup {txn.amount}
         /\ call.op = "void" => call.target = "voided"
         /\ call.op = "refund" => RefundStands(call)
         /\ s.captured = IF call.op = "capture" /\ call.verdict = "accepted"
                         THEN Positive(call.amount) ELSE Positive(txn.captured)
         /\ Repaid(s) = IF call.op = "refund" /\ call.verdict = "accepted"
                        THEN txn.refunded + call.amount ELSE txn.refunded
         /\ s.voided <=> \/ call.op = "void" /\ call.verdict = "accepted"
                         \/ txn.status = "voided"
  <1> DEFINE call == calls[c]
             t    == call.txn
             txn  == txns[t]
             s    == ledger[TxnIntent(t)]
  <1>1. /\ call \in TxnCall /\ t \in DOMAIN txns /\ txn \in Txn /\ txn.hasProviderId
        /\ IntentOf(call) = TxnIntent(t) /\ RequestIsGrounded(call)
    BY RequestIsBacked, CallShape
  <1>2. /\ call.amount \in Int /\ call.target \in Status
        /\ call.op = "refund" => call.amount \in Nat /\ call.amount > 0
    BY <1>1, PaymentAssumption DEF TxnCall, HoldCall, RefundCall, Amount
  <1>3. txn.captured \in Int /\ txn.refunded \in Nat
    BY <1>1 DEF Txn, Grounding, TxnIsGrounded
  <1>4. Agrees(t) /\ s \in IntentState
    BY <1>1, TxnAt DEF Serial, BooksAgree, TxnIntent, TypeOK
  <1>5. \A op : Owes(t, op) <=> op = call.op /\ call.verdict = "accepted"
    BY OneCall DEF Owes, InFlight
  <1>6. /\ call.op = "capture" => CaptureStands(call)
        /\ call.op = "void" => VoidStands(call)
        /\ call.op = "refund" => RefundStands(call)
    BY DEF Serial, ChecksStand
  <1>7. call.op \in {"capture", "void"} =>
          txn.status = "authorized" /\ txn.captured = 0 /\ txn.refunded = 0
    BY <1>3, <1>4, <1>6 DEF CaptureStands, VoidStands, Agrees, StatusOfMoney, Positive
  <1>8. /\ call.op = "capture" =>
             /\ call.target = "captured"
             /\ call.amount \in Captures \cup {txn.amount}
        /\ call.op = "void" => call.target = "voided"
    BY <1>1, <1>6 DEF RequestIsGrounded, CaptureStands
  <1>9. s.captured = IF call.op = "capture" /\ call.verdict = "accepted"
                     THEN Positive(call.amount) ELSE Positive(txn.captured)
    BY <1>4, <1>5, <1>6 DEF CaptureStands, Agrees
  <1>10. Repaid(s) = IF call.op = "refund" /\ call.verdict = "accepted"
                     THEN txn.refunded + call.amount ELSE txn.refunded
    BY <1>4, <1>5, <1>6 DEF RefundStands, Agrees
  <1>11. s.voided <=> \/ call.op = "void" /\ call.verdict = "accepted"
                      \/ txn.status = "voided"
    BY <1>1, <1>4, <1>5 DEF Agrees, RequestIsGrounded
  <1> QED
    BY <1>1, <1>2, <1>3, <1>4, <1>6, <1>7, <1>8, <1>9, <1>10, <1>11 DEF Agrees

(* Every call resumes to books that are in order. *)
LEMMA ResumeIsSerial ==
  ASSUME SingleCaller, TypeOK, Grounding, Serial, NEW c \in Calls, Resume(c)
  PROVE  Serial'
  <1> DEFINE call == calls[c]
             t    == call.txn
             s    == ledger[TxnIntent(t)]
  <1>0. "failed" \in Status /\ 0 \in Nat
    BY DEF Status
  <1>1. ASSUME NEW tenant \in TenantConfig, IntentFailsOver(c, tenant)
        PROVE  Serial'
    <2>1. PICK f \in Conn :
            /\ f # call.conn
            /\ failoverLog' = failoverLog \cup {<<call.ref, call.conn, f>>}
            /\ Sends(c, [call EXCEPT !.op = "failover", !.conn = f,
                                     !.verdict = "pending"])
      BY <1>1 DEF IntentFailsOver, FailsOverTo
    <2>2. call \in IntentCall /\ call.op = "intent" /\ call.verdict = "declined"
      BY <1>1, AnsweredCall DEF IntentFailsOver
    <2> DEFINE new == [call EXCEPT !.op = "failover", !.conn = f, !.verdict = "pending"]
    <2>3. [call EXCEPT !.op = "failover"] \in IntentCall
      BY <2>2 DEF IntentCall
    <2>4. [call EXCEPT !.op = "failover", !.conn = f] \in IntentCall
      BY <2>3 DEF IntentCall
    <2>5. /\ new \in IntentCall /\ new.verdict = "pending" /\ new.op = "failover"
          /\ new.ref = call.ref /\ new.conn = f /\ new.primary = call.primary
      BY <2>2, <2>4 DEF IntentCall, Verdict
    <2>6. Sends(c, new) /\ UNCHANGED <<txns, ledger>>
      BY <1>1, <2>1 DEF IntentFailsOver
    <2> HIDE DEF new
    <2>7. calls'[c] = new /\ (\A d \in Calls : d = c) /\ c \in IntentsInFlight
      BY <2>2, <2>5, <2>6, SendsType, OneCall DEF IntentsInFlight
    <2>8. \A u \in DOMAIN txns : txns[u].ref # call.ref
      BY <2>7 DEF Serial, OneRecordPerRef
    <2>9. FailoversAreTold'
      <3>1. \A q \in Refs, p, g \in Conn :
              <<q, p, g>> \in failoverLog' =>
                <<q, p, g>> \in failoverLog \/ (q = call.ref /\ p = call.conn /\ g = f)
        BY <2>1
      <3>2. \A q \in Refs, p, g \in Conn :
              <<q, p, g>> \in failoverLog => FailoverIsTold(q, p, g) /\ q # call.ref
        BY <2>2, <2>7 DEF Serial, FailoversAreTold, FailoverIsTold
      <3>3. call.primary = call.conn
        BY <2>2 DEF Serial, FailoversAreTold
      <3>4. ASSUME NEW q \in Refs, NEW p \in Conn, NEW g \in Conn, <<q, p, g>> \in failoverLog
            PROVE  FailoverIsTold(q, p, g)'
        BY <2>5, <2>6, <2>7, <3>2, <3>4 DEF FailoverIsTold, IntentsInFlight
      <3>5. ASSUME NEW q, NEW p, NEW g, q = call.ref, p = call.conn, g = f
            PROVE  FailoverIsTold(q, p, g)'
        BY <2>1, <2>5, <2>6, <2>7, <2>8, <3>3, <3>5 DEF FailoverIsTold, IntentsInFlight
      <3> QED
        BY <2>5, <2>7, <3>1, <3>4, <3>5 DEF FailoversAreTold
    <2>10. MovesAreLogged'
      <3>1. call.primary = call.conn
        BY <2>2 DEF Serial, FailoversAreTold
      <3> QED
        BY <2>1, <2>5, <2>6, <2>7, <3>1 DEF Serial, MovesAreLogged
    <2> QED
      BY <2>2, <2>5, <2>6, <2>8, <2>9, <2>10, SendIsSerial DEF Unaccepted, CallStands
  <1>2. ASSUME NEW tenant \in TenantConfig, IntentFails(c, tenant)
        PROVE  Serial'
    <2>1. call \in IntentCall /\ call.verdict = "declined"
      BY <1>2, AnsweredCall DEF IntentFails
    <2>2. call.primary \in Conn
      BY <2>1 DEF IntentCall
    <2> QED
      BY <1>2, <2>1, <2>2, RecordIsSerial DEF IntentFails
  <1>3. CASE IntentAuthorized(c)
    <2>1. call \in IntentCall
      BY <1>3, AnsweredCall DEF IntentAuthorized
    <2>2. call.conn \in Conn
      BY <2>1 DEF IntentCall
    <2> QED
      BY <1>3, <2>1, <2>2, RecordIsSerial DEF IntentAuthorized
  <1>4. CASE CaptureSettles(c)
    <2> DEFINE newTxn == [txns[t] EXCEPT !.status = call.target,
                                          !.captured = call.amount]
    <2>1. call.op = "capture" /\ call.verdict = "accepted"
      BY <1>4 DEF CaptureSettles, Answered
    <2>2. /\ call \in TxnCall /\ t \in DOMAIN txns /\ txns[t] \in Txn
          /\ call.amount \in Int /\ call.target \in Status
          /\ txns[t].status = "authorized" /\ txns[t].refunded = 0
          /\ call.target = "captured"
          /\ s.captured = Positive(call.amount) /\ Repaid(s) = 0 /\ ~s.voided
      BY <2>1, RequestResumes
    <2>3. /\ newTxn \in Txn
          /\ newTxn.conn = txns[t].conn /\ newTxn.ref = txns[t].ref
          /\ newTxn.hasProviderId = txns[t].hasProviderId
          /\ newTxn.first = txns[t].first
          /\ newTxn.status = "captured" /\ newTxn.captured = call.amount
          /\ newTxn.refunded = 0
      BY <2>2, SettledTxn DEF Txn
    <2>3a. /\ newTxn.refunded <= Positive(newTxn.captured)
           /\ StatusOfMoney(newTxn.status, newTxn.captured)
      BY <2>2, <2>3 DEF Positive, StatusOfMoney
    <2>4. UpdateTxn(t, newTxn, 0) /\ Returns(c) /\ UNCHANGED <<failoverLog, ledger>>
      BY <1>4 DEF CaptureSettles
    <2> HIDE DEF newTxn
    <2> QED
      BY <1>0, <2>2, <2>3, <2>3a, <2>4, UpdateIsSerial
  <1>5. CASE VoidSettles(c)
    <2> DEFINE newTxn == [txns[t] EXCEPT !.status = call.target]
    <2>1. call.op = "void" /\ call.verdict = "accepted"
      BY <1>5 DEF VoidSettles, Answered
    <2>2. /\ call \in TxnCall /\ t \in DOMAIN txns /\ txns[t] \in Txn
          /\ call.target \in Status /\ call.target = "voided"
          /\ txns[t].captured = 0 /\ txns[t].refunded = 0
          /\ s.captured = Positive(0) /\ Repaid(s) = 0 /\ s.voided
      BY <2>1, RequestResumes
    <2>3. /\ newTxn \in Txn
          /\ newTxn.conn = txns[t].conn /\ newTxn.ref = txns[t].ref
          /\ newTxn.hasProviderId = txns[t].hasProviderId
          /\ newTxn.first = txns[t].first
          /\ newTxn.status = "voided" /\ newTxn.captured = 0 /\ newTxn.refunded = 0
      BY <1>0, <2>2, SettledTxn DEF Txn
    <2>3a. /\ newTxn.refunded <= Positive(newTxn.captured)
           /\ StatusOfMoney(newTxn.status, newTxn.captured)
      BY <2>3 DEF Positive, StatusOfMoney
    <2>4. UpdateTxn(t, newTxn, 0) /\ Returns(c) /\ UNCHANGED <<failoverLog, ledger>>
      BY <1>5 DEF VoidSettles
    <2> HIDE DEF newTxn
    <2> QED
      BY <1>0, <2>2, <2>3, <2>3a, <2>4, UpdateIsSerial
  <1>6. CASE CaptureOrVoidFails(c)
    <2> DEFINE newTxn == [txns[t] EXCEPT !.status = "failed"]
    <2>1. call.op \in {"capture", "void"} /\ call.verdict = "declined"
      BY <1>6 DEF CaptureOrVoidFails, Answered
    <2>2. /\ call \in TxnCall /\ t \in DOMAIN txns /\ txns[t] \in Txn
          /\ txns[t].captured = 0 /\ txns[t].refunded = 0
          /\ s.captured = Positive(0) /\ Repaid(s) = 0 /\ ~s.voided
      BY <2>1, RequestResumes
    <2>3. /\ newTxn \in Txn
          /\ newTxn.conn = txns[t].conn /\ newTxn.ref = txns[t].ref
          /\ newTxn.hasProviderId = txns[t].hasProviderId
          /\ newTxn.first = txns[t].first
          /\ newTxn.status = "failed" /\ newTxn.captured = 0 /\ newTxn.refunded = 0
      BY <1>0, <2>2, SettledTxn DEF Txn
    <2>3a. /\ newTxn.refunded <= Positive(newTxn.captured)
           /\ StatusOfMoney(newTxn.status, newTxn.captured)
      BY <2>3 DEF Positive, StatusOfMoney
    <2>4. UpdateTxn(t, newTxn, 0) /\ Returns(c) /\ UNCHANGED <<failoverLog, ledger>>
      BY <1>6 DEF CaptureOrVoidFails
    <2> HIDE DEF newTxn
    <2> QED
      BY <1>0, <2>2, <2>3, <2>3a, <2>4, UpdateIsSerial
  <1>7. CASE RefundSettles(c)
    <2> DEFINE newTxn == [txns[t] EXCEPT !.status = call.target,
                                          !.refunded = @ + call.amount]
    <2>1. call.op = "refund" /\ call.verdict = "accepted"
      BY <1>7 DEF RefundSettles, Answered
    <2>2. /\ call \in TxnCall /\ t \in DOMAIN txns /\ txns[t] \in Txn
          /\ call.amount \in Nat /\ call.amount > 0 /\ call.target \in Status
          /\ call.amount \in Int
          /\ RefundStands(call)
          /\ txns[t].captured \in Int /\ txns[t].refunded \in Nat
          /\ s.captured = Positive(txns[t].captured)
          /\ Repaid(s) = txns[t].refunded + call.amount
          /\ s.voided <=> txns[t].status = "voided"
      BY <2>1, RequestResumes
    <2>3. /\ newTxn \in Txn
          /\ newTxn.conn = txns[t].conn /\ newTxn.ref = txns[t].ref
          /\ newTxn.hasProviderId = txns[t].hasProviderId
          /\ newTxn.first = txns[t].first
          /\ newTxn.status = call.target /\ newTxn.captured = txns[t].captured
          /\ newTxn.refunded = txns[t].refunded + call.amount
      <3>1. newTxn \in Txn
        BY <2>2, SettledTxn
      <3>2. /\ newTxn.conn = txns[t].conn /\ newTxn.ref = txns[t].ref
            /\ newTxn.hasProviderId = txns[t].hasProviderId
            /\ newTxn.first = txns[t].first
            /\ newTxn.status = call.target /\ newTxn.captured = txns[t].captured
        BY <2>2 DEF Txn
      <3>3. newTxn.refunded = txns[t].refunded + call.amount
        BY <2>2 DEF Txn
      <3> QED
        BY <3>1, <3>2, <3>3
    <2>4. /\ txns[t].status \in {"captured", "partially_refunded"}
          /\ txns[t].refunded + call.amount <= txns[t].captured
          /\ call.target \in {"refunded", "partially_refunded"}
      BY <2>2 DEF RefundStands, RefundTarget, Refundable
    <2>5. UpdateTxn(t, newTxn, call.amount) /\ Returns(c)
          /\ UNCHANGED <<failoverLog, ledger>>
      BY <1>7 DEF RefundSettles
    <2> HIDE DEF newTxn
    <2>6. /\ newTxn.refunded <= Positive(newTxn.captured)
          /\ StatusOfMoney(newTxn.status, newTxn.captured)
      BY <2>2, <2>3, <2>4 DEF Positive, StatusOfMoney
    <2> QED
      BY <2>2, <2>3, <2>4, <2>5, <2>6, UpdateIsSerial
  <1>8. CASE RefundFails(c)
    <2>1. call.op = "refund" /\ call.verdict = "declined" /\ Returns(c)
          /\ UNCHANGED <<txns, ledger, failoverLog>>
      BY <1>8 DEF RefundFails, Answered
    <2>2. IdleCall.op = "none"
      BY DEF IdleCall
    <2>3. Sends(c, IdleCall) /\ CallStands(IdleCall) /\ Unaccepted(IdleCall)
          /\ Unaccepted(call)
      BY <2>1, <2>2 DEF Returns, CallStands, Unaccepted
    <2>4. FailoversAreTold' /\ MovesAreLogged'
      BY <2>1, <2>2, <2>3, SendIsTold
    <2> QED
      BY <2>1, <2>3, <2>4, SendIsSerial
  <1> QED
    BY <1>1, <1>2, <1>3, <1>4, <1>5, <1>6, <1>7, <1>8 DEF Resume

-----------------------------------------------------------------------------
(* The theorems.                                                           *)

(* With one call at a time the books, the holds and the failover log stay in
   order: the invariant behind the properties below.                       *)
THEOREM AlwaysSerial == SingleCaller => (Spec => []Serial)
  <1> SUFFICES ASSUME SingleCaller
               PROVE  Spec => []Serial
    OBVIOUS
  <1>1. Init => Serial
    <2> SUFFICES ASSUME Init
                 PROVE  Serial
      OBVIOUS
    <2>1. /\ DOMAIN txns = {} /\ failoverLog = {}
          /\ \A c \in Calls : calls[c].op = "none"
          /\ \A p \in Conn, r \in Refs :
               /\ ~ledger[<<p, r>>].authorized
               /\ Untouched(ledger[<<p, r>>])
      BY DEF Init, IdleCall, Untouched, Repaid
    <2> QED
      BY <2>1 DEF Serial, OneRecordPerRef, HoldsAreKnown, FailoversAreTold, MovesAreLogged,
                  ChecksStand, BooksAgree, OthersUntouched
  <1>2. TypeOK /\ Grounding /\ Serial /\ [Next]_vars => Serial'
    <2> SUFFICES ASSUME TypeOK, Grounding, Serial, [Next]_vars
                 PROVE  Serial'
      OBVIOUS
    <2>1. CASE UNCHANGED vars
      BY <2>1 DEF vars, Serial, OneRecordPerRef, HoldsAreKnown, FailoversAreTold,
                  MovesAreLogged, ChecksStand, BooksAgree, OthersUntouched, Holds, WillHold,
                  FailoverIsTold, IntentsInFlight, CaptureStands, VoidStands,
                  RefundStands, RefundTarget, Agrees, Owes, InFlight, Untouched, TxnIntent
    <2>2. ASSUME NEW c \in Calls, Accept(c)
          PROVE  Serial'
      <3>1. ~Idle(c)
        BY <2>2 DEF Accept
      <3> QED
        BY <2>2, <3>1, CallShape, IntentAcceptIsSerial, RequestAcceptIsSerial
    <2> QED
      BY <2>1, <2>2, StartIsSerial, DeclineIsSerial, ResumeIsSerial DEF Next
  <1> QED
    BY <1>1, <1>2, TypeCorrect, AlwaysGrounded, PTL DEF Spec

(* A customer is never held twice under one idempotency key, whatever the
   routing does while an intent is open or fails over.  A reference is its
   key here, as OrderPaymentService and BookingPaymentService derive it from
   the order or the booking; a second key for one order is not covered.    *)
THEOREM OneHold == SingleCaller => (Spec => []OneHoldPerRef)
  <1> SUFFICES ASSUME SingleCaller
               PROVE  Spec => []OneHoldPerRef
    OBVIOUS
  <1>1. Serial => OneHoldPerRef
    <2> SUFFICES ASSUME Serial, NEW r \in Refs, NEW p \in Conn, NEW q \in Conn,
                        ledger[<<p, r>>].authorized, ledger[<<q, r>>].authorized
                 PROVE  p = q
      BY DEF OneHoldPerRef
    <2>1. \A x \in Conn : ledger[<<x, r>>].authorized =>
            \/ \E t \in DOMAIN txns : Holds(t, x, r)
            \/ \E c \in IntentsInFlight : WillHold(c, x, r)
      BY DEF Serial, HoldsAreKnown
    <2>2. \A c, d \in IntentsInFlight : c = d
      BY DEF IntentsInFlight, SingleCaller
    <2> QED
      BY <2>1, <2>2 DEF Serial, OneRecordPerRef, Holds, WillHold
  <1> QED
    BY <1>1, AlwaysSerial, PTL

(* Between calls the books and the providers agree on every transaction that
   a provider took, for every amount asked to be captured and every key a
   refund came under: what is on record as refunded was paid out but for the
   amounts that came again under a key already used.                       *)
THEOREM BooksMatch == SingleCaller => (Spec => []BooksMatchProvider)
  <1> SUFFICES ASSUME SingleCaller
               PROVE  Spec => []BooksMatchProvider
    OBVIOUS
  <1>1. TypeOK /\ Serial => BooksMatchProvider
    <2> SUFFICES ASSUME TypeOK, Serial, \A c \in Calls : Idle(c),
                        NEW t \in DOMAIN txns, txns[t].hasProviderId
                 PROVE  LET s == ledger[<<txns[t].conn, txns[t].ref>>] IN
                        /\ s.captured = Positive(txns[t].captured)
                        /\ Repaid(s) = txns[t].refunded
                        /\ txns[t].refunded <= s.captured
                        /\ s.captured > 0 => txns[t].status \in
                                {"captured", "refunded", "partially_refunded"}
                        /\ txns[t].status \in {"refunded", "partially_refunded"}
                             => s.captured > 0
                        /\ s.voided <=> txns[t].status = "voided"
      BY DEF BooksMatchProvider
    <2>1. Agrees(t)
      BY DEF Serial, BooksAgree
    <2>2. \A op : op # "none" => ~Owes(t, op)
      BY CallShape DEF Owes, InFlight
    <2>3. txns[t].captured \in Int
      BY TxnAt DEF Txn
    <2> QED
      BY <2>1, <2>2, <2>3 DEF Agrees, TxnIntent, StatusOfMoney, Positive
  <1> QED
    BY <1>1, TypeCorrect, AlwaysSerial, PTL

(* Every transaction that left the provider it was sent to first is in the
   log, and a logged failover names that provider, which never authorized
   the intent, and the one the record stays with unless it declined too.   *)
THEOREM FailoverAccounted == SingleCaller => (Spec => []FailoverIsAccounted)
  <1> SUFFICES ASSUME SingleCaller
               PROVE  Spec => []FailoverIsAccounted
    OBVIOUS
  <1>1. Serial => FailoverIsAccounted
    <2> SUFFICES ASSUME Serial, NEW r \in Refs, NEW p \in Conn, NEW f \in Conn,
                        <<r, p, f>> \in failoverLog
                 PROVE  /\ p # f
                        /\ ~ledger[<<p, r>>].authorized
                        /\ \A t \in DOMAIN txns :
                             txns[t].ref = r =>
                               /\ txns[t].first = p
                               /\ txns[t].conn = IF txns[t].hasProviderId THEN f ELSE p
      BY DEF FailoverIsAccounted, Serial, MovesAreLogged, Moved
    <2>1. FailoverIsTold(r, p, f)
      BY DEF Serial, FailoversAreTold
    <2>2. ~ledger[<<p, r>>].authorized
      BY <2>1 DEF Serial, HoldsAreKnown, Holds, WillHold, FailoverIsTold
    <2> QED
      BY <2>1, <2>2 DEF FailoverIsTold
  <1> QED
    BY <1>1, AlwaysSerial, PTL

-----------------------------------------------------------------------------
(* The refinement: with one call at a time the service implements           *)
(* PaymentLifecycle.                                                       *)

Entry(txn) == [ref |-> txn.ref, status |-> txn.status, amount |-> txn.amount,
               captured |-> txn.captured, refunded |-> txn.refunded]

(* Updating a transaction, seen in the book. *)
LEMMA EntryStatus ==
  ASSUME NEW txn \in Txn, NEW s
  PROVE  Entry([txn EXCEPT !.status = s]) = [Entry(txn) EXCEPT !.status = s]
  BY DEF Txn, Entry

LEMMA EntryCaptured ==
  ASSUME NEW txn \in Txn, NEW s, NEW n
  PROVE  Entry([txn EXCEPT !.status = s, !.captured = n])
           = [[Entry(txn) EXCEPT !.status = s] EXCEPT !.captured = n]
  <1> DEFINE x == [txn EXCEPT !.status = s]
             e == [Entry(txn) EXCEPT !.status = s]
  <1>1. /\ x = [ref |-> txn.ref, conn |-> txn.conn, first |-> txn.first,
                hasProviderId |-> txn.hasProviderId,
                status |-> s, amount |-> txn.amount, captured |-> txn.captured,
                refunded |-> txn.refunded]
        /\ e = [ref |-> txn.ref, status |-> s, amount |-> txn.amount,
               captured |-> txn.captured, refunded |-> txn.refunded]
    BY DEF Txn, Entry
  <1> HIDE DEF x, e
  <1>2. Entry([x EXCEPT !.captured = n]) = [e EXCEPT !.captured = n]
    BY <1>1 DEF Entry
  <1> QED
    BY <1>2 DEF x, e

LEMMA EntryRefunded ==
  ASSUME NEW txn \in Txn, NEW s, NEW n
  PROVE  Entry([txn EXCEPT !.status = s, !.refunded = @ + n])
           = [[Entry(txn) EXCEPT !.status = s] EXCEPT !.refunded = txn.refunded + n]
  <1> DEFINE x == [txn EXCEPT !.status = s]
             e == [Entry(txn) EXCEPT !.status = s]
  <1>1. /\ x = [ref |-> txn.ref, conn |-> txn.conn, first |-> txn.first,
                hasProviderId |-> txn.hasProviderId,
                status |-> s, amount |-> txn.amount, captured |-> txn.captured,
                refunded |-> txn.refunded]
        /\ e = [ref |-> txn.ref, status |-> s, amount |-> txn.amount,
               captured |-> txn.captured, refunded |-> txn.refunded]
    BY DEF Txn, Entry
  <1> HIDE DEF x, e
  <1>2. Entry([x EXCEPT !.refunded = @ + n]) = [e EXCEPT !.refunded = txn.refunded + n]
    BY <1>1 DEF Entry
  <1> QED
    BY <1>2 DEF x, e

(* The book is a sequence of payments, one per transaction. *)
LEMMA BookType ==
  ASSUME TypeOK, Grounding
  PROVE  /\ Book \in Seq(Lifecycle!Payment) /\ Len(Book) = Len(txns)
         /\ DOMAIN Book = DOMAIN txns
         /\ \A t \in DOMAIN txns : Book[t] = Entry(txns[t])
  <1>1. ASSUME NEW t \in DOMAIN txns
        PROVE  Entry(txns[t]) \in Lifecycle!Payment
    <2>1. txns[t] \in Txn
      BY TxnAt
    <2>2. txns[t].refunded \in Nat
      BY DEF Grounding, TxnIsGrounded
    <2>3. /\ txns[t].ref \in Refs /\ txns[t].status \in Lifecycle!Status
          /\ txns[t].amount \in Lifecycle!Amount /\ txns[t].captured \in Int
      BY <2>1 DEF Txn, Lifecycle!Status, Status, Lifecycle!Amount, Amount
    <2> QED
      BY <2>2, <2>3 DEF Entry, Lifecycle!Payment
  <1>2. txns \in Seq(Txn)
    BY DEF TypeOK
  <1>3. Book = [t \in DOMAIN txns |-> Entry(txns[t])]
    BY DEF Book, Entry
  <1> QED
    BY <1>1, <1>2, <1>3

(* Steps that do not touch the transactions stutter. *)
LEMMA SameBook ==
  ASSUME UNCHANGED txns
  PROVE  UNCHANGED Book
  BY DEF Book

(* Recording an intent opens a payment. *)
LEMMA RecordOpens ==
  ASSUME TypeOK, Grounding, Serial, NEW c \in Calls, calls[c] \in IntentCall,
         NEW conn \in Conn, NEW hasId \in BOOLEAN, NEW s \in {"authorized", "failed"},
         RecordTxn(calls[c], conn, hasId, s)
  PROVE  Lifecycle!Next
  <1> DEFINE n == Len(txns) + 1
  <1>2. /\ DOMAIN txns' = DOMAIN txns \cup {n} /\ n \notin DOMAIN txns
        /\ \A t \in DOMAIN txns : txns'[t] = txns[t]
        /\ txns'[n] = NewTxn(calls[c], conn, hasId, s)
    <2>1. s \in Status /\ n \notin DOMAIN txns
      BY DEF Status, TypeOK
    <2> QED
      BY <2>1, IntentRecord
  <1> DEFINE r == calls[c].ref
             a == calls[c].amount
             e == [ref |-> r, status |-> s, amount |-> a, captured |-> 0, refunded |-> 0]
  <1>1. r \in Refs /\ a \in Lifecycle!Amount
    BY DEF IntentCall, Amount, Lifecycle!Amount
  <1> HIDE DEF n
  <1>3. /\ Book \in Seq(Lifecycle!Payment) /\ Len(Book) = Len(txns)
        /\ DOMAIN Book = DOMAIN txns
        /\ \A t \in DOMAIN txns : Book[t] = Entry(txns[t])
    BY BookType
  <1>4. /\ Book' = [t \in DOMAIN txns' |-> Entry(txns'[t])]
    BY DEF Book, Entry
  <1>5. \A i \in DOMAIN Book : Book[i].ref # r
    BY <1>3 DEF Serial, OneRecordPerRef, IntentsInFlight, IntentCall, Entry
  <1>6. Entry(txns'[n]) = e
    BY <1>2 DEF Entry, NewTxn
  <1>7. e \in Lifecycle!Payment
    BY <1>1 DEF Lifecycle!Payment, Lifecycle!Status
  <1> HIDE DEF e
  <1>8. Append(Book, e) = [t \in DOMAIN txns' |-> Entry(txns'[t])]
    <2> DEFINE book == Append(Book, e)
    <2>1. /\ book \in Seq(Lifecycle!Payment)
          /\ DOMAIN book = DOMAIN txns'
          /\ \A t \in DOMAIN txns : book[t] = Entry(txns'[t])
          /\ book[n] = Entry(txns'[n])
      BY <1>2, <1>3, <1>6, <1>7, AppendToSeq DEF n
    <2> HIDE DEF book
    <2>2. book = [t \in DOMAIN book |-> book[t]]
      BY <2>1
    <2> QED
      BY <1>2, <2>1, <2>2 DEF book
  <1>9. Lifecycle!Open(r, a, s)
    BY <1>4, <1>5, <1>8 DEF Lifecycle!Open, e
  <1> QED
    BY <1>1, <1>9 DEF Lifecycle!Next

(* Updating a transaction updates its payment. *)
LEMMA UpdateInBook ==
  ASSUME TypeOK, NEW t \in DOMAIN txns, NEW newTxn \in Txn, NEW n \in Nat,
         UpdateTxn(t, newTxn, n)
  PROVE  /\ t \in DOMAIN Book /\ Book[t] = Entry(txns[t])
         /\ Book' = [Book EXCEPT ![t] = Entry(newTxn)]
  <1>1. /\ DOMAIN txns' = DOMAIN txns /\ txns'[t] = newTxn
        /\ \A u \in DOMAIN txns : u # t => txns'[u] = txns[u]
    BY UpdateType
  <1>2. /\ Book = [u \in DOMAIN txns |-> Entry(txns[u])]
        /\ Book' = [u \in DOMAIN txns' |-> Entry(txns'[u])]
    BY DEF Book, Entry
  <1> QED
    BY <1>1, <1>2

(* What the end of a call does to the book. *)
LEMMA ResumeImplements ==
  ASSUME SingleCaller, TypeOK, Grounding, Serial, NEW c \in Calls, Resume(c)
  PROVE  [Lifecycle!Next]_Book
  <1> DEFINE call == calls[c]
             t    == call.txn
             p    == Entry(txns[t])
  <1>0. "failed" \in Status /\ 0 \in Nat
    BY DEF Status
  <1>1. CASE (\E tenant \in TenantConfig : IntentFailsOver(c, tenant)) \/ RefundFails(c)
    BY <1>1, SameBook DEF IntentFailsOver, RefundFails
  <1>2. ASSUME NEW tenant \in TenantConfig, IntentFails(c, tenant)
        PROVE  Lifecycle!Next
    <2>1. call \in IntentCall
      BY <1>2, AnsweredCall DEF IntentFails
    <2>2. call.primary \in Conn
      BY <2>1 DEF IntentCall
    <2> QED
      BY <1>2, <2>1, <2>2, RecordOpens DEF IntentFails
  <1>3. CASE IntentAuthorized(c)
    <2>1. call \in IntentCall
      BY <1>3, AnsweredCall DEF IntentAuthorized
    <2>2. call.conn \in Conn
      BY <2>1 DEF IntentCall
    <2> QED
      BY <1>3, <2>1, <2>2, RecordOpens DEF IntentAuthorized
  <1>4. ASSUME call.op \in {"capture", "void", "refund"}
        PROVE  /\ t \in DOMAIN txns /\ txns[t] \in Txn
               /\ call.amount \in Int /\ call.target \in Status
               /\ call.op = "refund" =>
                    call.amount \in Lifecycle!Amount /\ call.amount \in Nat
               /\ p.amount = txns[t].amount
               /\ p.status = txns[t].status /\ p.captured = txns[t].captured
               /\ p.refunded = txns[t].refunded
    <2>1. /\ call \in TxnCall /\ t \in DOMAIN txns /\ txns[t] \in Txn
          /\ call.amount \in Int /\ call.target \in Status
          /\ call.op = "refund" => call.amount \in Nat
      BY <1>4, RequestResumes
    <2>2. call.op = "refund" => call.amount \in Lifecycle!Amount
      BY CallShape DEF RefundCall, Amount, Lifecycle!Amount
    <2> QED
      BY <2>1, <2>2 DEF Entry
  <1>5. CASE CaptureSettles(c)
    <2> DEFINE newTxn == [txns[t] EXCEPT !.status = call.target,
                                          !.captured = call.amount]
    <2>1. call.op = "capture" /\ call.verdict = "accepted"
      BY <1>5 DEF CaptureSettles, Answered
    <2>2. /\ txns[t].status = "authorized" /\ call.target = "captured"
          /\ call.amount \in Captures \cup {txns[t].amount}
      BY <2>1, RequestResumes
    <2>3. newTxn \in Txn /\ UpdateTxn(t, newTxn, 0)
      BY <1>4, <1>5, <2>1, SettledTxn DEF CaptureSettles
    <2>4. Entry(newTxn) = [[p EXCEPT !.status = call.target]
                               EXCEPT !.captured = call.amount]
      <3>1. txns[t] \in Txn
        BY <1>4, <2>1
      <3> HIDE DEF t
      <3>2. \A s, n : Entry([txns[t] EXCEPT !.status = s, !.captured = n])
                        = [[Entry(txns[t]) EXCEPT !.status = s] EXCEPT !.captured = n]
        BY <3>1, EntryCaptured
      <3> QED
        BY <3>2
    <2> HIDE DEF newTxn
    <2>5. /\ t \in DOMAIN Book /\ Book[t] = p
          /\ Book' = [Book EXCEPT ![t] = Entry(newTxn)]
      BY <1>0, <1>4, <2>1, <2>3, UpdateInBook
    <2>6. Lifecycle!Capture(t, call.amount)
      <3>1. "captured" \in Lifecycle!Transitions["authorized"]
        BY DEF Lifecycle!Transitions
      <3>2. Book' = [Book EXCEPT ![t].status = "captured", ![t].captured = call.amount]
        BY <2>2, <2>4, <2>5
      <3> QED
        BY <1>4, <2>1, <2>2, <2>5, <3>1, <3>2 DEF Lifecycle!Capture
    <2>7. call.amount \in Captures \cup {Book[t].amount}
      BY <1>4, <2>1, <2>2, <2>5
    <2> QED
      BY <2>5, <2>6, <2>7 DEF Lifecycle!Next
  <1>6. CASE VoidSettles(c)
    <2> DEFINE newTxn == [txns[t] EXCEPT !.status = call.target]
    <2>1. call.op = "void" /\ call.verdict = "accepted"
      BY <1>6 DEF VoidSettles, Answered
    <2>2. txns[t].status = "authorized" /\ call.target = "voided"
      BY <2>1, RequestResumes
    <2>3. newTxn \in Txn /\ UpdateTxn(t, newTxn, 0)
      BY <1>0, <1>4, <1>6, <2>1, SettledTxn DEF VoidSettles
    <2>4. Entry(newTxn) = [p EXCEPT !.status = call.target]
      BY <1>4, <2>1, EntryStatus
    <2> HIDE DEF newTxn
    <2>5. /\ t \in DOMAIN Book /\ Book[t] = p
          /\ Book' = [Book EXCEPT ![t] = Entry(newTxn)]
      BY <1>0, <1>4, <2>1, <2>3, UpdateInBook
    <2>6. Lifecycle!Close(t, "voided")
      <3>1. "voided" \in Lifecycle!Transitions["authorized"]
        BY DEF Lifecycle!Transitions
      <3>2. Book' = [Book EXCEPT ![t].status = "voided"]
        BY <2>2, <2>4, <2>5
      <3> QED
        BY <1>4, <2>1, <2>2, <2>5, <3>1, <3>2 DEF Lifecycle!Close
    <2> QED
      BY <2>5, <2>6 DEF Lifecycle!Next
  <1>7. CASE CaptureOrVoidFails(c)
    <2> DEFINE newTxn == [txns[t] EXCEPT !.status = "failed"]
    <2>1. call.op \in {"capture", "void"} /\ call.verdict = "declined"
      BY <1>7 DEF CaptureOrVoidFails, Answered
    <2>2. txns[t].status = "authorized"
      BY <2>1, RequestResumes
    <2>3. newTxn \in Txn /\ UpdateTxn(t, newTxn, 0)
      BY <1>0, <1>4, <1>7, <2>1, SettledTxn DEF CaptureOrVoidFails
    <2>4. Entry(newTxn) = [p EXCEPT !.status = "failed"]
      BY <1>4, <2>1, EntryStatus
    <2> HIDE DEF newTxn
    <2>5. /\ t \in DOMAIN Book /\ Book[t] = p
          /\ Book' = [Book EXCEPT ![t] = Entry(newTxn)]
      BY <1>0, <1>4, <2>1, <2>3, UpdateInBook
    <2>6. Lifecycle!Close(t, "failed")
      <3>1. "failed" \in Lifecycle!Transitions["authorized"]
        BY DEF Lifecycle!Transitions
      <3>2. Book' = [Book EXCEPT ![t].status = "failed"]
        BY <2>4, <2>5
      <3> QED
        BY <1>4, <2>1, <2>2, <2>5, <3>1, <3>2 DEF Lifecycle!Close
    <2> QED
      BY <2>5, <2>6 DEF Lifecycle!Next
  <1>8. CASE RefundSettles(c)
    <2> DEFINE newTxn == [txns[t] EXCEPT !.status = call.target,
                                          !.refunded = @ + call.amount]
               total  == txns[t].refunded + call.amount
    <2>1. call.op = "refund" /\ call.verdict = "accepted"
      BY <1>8 DEF RefundSettles, Answered
    <2>2. /\ txns[t].status \in Refundable /\ total <= txns[t].captured
          /\ call.target = IF total = txns[t].captured THEN "refunded"
                                                       ELSE "partially_refunded"
      BY <2>1, RequestResumes DEF RefundStands, RefundTarget
    <2>3. newTxn \in Txn /\ UpdateTxn(t, newTxn, call.amount)
      BY <1>4, <1>8, <2>1, SettledTxn DEF RefundSettles
    <2>4. Entry(newTxn) = [[p EXCEPT !.status = call.target]
                               EXCEPT !.refunded = total]
      <3>1. txns[t] \in Txn
        BY <1>4, <2>1
      <3> HIDE DEF t
      <3>2. \A s, n : Entry([txns[t] EXCEPT !.status = s, !.refunded = @ + n])
                        = [[Entry(txns[t]) EXCEPT !.status = s]
                             EXCEPT !.refunded = txns[t].refunded + n]
        BY <3>1, EntryRefunded
      <3> QED
        BY <3>2
    <2> HIDE DEF newTxn
    <2>5. /\ t \in DOMAIN Book /\ Book[t] = p
          /\ Book' = [Book EXCEPT ![t] = Entry(newTxn)]
      BY <1>0, <1>4, <2>1, <2>3, UpdateInBook
    <2>6. Lifecycle!Refund(t, call.amount)
      <3>1. /\ Book[t].status \in Lifecycle!Refundable
            /\ total = Book[t].refunded + call.amount
            /\ total <= Book[t].captured
        BY <1>4, <2>1, <2>2, <2>5 DEF Lifecycle!Refundable, Refundable
      <3>2. call.target = IF total = Book[t].captured THEN "refunded"
                                                      ELSE "partially_refunded"
        BY <1>4, <2>1, <2>2, <2>5
      <3> HIDE DEF total
      <3>3. Book' = [Book EXCEPT ![t].status = call.target, ![t].refunded = total]
        BY <2>4, <2>5
      <3>4. Book' = [Book EXCEPT
                       ![t].status = IF total = Book[t].captured THEN "refunded"
                                                                 ELSE "partially_refunded",
                       ![t].refunded = total]
        BY <3>2, <3>3
      <3> QED
        BY <3>1, <3>4 DEF Lifecycle!Refund
    <2> QED
      BY <1>4, <2>1, <2>5, <2>6 DEF Lifecycle!Next
  <1> QED
    BY <1>1, <1>2, <1>3, <1>5, <1>6, <1>7, <1>8 DEF Resume

(* With one call at a time PaymentTransactionService implements the payment
   lifecycle: one payment per idempotency key, transitions along the table,
   no refund beyond what was captured.                                     *)
THEOREM ImplementsLifecycle == SingleCaller => (Spec => LifecycleSpec)
  <1> SUFFICES ASSUME SingleCaller
               PROVE  Spec => LifecycleSpec
    OBVIOUS
  <1>1. Init => Lifecycle!Init
    BY DEF Init, Lifecycle!Init, Book
  <1>2. TypeOK /\ Grounding /\ Serial /\ [Next]_vars => [Lifecycle!Next]_Book
    <2> SUFFICES ASSUME TypeOK, Grounding, Serial, [Next]_vars
                 PROVE  [Lifecycle!Next]_Book
      OBVIOUS
    <2>1. CASE UNCHANGED vars
      BY <2>1, SameBook DEF vars
    <2>2. ASSUME NEW c \in Calls, Start(c) \/ Accept(c) \/ Decline(c)
          PROVE  UNCHANGED Book
      BY <2>2, SameBook DEF Start, CreatePaymentIntent, CapturePayment, VoidPayment,
                            ProcessRefund, Accept, Decline
    <2> QED
      BY <2>1, <2>2, ResumeImplements DEF Next
  <1> QED
    BY <1>1, <1>2, TypeCorrect, AlwaysGrounded, AlwaysSerial, PTL
       DEF Spec, LifecycleSpec, Lifecycle!Spec
=============================================================================
