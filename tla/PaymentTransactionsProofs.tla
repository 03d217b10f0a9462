-------------------- MODULE PaymentTransactionsProofs ----------------------
(***************************************************************************)
(* Proofs about PaymentTransactions, for any number of orders, providers,  *)
(* concurrent calls and any amounts.                                       *)
(***************************************************************************)
EXTENDS PaymentTransactionsProps, FiniteSums, TLAPS

-----------------------------------------------------------------------------
(* Sequences.                                                              *)

(* Appending an element of S to a sequence over S. *)
LEMMA AppendToSeq ==
  ASSUME NEW S, NEW s \in Seq(S), NEW e \in S
  PROVE  /\ Append(s, e) \in Seq(S)
         /\ Len(Append(s, e)) = Len(s) + 1
         /\ DOMAIN Append(s, e) = DOMAIN s \cup {Len(s) + 1}
         /\ \A i \in DOMAIN s : Append(s, e)[i] = s[i]
         /\ Append(s, e)[Len(s) + 1] = e
  OBVIOUS

(* Replacing one element of a sequence over S by an element of S. *)
LEMMA UpdateSeq ==
  ASSUME NEW S, NEW s \in Seq(S), NEW i \in DOMAIN s, NEW e \in S
  PROVE  LET u == [s EXCEPT ![i] = e] IN
         /\ u \in Seq(S)
         /\ Len(u) = Len(s)
         /\ DOMAIN u = DOMAIN s
         /\ u[i] = e
         /\ \A j \in DOMAIN s : j # i => u[j] = s[j]
  OBVIOUS

-----------------------------------------------------------------------------
(* Calls in flight.                                                        *)

(* What a call is can be read off its op. *)
LEMMA CallShape ==
  ASSUME TypeOK, NEW c \in Calls
  PROVE  /\ Idle(c) <=> calls[c].op = "none"
         /\ calls[c].op \in {"intent", "failover"} => calls[c] \in IntentCall
         /\ calls[c].op \in {"capture", "void", "refund"}
              => calls[c] \in TxnCall /\ calls[c].txn \in DOMAIN txns
         /\ calls[c].op = "refund" => calls[c] \in RefundCall
         /\ calls[c].op \in {"none", "intent", "failover", "capture", "void", "refund"}
  BY DEF TypeOK, IdleCall, IntentCall, TxnCall, HoldCall, RefundCall, Idle

(* Changing one call leaves the others well formed. *)
LEMMA SendsType ==
  ASSUME TypeOK, NEW c \in Calls,
         NEW call \in {IdleCall} \cup IntentCall \cup TxnCall, Sends(c, call)
  PROVE  /\ calls' \in [Calls -> {IdleCall} \cup IntentCall \cup TxnCall]
         /\ calls'[c] = call
         /\ \A d \in Calls \ {c} : calls'[d] = calls[d]
  BY DEF TypeOK, Sends

(* A new transaction comes with its audit totals. *)
LEMMA RecordType ==
  ASSUME TypeOK, NEW call \in IntentCall, NEW conn \in Conn, NEW hasId \in BOOLEAN,
         NEW s \in Status, RecordTxn(call, conn, hasId, s)
  PROVE  /\ txns' \in Seq(Txn)
         /\ audit' \in Seq(AuditTotals)
         /\ Len(audit') = Len(txns')
         /\ DOMAIN txns' = DOMAIN txns \cup {Len(txns) + 1}
         /\ \A t \in DOMAIN txns : txns'[t] = txns[t] /\ audit'[t] = audit[t]
         /\ txns'[Len(txns) + 1] = NewTxn(call, conn, hasId, s)
         /\ audit'[Len(txns) + 1].last = s
  <1>1. NewTxn(call, conn, hasId, s) \in Txn
    BY DEF NewTxn, Txn, IntentCall
  <1> DEFINE totals == [initiated |-> 0, completed |-> 0, last |-> s]
  <1>2. totals \in AuditTotals
    BY DEF AuditTotals
  <1>3. /\ txns \in Seq(Txn) /\ audit \in Seq(AuditTotals) /\ Len(audit) = Len(txns)
        /\ txns' = Append(txns, NewTxn(call, conn, hasId, s))
        /\ audit' = Append(audit, totals)
    BY DEF TypeOK, RecordTxn
  <1> HIDE DEF totals
  <1>4. DOMAIN audit = DOMAIN txns
    BY <1>3
  <1>5. totals.last = s
    BY DEF totals
  <1> QED
    BY <1>1, <1>2, <1>3, <1>4, <1>5, AppendToSeq

(* An update replaces one transaction and its audit totals. *)
LEMMA UpdateType ==
  ASSUME TypeOK, NEW t \in DOMAIN txns, NEW newTxn \in Txn, NEW n \in Nat,
         UpdateTxn(t, newTxn, n)
  PROVE  /\ txns' \in Seq(Txn)
         /\ audit' \in Seq(AuditTotals)
         /\ Len(audit') = Len(txns')
         /\ DOMAIN txns' = DOMAIN txns
         /\ txns'[t] = newTxn
         /\ audit'[t].last = newTxn.status
         /\ \A u \in DOMAIN txns : u # t => txns'[u] = txns[u] /\ audit'[u] = audit[u]
  <1> DEFINE totals == [audit[t] EXCEPT !.completed = @ + n, !.last = newTxn.status]
  <1>1. /\ txns \in Seq(Txn) /\ audit \in Seq(AuditTotals) /\ Len(audit) = Len(txns)
        /\ DOMAIN audit = DOMAIN txns
    BY DEF TypeOK
  <1>2. audit[t] \in AuditTotals
    BY <1>1
  <1>3. newTxn.status \in Status
    BY DEF Txn
  <1>4. [audit[t] EXCEPT !.completed = @ + n] \in AuditTotals
    BY <1>2 DEF AuditTotals
  <1>5. totals \in AuditTotals /\ totals.last = newTxn.status
    BY <1>2, <1>3, <1>4 DEF AuditTotals
  <1>6. txns' = [txns EXCEPT ![t] = newTxn] /\ audit' = [audit EXCEPT ![t] = totals]
    BY <1>1, <1>2 DEF UpdateTxn, AuditTotals
  <1> HIDE DEF totals
  <1> QED
    BY <1>1, <1>5, <1>6, UpdateSeq

-----------------------------------------------------------------------------
(* Type correctness.                                                       *)

(* A recorded transaction. *)
LEMMA TxnAt ==
  ASSUME TypeOK, NEW t \in DOMAIN txns
  PROVE  /\ txns[t] \in Txn /\ t \in Nat
         /\ <<txns[t].conn, txns[t].ref>> \in Conn \X Refs
  <1>1. txns[t] \in Txn /\ t \in Nat
    BY DEF TypeOK
  <1> QED
    BY <1>1 DEF Txn

(* A call that starts is well formed. *)
LEMMA RequestType ==
  ASSUME TypeOK, NEW t \in DOMAIN txns, NEW target \in Status
  PROVE  /\ \A op \in {"capture", "void"}, a \in Int :
              TxnRequest(op, t, a, NoKey, target) \in TxnCall
         /\ \A a \in Amount, k \in RefundKeys :
              TxnRequest("refund", t, a, k, target) \in TxnCall
  <1>1. txns[t].conn \in Conn /\ t \in Nat
    BY TxnAt DEF Txn
  <1>2. ASSUME NEW op \in {"capture", "void"}, NEW a \in Int
        PROVE  TxnRequest(op, t, a, NoKey, target) \in HoldCall
    BY <1>1 DEF TxnRequest, HoldCall, Verdict
  <1>3. ASSUME NEW a \in Amount, NEW k \in RefundKeys
        PROVE  TxnRequest("refund", t, a, k, target) \in RefundCall
    BY <1>1 DEF TxnRequest, RefundCall, Verdict
  <1>4. HoldCall \subseteq TxnCall /\ RefundCall \subseteq TxnCall
    BY DEF TxnCall
  <1>5. \A op \in {"capture", "void"}, a \in Int :
          TxnRequest(op, t, a, NoKey, target) \in TxnCall
    BY <1>2, <1>4
  <1>6. \A a \in Amount, k \in RefundKeys :
          TxnRequest("refund", t, a, k, target) \in TxnCall
    BY <1>3, <1>4
  <1> QED
    BY <1>5, <1>6

(* What a caller may ask to be captured is a number. *)
LEMMA CaptureAmounts ==
  ASSUME TypeOK, NEW t \in DOMAIN txns
  PROVE  Captures \cup {txns[t].amount} \subseteq Int
  <1>1. txns[t].amount \in Amount
    BY TxnAt DEF Txn
  <1>2. Amount \subseteq Int
    BY DEF Amount
  <1> QED
    BY <1>1, <1>2, CapturesAssumption

(* The calls change, and those on transactions are on recorded ones. *)
LEMMA CallsType ==
  ASSUME TypeOK, NEW c \in Calls,
         NEW call \in {IdleCall} \cup IntentCall \cup TxnCall, Sends(c, call),
         call \in TxnCall => call.txn \in DOMAIN txns',
         DOMAIN txns \subseteq DOMAIN txns'
  PROVE  \A d \in Calls : calls'[d] \in TxnCall => calls'[d].txn \in DOMAIN txns'
  BY SendsType DEF TypeOK

(* IdleCall is neither of the other two kinds of call. *)
LEMMA IdleCallType ==
  IdleCall \notin IntentCall /\ IdleCall \notin TxnCall
  /\ \A call \in IntentCall : call \notin TxnCall
  BY DEF IdleCall, IntentCall, TxnCall, HoldCall, RefundCall

(* A refund that is answered, paid out or not, moves nothing else. *)
LEMMA RefundedEntry ==
  ASSUME NEW s \in IntentState, NEW call \in RefundCall
  PROVE  LET n == Refunded(s, call) IN
         /\ n \in IntentState
         /\ Repaid(n) = Repaid(s) + call.amount
         /\ n.refunded >= s.refunded
         /\ n.authorized = s.authorized
         /\ n.captured = s.captured
         /\ n.voided = s.voided
  <1>1. /\ call.amount \in Nat /\ call.key \in RefundKeys
        /\ s.refunded \in Nat /\ s.repeated \in Nat /\ s.keys \in SUBSET RefundKeys
    BY PaymentAssumption DEF RefundCall, IntentState, Amount
  <1>2. CASE Repeats(call)
    <2>1. Refunded(s, call) = [s EXCEPT !.repeated = @ + call.amount]
      BY <1>2 DEF Refunded
    <2>2. s.repeated + call.amount \in Nat
      BY <1>1
    <2> QED
      BY <1>1, <2>1, <2>2 DEF IntentState, Repaid
  <1>3. CASE ~Repeats(call)
    <2> DEFINE paid == [s EXCEPT !.refunded = @ + call.amount]
    <2>1. Refunded(s, call) = [paid EXCEPT !.keys = @ \cup {call.key}]
      BY <1>3 DEF Refunded, IntentState
    <2>2. s.refunded + call.amount \in Nat
      BY <1>1
    <2>3. /\ paid \in IntentState /\ paid.refunded = s.refunded + call.amount
          /\ paid.repeated = s.repeated /\ paid.keys = s.keys
          /\ paid.authorized = s.authorized /\ paid.captured = s.captured
          /\ paid.voided = s.voided
      BY <1>1, <2>2 DEF IntentState
    <2>4. paid.keys \cup {call.key} \in SUBSET RefundKeys
      BY <1>1, <2>3
    <2> HIDE DEF paid
    <2> QED
      BY <1>1, <2>1, <2>3, <2>4 DEF IntentState, Repaid
  <1> QED
    BY <1>2, <1>3

(* The provider's decision keeps the types. *)
LEMMA AcceptType ==
  ASSUME TypeOK, NEW c \in Calls, Accept(c)
  PROVE  TypeOK'
  <1> DEFINE call == calls[c]
             i    == IntentOf(call)
             new  == [call EXCEPT !.verdict = "accepted"]
  <1>1. calls' = [calls EXCEPT ![c] = new] /\ ~Idle(c)
    BY DEF Accept, TypeOK
  <1>2. /\ new \in IntentCall \cup TxnCall
        /\ new \in TxnCall => call \in TxnCall /\ new.txn = call.txn
    BY <1>1, CallShape DEF IntentCall, TxnCall, HoldCall, RefundCall, Verdict
  <1>3. calls' \in [Calls -> {IdleCall} \cup IntentCall \cup TxnCall]
    BY <1>1, <1>2 DEF TypeOK
  <1>4. UNCHANGED <<txns, audit, failoverLog, refundUses>>
    BY DEF Accept
  <1>5. \A d \in Calls : calls'[d] \in TxnCall => calls'[d].txn \in DOMAIN txns'
    BY <1>1, <1>2, <1>4 DEF TypeOK
  <1>6. i \in Conn \X Refs
    <2>1. CASE call.op \in {"intent", "failover"}
      BY <2>1, CallShape DEF IntentOf, IntentCall
    <2>2. CASE call.op \in {"capture", "void", "refund"}
      <3>1. call.txn \in DOMAIN txns /\ call.conn \in Conn
        BY <2>2, CallShape DEF TxnCall, HoldCall, RefundCall
      <3>2. txns[call.txn].ref \in Refs
        BY <3>1, TxnAt DEF Txn
      <3> QED
        BY <2>2, <3>1, <3>2 DEF IntentOf
    <2> QED
      BY <1>1, <2>1, <2>2, CallShape
  <1>7. ledger' \in [Conn \X Refs -> IntentState]
    <2>1. ledger \in [Conn \X Refs -> IntentState] /\ ledger[i] \in IntentState
      BY <1>6 DEF TypeOK
    <2>2. CASE call.op \in {"intent", "failover"}
      BY <2>1, <2>2, <1>6 DEF Accept, IntentState
    <2>3. CASE call.op = "capture"
      <3>1. Positive(call.amount) \in Nat
        BY <2>3, CallShape, PaymentAssumption
           DEF TxnCall, HoldCall, RefundCall, Amount, Positive
      <3> QED
        BY <2>1, <2>3, <3>1, <1>6 DEF Accept, IntentState
    <2>4. CASE call.op = "void"
      BY <2>1, <2>4, <1>6 DEF Accept, IntentState
    <2>5. CASE call.op = "refund"
      <3>1. Refunded(ledger[i], call) \in IntentState
        BY <2>1, <2>5, CallShape, RefundedEntry
      <3>2. ledger' = [ledger EXCEPT ![i] = Refunded(ledger[i], call)]
        BY <2>1, <2>5, <1>6 DEF Accept
      <3> HIDE DEF i
      <3> QED
        BY <2>1, <3>1, <3>2, <1>6
    <2> QED
      BY <1>1, <2>2, <2>3, <2>4, <2>5, CallShape
  <1> QED
    BY <1>3, <1>4, <1>5, <1>7 DEF TypeOK

(* So does its refusal. *)
LEMMA DeclineType ==
  ASSUME TypeOK, NEW c \in Calls, Decline(c)
  PROVE  TypeOK'
  <1> DEFINE call == calls[c]
             new  == [call EXCEPT !.verdict = "declined"]
  <1>1. calls' = [calls EXCEPT ![c] = new] /\ ~Idle(c)
    BY DEF Decline, TypeOK
  <1>2. /\ new \in IntentCall \cup TxnCall
        /\ new \in TxnCall => call \in TxnCall /\ new.txn = call.txn
    BY <1>1, CallShape DEF IntentCall, TxnCall, HoldCall, RefundCall, Verdict
  <1>3. calls' \in [Calls -> {IdleCall} \cup IntentCall \cup TxnCall]
    BY <1>1, <1>2 DEF TypeOK
  <1>4. UNCHANGED <<txns, audit, failoverLog, ledger, refundUses>>
    BY DEF Decline
  <1>5. \A d \in Calls : calls'[d] \in TxnCall => calls'[d].txn \in DOMAIN txns'
    BY <1>1, <1>2, <1>4 DEF TypeOK
  <1> QED
    BY <1>3, <1>4, <1>5 DEF TypeOK

(* A call that is sent or returns, with nothing recorded. *)
LEMMA SendType ==
  ASSUME TypeOK, NEW c \in Calls,
         NEW call \in {IdleCall} \cup IntentCall \cup TxnCall, Sends(c, call),
         call \in TxnCall => call.txn \in DOMAIN txns,
         UNCHANGED <<txns, audit, ledger>>,
         failoverLog' \in SUBSET (Refs \X Conn \X Conn),
         refundUses' \in [RefundKeys -> Nat]
  PROVE  TypeOK'
  BY SendsType, CallsType DEF TypeOK

(* An intent that ends in a record. *)
LEMMA RecordKeepsType ==
  ASSUME TypeOK, NEW c \in Calls, calls[c] \in IntentCall, NEW conn \in Conn,
         NEW hasId \in BOOLEAN, NEW s \in Status,
         RecordTxn(calls[c], conn, hasId, s), Returns(c),
         UNCHANGED <<failoverLog, ledger, refundUses>>
  PROVE  TypeOK'
  <1>1. \A d \in Calls : calls'[d] \in TxnCall => calls'[d].txn \in DOMAIN txns'
    BY CallsType, RecordType, IdleCallType DEF Returns
  <1>2. calls' \in [Calls -> {IdleCall} \cup IntentCall \cup TxnCall]
    BY SendsType DEF Returns
  <1> QED
    BY <1>1, <1>2, RecordType DEF TypeOK

(* A capture, void or refund that updates its transaction. *)
LEMMA UpdateKeepsType ==
  ASSUME TypeOK, NEW c \in Calls, NEW t \in DOMAIN txns, NEW newTxn \in Txn,
         NEW n \in Nat, UpdateTxn(t, newTxn, n), Returns(c),
         UNCHANGED <<failoverLog, ledger, refundUses>>
  PROVE  TypeOK'
  <1>1. \A d \in Calls : calls'[d] \in TxnCall => calls'[d].txn \in DOMAIN txns'
    BY CallsType, UpdateType, IdleCallType DEF Returns
  <1>2. calls' \in [Calls -> {IdleCall} \cup IntentCall \cup TxnCall]
    BY SendsType DEF Returns
  <1> QED
    BY <1>1, <1>2, UpdateType DEF TypeOK

(* A call that was answered, by kind. *)
LEMMA AnsweredCall ==
  ASSUME TypeOK, NEW c \in Calls, NEW op, NEW v, Answered(c, op, v)
  PROVE  /\ calls[c].op = op /\ calls[c].verdict = v
         /\ op \in {"intent", "failover"} =>
              calls[c] \in IntentCall
         /\ op \in {"capture", "void", "refund"} =>
              /\ calls[c] \in TxnCall
              /\ calls[c].txn \in DOMAIN txns
              /\ txns[calls[c].txn] \in Txn
              /\ calls[c].amount \in Int /\ calls[c].target \in Status
         /\ op = "refund" => calls[c].amount \in Nat /\ calls[c].amount > 0
  <1>1. calls[c].op = op /\ calls[c].verdict = v
    BY DEF Answered
  <1>2. ASSUME op \in {"capture", "void", "refund"}
        PROVE  /\ calls[c] \in TxnCall
               /\ calls[c].txn \in DOMAIN txns
    BY <1>1, <1>2, CallShape
  <1>3. ASSUME calls[c] \in TxnCall
        PROVE  /\ calls[c].amount \in Int /\ calls[c].target \in Status
               /\ calls[c] \in RefundCall =>
                    calls[c].amount \in Nat /\ calls[c].amount > 0
    BY <1>3, PaymentAssumption DEF TxnCall, HoldCall, RefundCall, Amount
  <1> QED
    BY <1>1, <1>2, <1>3, CallShape, TxnAt

(* What a settled call writes is a transaction, of the same intent. *)
LEMMA SettledTxn ==
  ASSUME NEW txn \in Txn, NEW s \in Status, NEW n \in Int
  PROVE  /\ [txn EXCEPT !.status = s] \in Txn
         /\ [txn EXCEPT !.status = s, !.captured = n] \in Txn
         /\ [txn EXCEPT !.status = s, !.refunded = @ + n] \in Txn
  <1>1. [txn EXCEPT !.status = s] \in Txn
    BY DEF Txn
  <1>2. [txn EXCEPT !.status = s, !.captured = n] \in Txn
    BY <1>1 DEF Txn
  <1>3. txn.refunded + n \in Int
    BY DEF Txn
  <1>4. [txn EXCEPT !.status = s, !.refunded = @ + n] \in Txn
    BY <1>1, <1>3 DEF Txn
  <1> QED
    BY <1>1, <1>2, <1>4

(* The second half of every call keeps the types. *)
LEMMA ResumeType ==
  ASSUME TypeOK, NEW c \in Calls, Resume(c)
  PROVE  TypeOK'
  <1>0. "failed" \in Status /\ "authorized" \in Status /\ 0 \in Nat
    BY DEF Status
  <1>1. ASSUME NEW tenant \in TenantConfig, IntentFailsOver(c, tenant)
        PROVE  TypeOK'
    <2>1. PICK f \in Conn :
            /\ failoverLog' = failoverLog \cup {<<calls[c].ref, calls[c].conn, f>>}
            /\ Sends(c, [calls[c] EXCEPT !.op = "failover", !.conn = f,
                                         !.verdict = "pending"])
      BY <1>1 DEF IntentFailsOver
    <2>2. calls[c] \in IntentCall
      BY <1>1, AnsweredCall DEF IntentFailsOver
    <2> DEFINE new == [calls[c] EXCEPT !.op = "failover", !.conn = f,
                                       !.verdict = "pending"]
    <2>3. [calls[c] EXCEPT !.op = "failover"] \in IntentCall
      BY <2>2 DEF IntentCall
    <2>4. [calls[c] EXCEPT !.op = "failover", !.conn = f] \in IntentCall
      BY <2>3 DEF IntentCall
    <2>5. new \in IntentCall
      BY <2>4 DEF IntentCall, Verdict
    <2>6. failoverLog' \in SUBSET (Refs \X Conn \X Conn)
      BY <2>1, <2>2 DEF TypeOK, IntentCall
    <2>7. UNCHANGED <<txns, audit, ledger, refundUses>>
      BY <1>1 DEF IntentFailsOver
    <2>8. new \notin TxnCall
      BY <2>5, IdleCallType
    <2> HIDE DEF new
    <2> QED
      BY <2>1, <2>5, <2>6, <2>7, <2>8, SendType DEF TypeOK, new
  <1>2. ASSUME NEW tenant \in TenantConfig, IntentFails(c, tenant)
        PROVE  TypeOK'
    <2>1. calls[c] \in IntentCall
      BY <1>2, AnsweredCall DEF IntentFails
    <2>2. calls[c].primary \in Conn
      BY <2>1 DEF IntentCall
    <2> QED
      BY <1>0, <1>2, <2>1, <2>2, RecordKeepsType DEF IntentFails
  <1>3. CASE IntentAuthorized(c)
    <2>1. calls[c] \in IntentCall
      BY <1>3, AnsweredCall DEF IntentAuthorized
    <2>2. calls[c].conn \in Conn
      BY <2>1 DEF IntentCall
    <2> QED
      BY <1>0, <1>3, <2>1, <2>2, RecordKeepsType DEF IntentAuthorized
  <1>4. CASE CaptureSettles(c)
    <2> DEFINE t      == calls[c].txn
               newTxn == [txns[t] EXCEPT !.status = calls[c].target,
                                          !.captured = calls[c].amount]
    <2>1. /\ t \in DOMAIN txns /\ txns[t] \in Txn
          /\ calls[c].target \in Status /\ calls[c].amount \in Int
      BY <1>4, AnsweredCall DEF CaptureSettles
    <2>2. newTxn \in Txn
      BY <1>0, <2>1, SettledTxn
    <2>3. /\ UpdateTxn(t, newTxn, 0) /\ Returns(c)
          /\ UNCHANGED <<failoverLog, ledger, refundUses>>
      BY <1>4 DEF CaptureSettles
    <2> HIDE DEF newTxn, t
    <2> QED
      BY <1>0, <2>1, <2>2, <2>3, UpdateKeepsType
  <1>5. CASE VoidSettles(c)
    <2> DEFINE t      == calls[c].txn
               newTxn == [txns[t] EXCEPT !.status = calls[c].target]
    <2>1. /\ t \in DOMAIN txns /\ txns[t] \in Txn
          /\ calls[c].target \in Status /\ calls[c].amount \in Int
      BY <1>5, AnsweredCall DEF VoidSettles
    <2>2. newTxn \in Txn
      BY <1>0, <2>1, SettledTxn
    <2>3. /\ UpdateTxn(t, newTxn, 0) /\ Returns(c)
          /\ UNCHANGED <<failoverLog, ledger, refundUses>>
      BY <1>5 DEF VoidSettles
    <2> HIDE DEF newTxn, t
    <2> QED
      BY <1>0, <2>1, <2>2, <2>3, UpdateKeepsType
  <1>6. CASE CaptureOrVoidFails(c)
    <2> DEFINE t      == calls[c].txn
               newTxn == [txns[t] EXCEPT !.status = "failed"]
    <2>1. /\ t \in DOMAIN txns /\ txns[t] \in Txn
          /\ calls[c].target \in Status /\ calls[c].amount \in Int
      BY <1>6, AnsweredCall DEF CaptureOrVoidFails
    <2>2. newTxn \in Txn
      BY <1>0, <2>1, SettledTxn
    <2>3. /\ UpdateTxn(t, newTxn, 0) /\ Returns(c)
          /\ UNCHANGED <<failoverLog, ledger, refundUses>>
      BY <1>6 DEF CaptureOrVoidFails
    <2> HIDE DEF newTxn, t
    <2> QED
      BY <1>0, <2>1, <2>2, <2>3, UpdateKeepsType
  <1>7. CASE RefundSettles(c)
    <2> DEFINE t      == calls[c].txn
               newTxn == [txns[t] EXCEPT !.status = calls[c].target,
                                          !.refunded = @ + calls[c].amount]
    <2>1. /\ t \in DOMAIN txns /\ txns[t] \in Txn
          /\ calls[c].target \in Status
          /\ calls[c].amount \in Int /\ calls[c].amount \in Nat
      BY <1>7, AnsweredCall DEF RefundSettles
    <2>2. newTxn \in Txn
      BY <1>0, <2>1, SettledTxn
    <2>3. /\ UpdateTxn(t, newTxn, calls[c].amount) /\ Returns(c)
          /\ UNCHANGED <<failoverLog, ledger, refundUses>>
      BY <1>7 DEF RefundSettles
    <2> HIDE DEF newTxn, t
    <2> QED
      BY <1>0, <2>1, <2>2, <2>3, UpdateKeepsType
  <1>8. CASE RefundFails(c)
    BY <1>8, SendType, IdleCallType DEF RefundFails, Returns, TypeOK
  <1> QED
    BY <1>1, <1>2, <1>3, <1>4, <1>5, <1>6, <1>7, <1>8 DEF Resume

(* The first half of every call keeps the types. *)
LEMMA StartType ==
  ASSUME TypeOK, NEW c \in Calls, Start(c)
  PROVE  TypeOK'
  <1>0. {"captured", "voided", "refunded", "partially_refunded"} \subseteq Status
    BY DEF Status
  <1>1. ASSUME NEW r \in Refs, NEW a \in Amount, NEW tenant \in TenantConfig,
               CreatePaymentIntent(c, r, a, tenant)
        PROVE  TypeOK'
    <2>1. PICK p \in Conn :
            Sends(c, [op |-> "intent", verdict |-> "pending", ref |-> r,
                      amount |-> a, conn |-> p, primary |-> p])
      BY <1>1 DEF CreatePaymentIntent
    <2> DEFINE new == [op |-> "intent", verdict |-> "pending", ref |-> r,
                       amount |-> a, conn |-> p, primary |-> p]
    <2>2. new \in IntentCall
      BY DEF IntentCall, Verdict
    <2>3. UNCHANGED <<txns, audit, failoverLog, ledger, refundUses>>
      BY <1>1 DEF CreatePaymentIntent
    <2>4. Sends(c, new)
      BY <2>1
    <2> HIDE DEF new
    <2> QED
      BY <2>2, <2>3, <2>4, SendType, IdleCallType DEF TypeOK
  <1>2. ASSUME NEW t \in DOMAIN txns, NEW a \in Int, CapturePayment(c, t, a)
        PROVE  TypeOK'
    <2>1. TxnRequest("capture", t, a, NoKey, "captured") \in TxnCall
      BY <1>0, RequestType
    <2>2. TxnRequest("capture", t, a, NoKey, "captured").txn = t
      BY DEF TxnRequest
    <2> QED
      BY <1>2, <2>1, <2>2, SendType DEF CapturePayment, TypeOK
  <1>3. ASSUME NEW t \in DOMAIN txns, VoidPayment(c, t)
        PROVE  TypeOK'
    <2>1. txns[t].amount \in Int
      BY CaptureAmounts
    <2>2. TxnRequest("void", t, txns[t].amount, NoKey, "voided") \in TxnCall
      BY <1>0, <2>1, RequestType
    <2>3. TxnRequest("void", t, txns[t].amount, NoKey, "voided").txn = t
      BY DEF TxnRequest
    <2> QED
      BY <1>3, <2>2, <2>3, SendType DEF VoidPayment, TypeOK
  <1>4. ASSUME NEW t \in DOMAIN txns, NEW a \in Amount, NEW k \in RefundKeys,
               ProcessRefund(c, t, a, k)
        PROVE  TypeOK'
    <2> DEFINE new    == TxnRequest("refund", t, a, k, RefundTarget(t, a))
               totals == [audit[t] EXCEPT !.initiated = @ + a, !.last = txns[t].status]
    <2>1. new \in TxnCall /\ new.txn = t
      <3>1. RefundTarget(t, a) \in Status
        BY <1>0 DEF RefundTarget
      <3>2. new.txn = t
        BY DEF TxnRequest
      <3> QED
        BY <3>1, <3>2, RequestType
    <2>2. audit[t] \in AuditTotals /\ txns[t].status \in Status /\ a \in Nat
      <3>1. audit[t] \in AuditTotals
        BY DEF TypeOK
      <3>2. txns[t].status \in Status
        BY TxnAt DEF Txn
      <3> QED
        BY <3>1, <3>2, PaymentAssumption DEF Amount
    <2>3. audit[t].initiated + a \in Nat
      BY <2>2 DEF AuditTotals
    <2>4. totals \in AuditTotals
      <3>1. [audit[t] EXCEPT !.initiated = @ + a] \in AuditTotals
        BY <2>2, <2>3 DEF AuditTotals
      <3> DEFINE s == txns[t].status
      <3>2. s \in Status
        BY <2>2
      <3> HIDE DEF s
      <3>3. [audit[t] EXCEPT !.initiated = @ + a, !.last = s] \in AuditTotals
        BY <3>1, <3>2 DEF AuditTotals
      <3> QED
        BY <3>3 DEF s
    <2>5. audit' = [audit EXCEPT ![t] = totals] /\ t \in DOMAIN audit
      <3>1. t \in DOMAIN audit
        BY DEF TypeOK
      <3> QED
        BY <1>4, <2>2, <3>1 DEF ProcessRefund, AuditTotals
    <2>6. /\ Sends(c, new)
          /\ refundUses' \in [RefundKeys -> Nat]
          /\ UNCHANGED <<txns, failoverLog, ledger>>
      BY <1>4 DEF ProcessRefund, TypeOK
    <2> HIDE DEF new, totals
    <2>7. audit' \in Seq(AuditTotals) /\ Len(audit') = Len(audit)
      BY <2>4, <2>5, UpdateSeq DEF TypeOK
    <2> QED
      BY <2>1, <2>6, <2>7, SendsType, CallsType DEF TypeOK
  <1> QED
    BY <1>1, <1>2, <1>3, <1>4, CaptureAmounts DEF Start

(* Every record, call, ledger entry and audit total has its type, and audit
   totals and calls belong to recorded transactions. *)
THEOREM TypeCorrect == Spec => []TypeOK
  <1>1. Init => TypeOK
    BY DEF Init, TypeOK, IntentState, IdleCall, IntentCall, TxnCall, HoldCall, RefundCall
  <1>2. TypeOK /\ [Next]_vars => TypeOK'
    <2> SUFFICES ASSUME TypeOK, [Next]_vars
                 PROVE  TypeOK'
      OBVIOUS
    <2>1. CASE UNCHANGED vars
      BY <2>1 DEF TypeOK, vars
    <2>2. CASE Next
      BY <2>2, StartType, AcceptType, DeclineType, ResumeType DEF Next
    <2> QED
      BY <2>1, <2>2
  <1> QED
    BY <1>1, <1>2, PTL DEF Spec

-----------------------------------------------------------------------------
(* Grounding: what the records and the calls in flight say has happened did
   happen at the provider.  The invariant the safety properties rest on.   *)

TxnIntent(t) == <<txns[t].conn, txns[t].ref>>

(* A transaction the provider stands behind. *)
TxnIsGrounded(txn) ==
  LET s == ledger[<<txn.conn, txn.ref>>] IN
  /\ txn.hasProviderId => s.authorized
  /\ ~txn.hasProviderId => txn.status = "failed"
  /\ txn.captured <= s.captured
  /\ txn.refunded \in Nat
  /\ txn.status = "voided" => s.voided
  /\ txn.status \in {"refunded", "partially_refunded"} => Repaid(s) > 0

(* An intent call whose acceptance the provider remembers. *)
IntentIsGrounded(call) ==
  call.verdict = "accepted" => ledger[<<call.conn, call.ref>>].authorized

(* A capture, void or refund at the right provider, with the target its op
   stands for, whose acceptance the provider remembers.                     *)
RequestIsGrounded(call) ==
  LET s == ledger[TxnIntent(call.txn)]
      accepted == call.verdict = "accepted" IN
  /\ call.conn = txns[call.txn].conn /\ txns[call.txn].hasProviderId
  /\ call.op = "capture" =>
       call.target = "captured" /\ (accepted => call.amount <= s.captured)
  /\ call.op = "void" => call.target = "voided" /\ (accepted => s.voided)
  /\ call.op = "refund" =>
       /\ call.target \in {"refunded", "partially_refunded"}
       /\ s.captured > 0
       /\ accepted => Repaid(s) > 0

CallIsGrounded(call) ==
  /\ call.op \in {"intent", "failover"} => IntentIsGrounded(call)
  /\ call.op \in {"capture", "void", "refund"} => RequestIsGrounded(call)

Grounding ==
  /\ \A t \in DOMAIN txns : TxnIsGrounded(txns[t])
  /\ \A c \in Calls : CallIsGrounded(calls[c])
  /\ MoneyFollowsAuthorization

(* Sending a grounded call, or returning. *)
LEMMA SendIsGrounded ==
  ASSUME TypeOK, Grounding, NEW c \in Calls,
         NEW call \in {IdleCall} \cup IntentCall \cup TxnCall, Sends(c, call),
         CallIsGrounded(call), UNCHANGED <<txns, ledger>>
  PROVE  Grounding'
  <1>1. \A d \in Calls : CallIsGrounded(calls'[d])
    BY SendsType DEF Grounding
  <1>2. \A d \in Calls : CallIsGrounded(calls[d])'
    BY <1>1 DEF CallIsGrounded, IntentIsGrounded, RequestIsGrounded, TxnIntent
  <1>3. \A t \in DOMAIN txns' : TxnIsGrounded(txns[t])'
    BY DEF Grounding, TxnIsGrounded
  <1> QED
    BY <1>2, <1>3 DEF Grounding, MoneyFollowsAuthorization

LEMMA IdleIsGrounded == CallIsGrounded(IdleCall)
  BY DEF CallIsGrounded, IdleCall

(* Recording an intent as it ended. *)
LEMMA RecordIsGrounded ==
  ASSUME TypeOK, Grounding, NEW c \in Calls, calls[c] \in IntentCall,
         NEW conn \in Conn, NEW hasId \in BOOLEAN, NEW s \in {"authorized", "failed"},
         RecordTxn(calls[c], conn, hasId, s), Returns(c), UNCHANGED ledger,
         hasId => ledger[<<conn, calls[c].ref>>].authorized,
         ~hasId => s = "failed"
  PROVE  Grounding'
  <1> DEFINE txn == NewTxn(calls[c], conn, hasId, s)
  <1>0. s \in Status
    BY DEF Status
  <1>1. TxnIsGrounded(txn)
    <2>1. calls[c].ref \in Refs
      BY DEF IntentCall
    <2>2. ledger[<<conn, calls[c].ref>>].captured \in Nat
      BY <2>1 DEF TypeOK, IntentState
    <2> QED
      BY <2>2 DEF TxnIsGrounded, NewTxn
  <1>2. \A t \in DOMAIN txns' : TxnIsGrounded(txns'[t])
    BY <1>0, <1>1, RecordType DEF Grounding
  <1>3. \A t \in DOMAIN txns' : TxnIsGrounded(txns[t])'
    BY <1>2 DEF TxnIsGrounded
  <1>4. \A d \in Calls : CallIsGrounded(calls'[d])
    BY SendsType, IdleIsGrounded DEF Grounding, Returns
  <1>5. \A d \in Calls : CallIsGrounded(calls[d])'
    <2> SUFFICES ASSUME NEW d \in Calls
                 PROVE  CallIsGrounded(calls[d])'
      OBVIOUS
    <2>1. calls'[d] = IdleCall \/ calls'[d] = calls[d]
      BY SendsType DEF Returns
    <2>2. CASE calls'[d] = IdleCall
      BY <2>2 DEF CallIsGrounded, IdleCall
    <2>3. CASE calls'[d] = calls[d]
      <3>1. calls[d].op \in {"intent", "failover"} => IntentIsGrounded(calls[d])'
        BY <1>4, <2>3 DEF CallIsGrounded, IntentIsGrounded
      <3>2. ASSUME calls[d].op \in {"capture", "void", "refund"}
            PROVE  RequestIsGrounded(calls[d])'
        <4>1. txns'[calls[d].txn] = txns[calls[d].txn]
          BY <1>0, <3>2, CallShape, RecordType
        <4> QED
          BY <1>4, <2>3, <3>2, <4>1 DEF CallIsGrounded, RequestIsGrounded, TxnIntent
      <3> QED
        BY <2>3, <3>1, <3>2 DEF CallIsGrounded
    <2> QED
      BY <2>1, <2>2, <2>3
  <1> QED
    BY <1>3, <1>5 DEF Grounding, MoneyFollowsAuthorization

(* Updating a transaction to what its provider has done. *)
LEMMA UpdateIsGrounded ==
  ASSUME TypeOK, Grounding, NEW c \in Calls, NEW t \in DOMAIN txns,
         NEW newTxn \in Txn, NEW n \in Nat, UpdateTxn(t, newTxn, n), Returns(c),
         UNCHANGED ledger, TxnIsGrounded(newTxn),
         newTxn.conn = txns[t].conn, newTxn.ref = txns[t].ref,
         newTxn.hasProviderId = txns[t].hasProviderId
  PROVE  Grounding'
  <1>1. \A u \in DOMAIN txns' : TxnIsGrounded(txns'[u])
    BY UpdateType DEF Grounding
  <1>2. \A u \in DOMAIN txns' : TxnIsGrounded(txns[u])'
    BY <1>1 DEF TxnIsGrounded
  <1>3. \A d \in Calls : CallIsGrounded(calls'[d])
    BY SendsType, IdleIsGrounded DEF Grounding, Returns
  <1>4. \A d \in Calls : CallIsGrounded(calls[d])'
    <2> SUFFICES ASSUME NEW d \in Calls
                 PROVE  CallIsGrounded(calls[d])'
      OBVIOUS
    <2>1. calls'[d] = IdleCall \/ calls'[d] = calls[d]
      BY SendsType DEF Returns
    <2>2. CASE calls'[d] = IdleCall
      BY <2>2 DEF CallIsGrounded, IdleCall
    <2>3. CASE calls'[d] = calls[d]
      <3>1. calls[d].op \in {"intent", "failover"} => IntentIsGrounded(calls[d])'
        BY <1>3, <2>3 DEF CallIsGrounded, IntentIsGrounded
      <3>2. ASSUME calls[d].op \in {"capture", "void", "refund"}
            PROVE  RequestIsGrounded(calls[d])'
        <4> DEFINE u == calls[d].txn
        <4>1. /\ txns'[u].conn = txns[u].conn /\ txns'[u].ref = txns[u].ref
              /\ txns'[u].hasProviderId = txns[u].hasProviderId
          BY <3>2, CallShape, UpdateType
        <4> QED
          BY <1>3, <2>3, <3>2, <4>1 DEF CallIsGrounded, RequestIsGrounded, TxnIntent
      <3> QED
        BY <2>3, <3>1, <3>2 DEF CallIsGrounded
    <2> QED
      BY <2>1, <2>2, <2>3
  <1> QED
    BY <1>2, <1>4 DEF Grounding, MoneyFollowsAuthorization

(* The intent a call is about, and what the ledger holds for it. *)
LEMMA IntentOfCall ==
  ASSUME TypeOK, NEW c \in Calls, ~Idle(c)
  PROVE  /\ IntentOf(calls[c]) \in Conn \X Refs
         /\ ledger[IntentOf(calls[c])] \in IntentState
  <1>1. CASE calls[c].op \in {"intent", "failover"}
    BY <1>1, CallShape DEF IntentOf, IntentCall, TypeOK
  <1>2. CASE calls[c].op \in {"capture", "void", "refund"}
    <2>1. calls[c].txn \in DOMAIN txns /\ calls[c].conn \in Conn
      BY <1>2, CallShape DEF TxnCall, HoldCall, RefundCall
    <2>2. txns[calls[c].txn].ref \in Refs
      BY <2>1, TxnAt DEF Txn
    <2> QED
      BY <1>2, <2>1, <2>2 DEF IntentOf, TypeOK
  <1> QED
    BY <1>1, <1>2, CallShape

(* An accepted call changes one entry of the ledger, and only upwards. *)
LEMMA LedgerGrows ==
  ASSUME TypeOK, NEW c \in Calls, Accept(c)
  PROVE  LET i == IntentOf(calls[c]) IN
         /\ ~Idle(c)
         /\ \A j \in Conn \X Refs : j # i => ledger'[j] = ledger[j]
         /\ ledger[i].authorized => ledger'[i].authorized
         /\ ledger[i].voided => ledger'[i].voided
         /\ ledger'[i].captured >= ledger[i].captured
         /\ ledger'[i].refunded >= ledger[i].refunded
         /\ Repaid(ledger'[i]) >= Repaid(ledger[i])
         /\ calls[c].op # "refund" =>
              /\ ledger'[i].refunded = ledger[i].refunded
              /\ Repaid(ledger'[i]) = Repaid(ledger[i])
         /\ calls[c].op \in {"intent", "failover"} =>
              ledger'[i].authorized /\ ledger'[i].captured = ledger[i].captured
              /\ ledger'[i].voided = ledger[i].voided
         /\ calls[c].op = "capture" =>
              ledger'[i].captured = ledger[i].captured + Positive(calls[c].amount)
         /\ calls[c].op = "void" =>
              ledger'[i].voided /\ ledger'[i].captured = ledger[i].captured
         /\ calls[c].op = "refund" =>
              /\ Repaid(ledger'[i]) > 0
              /\ Repaid(ledger'[i]) = Repaid(ledger[i]) + calls[c].amount
              /\ ledger'[i].captured = ledger[i].captured
  <1> DEFINE call == calls[c]
             i    == IntentOf(call)
  <1>1. /\ ~Idle(c) /\ i \in Conn \X Refs /\ ledger[i] \in IntentState
        /\ ledger \in [Conn \X Refs -> IntentState]
    BY IntentOfCall DEF Accept, TypeOK
  <1>2. CASE call.op \in {"intent", "failover"}
    <2>1. ledger' = [ledger EXCEPT ![i].authorized = TRUE]
      BY <1>2 DEF Accept
    <2> HIDE DEF i
    <2>2. (\A j \in Conn \X Refs : j # i => ledger'[j] = ledger[j])
          /\ ledger'[i] = [ledger[i] EXCEPT !.authorized = TRUE]
      BY <1>1, <2>1
    <2> QED
      BY <1>1, <1>2, <2>2 DEF IntentState, Repaid, i
  <1>3. CASE call.op = "capture"
    <2>1. Positive(call.amount) \in Nat
      BY <1>3, CallShape, PaymentAssumption
         DEF TxnCall, HoldCall, RefundCall, Amount, Positive
    <2>2. ledger' = [ledger EXCEPT ![i].captured = @ + Positive(call.amount)]
      BY <1>3 DEF Accept
    <2> HIDE DEF i
    <2>3. (\A j \in Conn \X Refs : j # i => ledger'[j] = ledger[j])
          /\ ledger'[i] = [ledger[i] EXCEPT !.captured = @ + Positive(call.amount)]
      BY <1>1, <2>2
    <2> QED
      BY <1>1, <1>3, <2>1, <2>3 DEF IntentState, Repaid, i
  <1>4. CASE call.op = "void"
    <2>1. ledger' = [ledger EXCEPT ![i].voided = TRUE]
      BY <1>4 DEF Accept
    <2> HIDE DEF i
    <2>2. (\A j \in Conn \X Refs : j # i => ledger'[j] = ledger[j])
          /\ ledger'[i] = [ledger[i] EXCEPT !.voided = TRUE]
      BY <1>1, <2>1
    <2> QED
      BY <1>1, <1>4, <2>2 DEF IntentState, Repaid, i
  <1>5. CASE call.op = "refund"
    <2>1. call \in RefundCall /\ call.amount \in Nat /\ call.amount > 0
      BY <1>5, CallShape, PaymentAssumption DEF RefundCall, Amount
    <2>2. ledger' = [ledger EXCEPT ![i] = Refunded(ledger[i], call)]
      BY <1>1, <1>5 DEF Accept
    <2> HIDE DEF i
    <2>3. (\A j \in Conn \X Refs : j # i => ledger'[j] = ledger[j])
          /\ ledger'[i] = Refunded(ledger[i], call)
      BY <1>1, <2>2
    <2>4. /\ Repaid(ledger'[i]) = Repaid(ledger[i]) + call.amount
          /\ ledger'[i].refunded >= ledger[i].refunded
          /\ ledger'[i].captured = ledger[i].captured
          /\ ledger'[i].authorized = ledger[i].authorized
          /\ ledger'[i].voided = ledger[i].voided
          /\ Repaid(ledger[i]) \in Nat /\ ledger[i].captured \in Nat
      BY <1>1, <2>1, <2>3, RefundedEntry DEF IntentState, Repaid
    <2> QED
      BY <1>1, <1>5, <2>1, <2>3, <2>4 DEF i
  <1> QED
    BY <1>1, <1>2, <1>3, <1>4, <1>5, CallShape

(* A capture, void or refund in flight has an authorized intent behind it. *)
LEMMA RequestIsBacked ==
  ASSUME TypeOK, Grounding, NEW c \in Calls,
         calls[c].op \in {"capture", "void", "refund"}
  PROVE  LET t == calls[c].txn IN
         /\ t \in DOMAIN txns /\ txns[t] \in Txn /\ txns[t].hasProviderId
         /\ IntentOf(calls[c]) = TxnIntent(t)
         /\ calls[c].conn = txns[t].conn
         /\ ledger[TxnIntent(t)].authorized
         /\ RequestIsGrounded(calls[c])
  <1> DEFINE t == calls[c].txn
  <1>1. t \in DOMAIN txns
    BY CallShape
  <1>2. RequestIsGrounded(calls[c]) /\ TxnIsGrounded(txns[t])
    BY <1>1 DEF Grounding, CallIsGrounded
  <1>3. IntentOf(calls[c]) = TxnIntent(t)
    BY <1>2 DEF RequestIsGrounded, IntentOf, TxnIntent
  <1> QED
    BY <1>1, <1>2, <1>3, TxnAt DEF RequestIsGrounded, TxnIsGrounded, TxnIntent

(* What the provider accepts is added to the ledger before it is answered. *)
LEMMA AcceptIsGrounded ==
  ASSUME TypeOK, Grounding, NEW c \in Calls, Accept(c)
  PROVE  Grounding'
  <1> DEFINE call == calls[c]
             i    == IntentOf(call)
             new  == [call EXCEPT !.verdict = "accepted"]
  <1>1. /\ ~Idle(c) /\ i \in Conn \X Refs /\ ledger[i] \in IntentState
        /\ ledger \in [Conn \X Refs -> IntentState]
        /\ ledger' \in [Conn \X Refs -> IntentState]
        /\ txns' = txns
    BY IntentOfCall, AcceptType DEF Accept, TypeOK
  <1>2. \A j \in Conn \X Refs :
          /\ ledger[j] \in IntentState /\ ledger'[j] \in IntentState
          /\ ledger[j].authorized => ledger'[j].authorized
          /\ ledger[j].voided => ledger'[j].voided
          /\ ledger'[j].captured >= ledger[j].captured
          /\ Repaid(ledger'[j]) >= Repaid(ledger[j])
    <2> SUFFICES ASSUME NEW j \in Conn \X Refs
                 PROVE  /\ ledger[j] \in IntentState /\ ledger'[j] \in IntentState
                        /\ ledger[j].authorized => ledger'[j].authorized
                        /\ ledger[j].voided => ledger'[j].voided
                        /\ ledger'[j].captured >= ledger[j].captured
                        /\ Repaid(ledger'[j]) >= Repaid(ledger[j])
      OBVIOUS
    <2>1. CASE j = i
      BY <1>1, <2>1, LedgerGrows
    <2>2. CASE j # i
      BY <1>1, <2>2, LedgerGrows DEF IntentState, Repaid
    <2> QED
      BY <2>1, <2>2
  <1>3. \A t \in DOMAIN txns' : TxnIsGrounded(txns[t])'
    <2> SUFFICES ASSUME NEW t \in DOMAIN txns
                 PROVE  TxnIsGrounded(txns[t])'
      BY <1>1
    <2> DEFINE j == <<txns[t].conn, txns[t].ref>>
    <2>1. j \in Conn \X Refs /\ txns[t] \in Txn /\ txns[t].captured \in Int
      BY TxnAt DEF Txn
    <2>2. TxnIsGrounded(txns[t])
      BY DEF Grounding
    <2>3. /\ ledger[j].captured \in Nat /\ ledger'[j].captured \in Nat
          /\ Repaid(ledger[j]) \in Nat /\ Repaid(ledger'[j]) \in Nat
      BY <1>2, <2>1 DEF IntentState, Repaid
    <2> QED
      BY <1>1, <1>2, <2>1, <2>2, <2>3 DEF TxnIsGrounded
  <1>4. calls' = [calls EXCEPT ![c] = new]
    BY DEF Accept, TypeOK
  <1>5. /\ calls'[c] = new /\ new.verdict = "accepted"
        /\ \A d \in Calls : d # c => calls'[d] = calls[d]
    <2>1. call \in IntentCall \cup TxnCall
      BY <1>1, CallShape
    <2>2. new.verdict = "accepted"
      BY <2>1 DEF IntentCall, TxnCall, HoldCall, RefundCall
    <2> HIDE DEF new
    <2> QED
      BY <1>4, <2>2 DEF TypeOK
  <1>6. \A d \in Calls : CallIsGrounded(calls[d])'
    <2> SUFFICES ASSUME NEW d \in Calls
                 PROVE  CallIsGrounded(calls[d])'
      OBVIOUS
    <2>1. /\ calls'[d].op = calls[d].op
          /\ calls'[d].op \in {"intent", "failover"} =>
               calls'[d].conn = calls[d].conn /\ calls'[d].ref = calls[d].ref
          /\ calls'[d].op \in {"capture", "void", "refund"} =>
               /\ calls'[d].conn = calls[d].conn /\ calls'[d].txn = calls[d].txn
               /\ calls'[d].amount = calls[d].amount /\ calls'[d].target = calls[d].target
      <3>1. CASE d = c
        <4>1. CASE call.op \in {"intent", "failover"}
          BY <1>5, <3>1, <4>1, CallShape DEF IntentCall
        <4>2. CASE call.op \in {"capture", "void", "refund"}
          BY <1>5, <3>1, <4>2, CallShape DEF TxnCall, HoldCall, RefundCall
        <4> QED
          BY <1>1, <4>1, <4>2, CallShape
      <3> QED
        BY <1>5, <3>1
    <2>2. d # c => calls'[d].verdict = calls[d].verdict
      BY <1>5
    <2>3. ASSUME calls[d].op \in {"intent", "failover"}
          PROVE  IntentIsGrounded(calls[d])'
      <3>1. <<calls[d].conn, calls[d].ref>> \in Conn \X Refs
        BY <2>3, CallShape DEF IntentCall
      <3>2. CASE d = c
        BY <2>1, <2>3, <3>2, LedgerGrows DEF IntentIsGrounded, IntentOf
      <3>3. CASE d # c
        BY <1>2, <2>1, <2>2, <2>3, <3>1, <3>3
           DEF Grounding, CallIsGrounded, IntentIsGrounded
      <3> QED
        BY <3>2, <3>3
    <2>4. ASSUME calls[d].op \in {"capture", "void", "refund"}
          PROVE  RequestIsGrounded(calls[d])'
      <3> DEFINE j == TxnIntent(calls[d].txn)
      <3>1. /\ RequestIsGrounded(calls[d]) /\ j \in Conn \X Refs
            /\ IntentOf(calls[d]) = j
        BY <2>4, RequestIsBacked, TxnAt DEF TxnIntent
      <3>2. /\ ledger[j].captured \in Nat /\ ledger'[j].captured \in Nat
            /\ Repaid(ledger[j]) \in Nat /\ Repaid(ledger'[j]) \in Nat
            /\ calls[d].amount \in Int
        BY <1>2, <2>4, <3>1, CallShape, PaymentAssumption
           DEF IntentState, Repaid, TxnCall, HoldCall, RefundCall, Amount
      <3>3. TxnIntent(calls[d].txn)' = j
        BY <1>1, <2>1, <2>4 DEF TxnIntent
      <3>4. /\ ledger'[j].captured >= ledger[j].captured
            /\ Repaid(ledger'[j]) >= Repaid(ledger[j])
            /\ ledger[j].voided => ledger'[j].voided
        BY <1>2, <3>1
      <3>5. d = c =>
              /\ calls[d].op = "capture" => ledger'[j].captured >= calls[d].amount
              /\ calls[d].op = "void" => ledger'[j].voided
              /\ calls[d].op = "refund" => Repaid(ledger'[j]) > 0
        BY <3>1, <3>2, LedgerGrows DEF Positive
      <3>6. /\ calls[d].op = "capture" =>
                 /\ calls[d].target = "captured"
                 /\ calls[d].verdict = "accepted" => calls[d].amount <= ledger[j].captured
            /\ calls[d].op = "void" =>
                 /\ calls[d].target = "voided"
                 /\ calls[d].verdict = "accepted" => ledger[j].voided
            /\ calls[d].op = "refund" =>
                 /\ calls[d].target \in {"refunded", "partially_refunded"}
                 /\ ledger[j].captured > 0
                 /\ calls[d].verdict = "accepted" => Repaid(ledger[j]) > 0
        BY <3>1 DEF RequestIsGrounded
      <3>7. calls'[d].conn = txns'[calls'[d].txn].conn /\ txns'[calls'[d].txn].hasProviderId
        BY <1>1, <2>1, <2>4, <3>1 DEF RequestIsGrounded
      <3> HIDE DEF j
      <3>8. /\ calls'[d].op = "capture" =>
                 calls'[d].target = "captured"
                 /\ (calls'[d].verdict = "accepted"
                       => calls'[d].amount <= ledger'[j].captured)
            /\ calls'[d].op = "void" =>
                 calls'[d].target = "voided"
                 /\ (calls'[d].verdict = "accepted" => ledger'[j].voided)
            /\ calls'[d].op = "refund" =>
                 /\ calls'[d].target \in {"refunded", "partially_refunded"}
                 /\ ledger'[j].captured > 0
                 /\ calls'[d].verdict = "accepted" => Repaid(ledger'[j]) > 0
        BY <2>1, <2>2, <2>4, <3>2, <3>4, <3>5, <3>6
      <3> QED
        BY <2>1, <2>4, <3>3, <3>7, <3>8 DEF RequestIsGrounded
    <2> QED
      BY <2>1, <2>3, <2>4 DEF CallIsGrounded
  <1>7. MoneyFollowsAuthorization'
    <2> SUFFICES ASSUME NEW j \in Conn \X Refs
                 PROVE  /\ ledger'[j].captured > 0 \/ ledger'[j].voided
                             => ledger'[j].authorized
                        /\ ledger'[j].refunded > 0 => ledger'[j].captured > 0
      BY DEF MoneyFollowsAuthorization, Intents
    <2>1. /\ ledger[j].captured > 0 \/ ledger[j].voided => ledger[j].authorized
          /\ ledger[j].refunded > 0 => ledger[j].captured > 0
      BY DEF Grounding, MoneyFollowsAuthorization, Intents
    <2>2. /\ ledger[j].captured \in Nat /\ ledger'[j].captured \in Nat
          /\ ledger[j].refunded \in Nat /\ ledger'[j].refunded \in Nat
      BY <1>2 DEF IntentState
    <2>3. CASE j # i
      BY <2>1, <2>3, LedgerGrows
    <2>4. CASE j = i /\ call.op \in {"intent", "failover"}
      BY <2>1, <2>4, LedgerGrows
    <2>5. CASE j = i /\ call.op \in {"capture", "void", "refund"}
      <3>1. /\ ledger[j].authorized
            /\ call.op = "refund" => ledger[j].captured > 0
        BY <2>5, RequestIsBacked DEF RequestIsGrounded
      <3>2. ledger'[j].authorized
        BY <1>2, <3>1
      <3>3. CASE call.op = "refund"
        BY <1>2, <2>2, <3>1, <3>2, <3>3
      <3>4. CASE call.op \in {"capture", "void"}
        BY <1>2, <2>1, <2>2, <2>5, <3>2, <3>4, LedgerGrows
      <3> QED
        BY <2>5, <3>3, <3>4
    <2> QED
      BY <1>1, <2>3, <2>4, <2>5, CallShape
  <1> QED
    BY <1>3, <1>6, <1>7 DEF Grounding

(* A refusal grounds nothing and takes nothing away. *)
LEMMA DeclineIsGrounded ==
  ASSUME TypeOK, Grounding, NEW c \in Calls, Decline(c)
  PROVE  Grounding'
  <1> DEFINE call == calls[c]
             new  == [call EXCEPT !.verdict = "declined"]
  <1>1. /\ calls' = [calls EXCEPT ![c] = new] /\ ~Idle(c)
        /\ UNCHANGED <<txns, audit, failoverLog, ledger, refundUses>>
    BY DEF Decline, TypeOK
  <1>2. /\ CallIsGrounded(new)
        /\ new \in IntentCall \cup TxnCall
    <2>1. CallIsGrounded(call)
      BY DEF Grounding
    <2>2. CASE call \in IntentCall
      BY <2>1, <2>2 DEF CallIsGrounded, IntentIsGrounded, IntentCall, Verdict
    <2>3. CASE call \in TxnCall
      BY <2>1, <2>3 DEF CallIsGrounded, RequestIsGrounded, TxnCall, HoldCall, RefundCall, Verdict, TxnIntent
    <2> QED
      BY <1>1, <2>2, <2>3, CallShape
  <1> HIDE DEF new
  <1> QED
    BY <1>1, <1>2, SendIsGrounded DEF Sends

(* What the second half of a call writes is what the provider did. *)
LEMMA ResumeIsGrounded ==
  ASSUME TypeOK, Grounding, NEW c \in Calls, Resume(c)
  PROVE  Grounding'
  <1>1. ASSUME NEW tenant \in TenantConfig, IntentFailsOver(c, tenant)
        PROVE  Grounding'
    <2>1. PICK f \in Conn :
            Sends(c, [calls[c] EXCEPT !.op = "failover", !.conn = f,
                                      !.verdict = "pending"])
      BY <1>1 DEF IntentFailsOver
    <2>2. calls[c] \in IntentCall
      BY <1>1, AnsweredCall DEF IntentFailsOver
    <2> DEFINE new == [calls[c] EXCEPT !.op = "failover", !.conn = f,
                                       !.verdict = "pending"]
    <2>3. [calls[c] EXCEPT !.op = "failover"] \in IntentCall
      BY <2>2 DEF IntentCall
    <2>4. [calls[c] EXCEPT !.op = "failover", !.conn = f] \in IntentCall
      BY <2>3 DEF IntentCall
    <2>5. new \in IntentCall /\ new.verdict = "pending"
      BY <2>4 DEF IntentCall, Verdict
    <2>6. CallIsGrounded(new)
      BY <2>5 DEF CallIsGrounded, IntentIsGrounded, IntentCall
    <2>7. Sends(c, new) /\ UNCHANGED <<txns, ledger>>
      BY <1>1, <2>1 DEF IntentFailsOver
    <2> HIDE DEF new
    <2> QED
      BY <2>5, <2>6, <2>7, SendIsGrounded
  <1>2. ASSUME NEW tenant \in TenantConfig, IntentFails(c, tenant)
        PROVE  Grounding'
    <2>1. calls[c] \in IntentCall
      BY <1>2, AnsweredCall DEF IntentFails
    <2>2. calls[c].primary \in Conn
      BY <2>1 DEF IntentCall
    <2> QED
      BY <1>2, <2>1, <2>2, RecordIsGrounded DEF IntentFails
  <1>3. CASE IntentAuthorized(c)
    <2>1. /\ calls[c] \in IntentCall /\ calls[c].verdict = "accepted"
          /\ calls[c].op \in {"intent", "failover"}
      BY <1>3, AnsweredCall DEF IntentAuthorized
    <2>2. calls[c].conn \in Conn
      BY <2>1 DEF IntentCall
    <2>3. ledger[<<calls[c].conn, calls[c].ref>>].authorized
      BY <2>1 DEF Grounding, CallIsGrounded, IntentIsGrounded
    <2> QED
      BY <1>3, <2>1, <2>2, <2>3, RecordIsGrounded DEF IntentAuthorized
  <1>4. CASE CaptureSettles(c)
    <2> DEFINE t      == calls[c].txn
               newTxn == [txns[t] EXCEPT !.status = calls[c].target,
                                          !.captured = calls[c].amount]
    <2>1. calls[c].op \in {"capture"}
      BY <1>4 DEF CaptureSettles, Answered
    <2>2. /\ t \in DOMAIN txns /\ txns[t] \in Txn /\ txns[t].hasProviderId
          /\ TxnIsGrounded(txns[t]) /\ RequestIsGrounded(calls[c])
      BY <2>1, RequestIsBacked DEF Grounding
    <2>3. /\ calls[c].target \in Status /\ calls[c].amount \in Int /\ 0 \in Nat
          /\ "failed" \in Status
      BY <1>4, AnsweredCall DEF CaptureSettles, Status
    <2>4. /\ newTxn \in Txn
          /\ newTxn.conn = txns[t].conn /\ newTxn.ref = txns[t].ref
          /\ newTxn.hasProviderId = txns[t].hasProviderId
          /\ newTxn.status = calls[c].target /\ newTxn.captured = calls[c].amount
      BY <2>2, <2>3, SettledTxn DEF Txn
    <2>5. TxnIsGrounded(newTxn)
      BY <1>4, <2>1, <2>2, <2>4
         DEF CaptureSettles, Answered, TxnIsGrounded, RequestIsGrounded, TxnIntent
    <2>6. /\ UpdateTxn(t, newTxn, 0) /\ Returns(c)
          /\ UNCHANGED ledger
      BY <1>4 DEF CaptureSettles
    <2> HIDE DEF newTxn, t
    <2> QED
      BY <2>2, <2>3, <2>4, <2>5, <2>6, UpdateIsGrounded
  <1>5. CASE VoidSettles(c)
    <2> DEFINE t      == calls[c].txn
               newTxn == [txns[t] EXCEPT !.status = calls[c].target]
    <2>1. calls[c].op \in {"void"}
      BY <1>5 DEF VoidSettles, Answered
    <2>2. /\ t \in DOMAIN txns /\ txns[t] \in Txn /\ txns[t].hasProviderId
          /\ TxnIsGrounded(txns[t]) /\ RequestIsGrounded(calls[c])
      BY <2>1, RequestIsBacked DEF Grounding
    <2>3. /\ calls[c].target \in Status /\ calls[c].amount \in Int /\ 0 \in Nat
          /\ "failed" \in Status
      BY <1>5, AnsweredCall DEF VoidSettles, Status
    <2>4. /\ newTxn \in Txn
          /\ newTxn.conn = txns[t].conn /\ newTxn.ref = txns[t].ref
          /\ newTxn.hasProviderId = txns[t].hasProviderId
          /\ newTxn.status = calls[c].target /\ newTxn.captured = txns[t].captured
      BY <2>2, <2>3, SettledTxn DEF Txn
    <2>5. TxnIsGrounded(newTxn)
      BY <1>5, <2>1, <2>2, <2>4
         DEF VoidSettles, Answered, TxnIsGrounded, RequestIsGrounded, TxnIntent
    <2>6. /\ UpdateTxn(t, newTxn, 0) /\ Returns(c)
          /\ UNCHANGED ledger
      BY <1>5 DEF VoidSettles
    <2> HIDE DEF newTxn, t
    <2> QED
      BY <2>2, <2>3, <2>4, <2>5, <2>6, UpdateIsGrounded
  <1>6. CASE CaptureOrVoidFails(c)
    <2> DEFINE t      == calls[c].txn
               newTxn == [txns[t] EXCEPT !.status = "failed"]
    <2>1. calls[c].op \in {"capture", "void"}
      BY <1>6 DEF CaptureOrVoidFails, Answered
    <2>2. /\ t \in DOMAIN txns /\ txns[t] \in Txn /\ txns[t].hasProviderId
          /\ TxnIsGrounded(txns[t]) /\ RequestIsGrounded(calls[c])
      BY <2>1, RequestIsBacked DEF Grounding
    <2>3. /\ calls[c].target \in Status /\ calls[c].amount \in Int /\ 0 \in Nat
          /\ "failed" \in Status
      BY <1>6, AnsweredCall DEF CaptureOrVoidFails, Status
    <2>4. /\ newTxn \in Txn
          /\ newTxn.conn = txns[t].conn /\ newTxn.ref = txns[t].ref
          /\ newTxn.hasProviderId = txns[t].hasProviderId
          /\ newTxn.status = "failed" /\ newTxn.captured = txns[t].captured
      BY <2>2, <2>3, SettledTxn DEF Txn
    <2>5. TxnIsGrounded(newTxn)
      BY <1>6, <2>1, <2>2, <2>4
         DEF CaptureOrVoidFails, Answered, TxnIsGrounded, RequestIsGrounded, TxnIntent
    <2>6. /\ UpdateTxn(t, newTxn, 0) /\ Returns(c)
          /\ UNCHANGED ledger
      BY <1>6 DEF CaptureOrVoidFails
    <2> HIDE DEF newTxn, t
    <2> QED
      BY <2>2, <2>3, <2>4, <2>5, <2>6, UpdateIsGrounded
  <1>7. CASE RefundSettles(c)
    <2> DEFINE t      == calls[c].txn
               newTxn == [txns[t] EXCEPT !.status = calls[c].target,
                                          !.refunded = @ + calls[c].amount]
    <2>1. calls[c].op \in {"refund"}
      BY <1>7 DEF RefundSettles, Answered
    <2>2. /\ t \in DOMAIN txns /\ txns[t] \in Txn /\ txns[t].hasProviderId
          /\ TxnIsGrounded(txns[t]) /\ RequestIsGrounded(calls[c])
      BY <2>1, RequestIsBacked DEF Grounding
    <2>3. /\ calls[c].target \in Status /\ 0 \in Nat
          /\ calls[c].amount \in Int /\ calls[c].amount \in Nat
          /\ "failed" \in Status
      BY <1>7, AnsweredCall DEF RefundSettles, Status
    <2>4. newTxn \in Txn
      BY <2>2, <2>3, SettledTxn
    <2>4a. txns[t].refunded \in Nat
      BY <2>2 DEF TxnIsGrounded
    <2>4c. /\ newTxn.conn = txns[t].conn /\ newTxn.ref = txns[t].ref
           /\ newTxn.hasProviderId = txns[t].hasProviderId
           /\ newTxn.status = calls[c].target /\ newTxn.captured = txns[t].captured
      BY <2>2 DEF Txn
    <2>4d. newTxn.refunded = txns[t].refunded + calls[c].amount
      BY <2>2 DEF Txn
    <2>4b. /\ newTxn.refunded \in Nat
           /\ newTxn.conn = txns[t].conn /\ newTxn.ref = txns[t].ref
           /\ newTxn.hasProviderId = txns[t].hasProviderId
           /\ newTxn.status = calls[c].target /\ newTxn.captured = txns[t].captured
      <3> HIDE DEF newTxn, t
      <3> QED
        BY <2>3, <2>4a, <2>4c, <2>4d
    <2>5. TxnIsGrounded(newTxn)
      BY <1>7, <2>1, <2>2, <2>4b
         DEF RefundSettles, Answered, TxnIsGrounded, RequestIsGrounded, TxnIntent
    <2>6. /\ UpdateTxn(t, newTxn, calls[c].amount) /\ Returns(c)
          /\ UNCHANGED ledger
      BY <1>7 DEF RefundSettles
    <2> HIDE DEF newTxn, t
    <2> QED
      BY <2>2, <2>3, <2>4, <2>4b, <2>5, <2>6, UpdateIsGrounded
  <1>8. CASE RefundFails(c)
    BY <1>8, SendIsGrounded, IdleIsGrounded DEF RefundFails, Returns
  <1> QED
    BY <1>1, <1>2, <1>3, <1>4, <1>5, <1>6, <1>7, <1>8 DEF Resume

(* Nothing follows a failure. *)
LEMMA FailedIsFinal == \A s : ~IsValidTransition("failed", s)
  <1>1. Transitions.failed = {}
    BY DEF Transitions
  <1>2. Transitions["failed"] = {}
    BY <1>1
  <1> QED
    BY <1>2 DEF IsValidTransition

(* A request is grounded when it is sent: it goes to the provider that holds
   the intent, and a failed transaction is not one it can be for.          *)
LEMMA StartIsGrounded ==
  ASSUME TypeOK, Grounding, NEW c \in Calls, Start(c)
  PROVE  Grounding'
  <1>1. ASSUME NEW r \in Refs, NEW a \in Amount, NEW tenant \in TenantConfig,
               CreatePaymentIntent(c, r, a, tenant)
        PROVE  Grounding'
    <2>1. PICK p \in Conn :
            Sends(c, [op |-> "intent", verdict |-> "pending", ref |-> r,
                      amount |-> a, conn |-> p, primary |-> p])
      BY <1>1 DEF CreatePaymentIntent
    <2> DEFINE new == [op |-> "intent", verdict |-> "pending", ref |-> r,
                       amount |-> a, conn |-> p, primary |-> p]
    <2>2. new \in IntentCall
      BY DEF IntentCall, Verdict
    <2>3. CallIsGrounded(new)
      BY DEF CallIsGrounded, IntentIsGrounded
    <2>4. Sends(c, new) /\ UNCHANGED <<txns, ledger>>
      BY <1>1, <2>1 DEF CreatePaymentIntent
    <2> HIDE DEF new
    <2> QED
      BY <2>2, <2>3, <2>4, SendIsGrounded
  <1>2. ASSUME NEW t \in DOMAIN txns, NEW a \in Int, CapturePayment(c, t, a)
        PROVE  Grounding'
    <2>1. txns[t].hasProviderId
      BY <1>2, FailedIsFinal DEF Grounding, TxnIsGrounded, CapturePayment
    <2>2. TxnRequest("capture", t, a, NoKey, "captured") \in TxnCall
      BY RequestType DEF Status
    <2>3. CallIsGrounded(TxnRequest("capture", t, a, NoKey, "captured"))
      BY <2>1 DEF CallIsGrounded, RequestIsGrounded, TxnRequest
    <2> QED
      BY <1>2, <2>2, <2>3, SendIsGrounded DEF CapturePayment
  <1>3. ASSUME NEW t \in DOMAIN txns, VoidPayment(c, t)
        PROVE  Grounding'
    <2>1. txns[t].hasProviderId
      BY <1>3, FailedIsFinal DEF Grounding, TxnIsGrounded, VoidPayment
    <2>2. txns[t].amount \in Int
      BY CaptureAmounts
    <2>3. TxnRequest("void", t, txns[t].amount, NoKey, "voided") \in TxnCall
      BY <2>2, RequestType DEF Status
    <2>4. CallIsGrounded(TxnRequest("void", t, txns[t].amount, NoKey, "voided"))
      BY <2>1 DEF CallIsGrounded, RequestIsGrounded, TxnRequest
    <2> QED
      BY <1>3, <2>3, <2>4, SendIsGrounded DEF VoidPayment
  <1>4. ASSUME NEW t \in DOMAIN txns, NEW a \in Amount, NEW k \in RefundKeys,
               ProcessRefund(c, t, a, k)
        PROVE  Grounding'
    <2> DEFINE new == TxnRequest("refund", t, a, k, RefundTarget(t, a))
               s   == ledger[TxnIntent(t)]
    <2>1. /\ txns[t] \in Txn /\ s \in IntentState
          /\ TxnIsGrounded(txns[t])
          /\ txns[t].refunded + a <= txns[t].captured
          /\ txns[t].status \in Refundable
      BY <1>4, TxnAt DEF ProcessRefund, Grounding, TxnIntent, TypeOK
    <2>2. txns[t].hasProviderId /\ txns[t].captured <= s.captured
      BY <2>1 DEF TxnIsGrounded, Refundable, TxnIntent
    <2>3. /\ txns[t].captured \in Int /\ txns[t].refunded \in Nat /\ s.captured \in Nat
          /\ a \in Nat /\ a > 0
      BY <2>1, PaymentAssumption DEF Txn, TxnIsGrounded, IntentState, Amount
    <2>4. s.captured > 0
      BY <2>1, <2>2, <2>3
    <2>5. RefundTarget(t, a) \in {"refunded", "partially_refunded"}
      BY DEF RefundTarget
    <2>6. new \in TxnCall
      BY <2>5, RequestType DEF Status
    <2>7. CallIsGrounded(new)
      BY <2>2, <2>4, <2>5 DEF CallIsGrounded, RequestIsGrounded, TxnRequest
    <2> QED
      BY <1>4, <2>6, <2>7, SendIsGrounded DEF ProcessRefund
  <1> QED
    BY <1>1, <1>2, <1>3, <1>4, CaptureAmounts DEF Start

(* Whatever the number of calls in flight, the records are grounded. *)
THEOREM AlwaysGrounded == Spec => []Grounding
  <1>1. Init => Grounding
    BY DEF Init, Grounding, CallIsGrounded, IdleCall, MoneyFollowsAuthorization, Intents
  <1>2. TypeOK /\ Grounding /\ [Next]_vars => Grounding'
    <2> SUFFICES ASSUME TypeOK, Grounding, [Next]_vars
                 PROVE  Grounding'
      OBVIOUS
    <2>1. CASE UNCHANGED vars
      BY <2>1 DEF vars, Grounding, TxnIsGrounded, CallIsGrounded, IntentIsGrounded,
                  RequestIsGrounded, TxnIntent, MoneyFollowsAuthorization
    <2>2. CASE Next
      BY <2>2, StartIsGrounded, AcceptIsGrounded, DeclineIsGrounded, ResumeIsGrounded
         DEF Next
    <2> QED
      BY <2>1, <2>2
  <1> QED
    BY <1>1, <1>2, TypeCorrect, PTL DEF Spec

-----------------------------------------------------------------------------
(* The safety properties.                                                  *)

(* Every capture, void and refund in flight goes to a provider that holds an
   authorized intent, for a transaction that has a provider id: the two uses
   of the provider id after an await never meet a missing one.             *)
THEOREM CallsAreBacked == Spec => []ProviderCallsAreBacked
  <1>1. TypeOK /\ Grounding => ProviderCallsAreBacked
    <2> SUFFICES ASSUME TypeOK, Grounding, NEW c \in Calls, calls[c] \in TxnCall
                 PROVE  /\ txns[calls[c].txn].hasProviderId
                        /\ ledger[IntentOf(calls[c])].authorized
      BY DEF ProviderCallsAreBacked, Serviced
    <2>1. calls[c].op \in {"capture", "void", "refund"}
      BY DEF TxnCall, HoldCall, RefundCall
    <2> QED
      BY <2>1, RequestIsBacked
  <1> QED
    BY <1>1, TypeCorrect, AlwaysGrounded, PTL

(* Money moves only where it was authorized, and back only where it was
   captured, for any number of overlapping calls.                          *)
THEOREM MoneyIsAuthorized == Spec => []MoneyFollowsAuthorization
  <1>1. Grounding => MoneyFollowsAuthorization
    BY DEF Grounding
  <1> QED
    BY <1>1, AlwaysGrounded, PTL

(* The status on record is never ahead of the provider. *)
THEOREM StatusesAreBacked == Spec => []StatusIsBacked
  <1>1. TypeOK /\ Grounding => StatusIsBacked
    <2> SUFFICES ASSUME TypeOK, Grounding, NEW t \in DOMAIN txns
                 PROVE  LET s == ledger[<<txns[t].conn, txns[t].ref>>] IN
                        /\ txns[t].status = "captured" => s.captured >= txns[t].captured
                        /\ txns[t].status = "voided" => s.voided
                        /\ txns[t].status \in {"refunded", "partially_refunded"}
                             => Repaid(s) > 0
      BY DEF StatusIsBacked
    <2>1. TxnIsGrounded(txns[t])
      BY DEF Grounding
    <2> QED
      BY <2>1 DEF TxnIsGrounded
  <1> QED
    BY <1>1, TypeCorrect, AlwaysGrounded, PTL

(* An update shows in the audit trail. *)
LEMMA UpdateIsAudited ==
  ASSUME TypeOK, AuditShowsStatus, NEW t \in DOMAIN txns, NEW newTxn \in Txn,
         NEW n \in Nat, UpdateTxn(t, newTxn, n)
  PROVE  AuditShowsStatus'
  BY UpdateType DEF AuditShowsStatus

(* So does the record of an intent. *)
LEMMA RecordIsAudited ==
  ASSUME TypeOK, AuditShowsStatus, NEW call \in IntentCall, NEW conn \in Conn,
         NEW hasId \in BOOLEAN, NEW s \in Status, RecordTxn(call, conn, hasId, s)
  PROVE  AuditShowsStatus'
  <1>1. NewTxn(call, conn, hasId, s).status = s
    BY DEF NewTxn
  <1> QED
    BY <1>1, RecordType DEF AuditShowsStatus

(* The second half of a call audits what it writes. *)
LEMMA ResumeIsAudited ==
  ASSUME TypeOK, AuditShowsStatus, NEW c \in Calls, Resume(c)
  PROVE  AuditShowsStatus'
  <1>0. "failed" \in Status /\ "authorized" \in Status /\ 0 \in Nat
    BY DEF Status
  <1>1. ASSUME NEW tenant \in TenantConfig, IntentFails(c, tenant)
        PROVE  AuditShowsStatus'
    <2>1. calls[c] \in IntentCall
      BY <1>1, AnsweredCall DEF IntentFails
    <2>2. calls[c].primary \in Conn
      BY <2>1 DEF IntentCall
    <2> QED
      BY <1>0, <1>1, <2>1, <2>2, RecordIsAudited DEF IntentFails
  <1>2. CASE IntentAuthorized(c)
    <2>1. calls[c] \in IntentCall
      BY <1>2, AnsweredCall DEF IntentAuthorized
    <2>2. calls[c].conn \in Conn
      BY <2>1 DEF IntentCall
    <2> QED
      BY <1>0, <1>2, <2>1, <2>2, RecordIsAudited DEF IntentAuthorized
  <1>3. CASE CaptureSettles(c)
    <2> DEFINE t      == calls[c].txn
               newTxn == [txns[t] EXCEPT !.status = calls[c].target,
                                          !.captured = calls[c].amount]
    <2>1. /\ t \in DOMAIN txns /\ txns[t] \in Txn
          /\ calls[c].target \in Status /\ calls[c].amount \in Int
      BY <1>3, AnsweredCall DEF CaptureSettles
    <2>2. newTxn \in Txn
      BY <1>0, <2>1, SettledTxn
    <2>3. UpdateTxn(t, newTxn, 0)
      BY <1>3 DEF CaptureSettles
    <2> HIDE DEF newTxn, t
    <2> QED
      BY <1>0, <2>1, <2>2, <2>3, UpdateIsAudited
  <1>4. CASE VoidSettles(c)
    <2> DEFINE t      == calls[c].txn
               newTxn == [txns[t] EXCEPT !.status = calls[c].target]
    <2>1. /\ t \in DOMAIN txns /\ txns[t] \in Txn
          /\ calls[c].target \in Status /\ calls[c].amount \in Int
      BY <1>4, AnsweredCall DEF VoidSettles
    <2>2. newTxn \in Txn
      BY <1>0, <2>1, SettledTxn
    <2>3. UpdateTxn(t, newTxn, 0)
      BY <1>4 DEF VoidSettles
    <2> HIDE DEF newTxn, t
    <2> QED
      BY <1>0, <2>1, <2>2, <2>3, UpdateIsAudited
  <1>5. CASE CaptureOrVoidFails(c)
    <2> DEFINE t      == calls[c].txn
               newTxn == [txns[t] EXCEPT !.status = "failed"]
    <2>1. /\ t \in DOMAIN txns /\ txns[t] \in Txn
          /\ calls[c].target \in Status /\ calls[c].amount \in Int
      BY <1>5, AnsweredCall DEF CaptureOrVoidFails
    <2>2. newTxn \in Txn
      BY <1>0, <2>1, SettledTxn
    <2>3. UpdateTxn(t, newTxn, 0)
      BY <1>5 DEF CaptureOrVoidFails
    <2> HIDE DEF newTxn, t
    <2> QED
      BY <1>0, <2>1, <2>2, <2>3, UpdateIsAudited
  <1>6. CASE RefundSettles(c)
    <2> DEFINE t      == calls[c].txn
               newTxn == [txns[t] EXCEPT !.status = calls[c].target,
                                          !.refunded = @ + calls[c].amount]
    <2>1. /\ t \in DOMAIN txns /\ txns[t] \in Txn
          /\ calls[c].target \in Status /\ calls[c].amount \in Int
          /\ calls[c].amount \in Nat
      BY <1>6, AnsweredCall DEF RefundSettles
    <2>2. newTxn \in Txn
      BY <1>0, <2>1, SettledTxn
    <2>3. UpdateTxn(t, newTxn, calls[c].amount)
      BY <1>6 DEF RefundSettles
    <2> HIDE DEF newTxn, t
    <2> QED
      BY <1>0, <2>1, <2>2, <2>3, UpdateIsAudited
  <1>7. (\E tenant \in TenantConfig : IntentFailsOver(c, tenant)) \/ RefundFails(c)
          => AuditShowsStatus'
    BY DEF IntentFailsOver, RefundFails, AuditShowsStatus
  <1> QED
    BY <1>1, <1>2, <1>3, <1>4, <1>5, <1>6, <1>7 DEF Resume

(* The latest audit event of every transaction shows its status, also when
   several calls on it overlap.                                            *)
THEOREM AuditIsCurrent == Spec => []AuditShowsStatus
  <1>1. Init => AuditShowsStatus
    BY DEF Init, AuditShowsStatus
  <1>2. TypeOK /\ AuditShowsStatus /\ [Next]_vars => AuditShowsStatus'
    <2> SUFFICES ASSUME TypeOK, AuditShowsStatus, [Next]_vars
                 PROVE  AuditShowsStatus'
      OBVIOUS
    <2>1. CASE UNCHANGED vars
      BY <2>1 DEF vars, AuditShowsStatus
    <2>2. ASSUME NEW c \in Calls, Start(c)
          PROVE  AuditShowsStatus'
      <3>1. ASSUME NEW t \in DOMAIN txns, NEW a \in Amount, NEW k \in RefundKeys,
                   ProcessRefund(c, t, a, k)
            PROVE  AuditShowsStatus'
        <4>1. /\ txns' = txns /\ DOMAIN audit = DOMAIN txns
              /\ audit \in Seq(AuditTotals)
          BY <3>1 DEF ProcessRefund, TypeOK
        <4>2. \A u \in DOMAIN txns : u # t => audit'[u] = audit[u]
          BY <3>1, <4>1 DEF ProcessRefund
        <4>3. audit'[t].last = txns[t].status
          BY <3>1, <4>1 DEF ProcessRefund, AuditTotals
        <4> QED
          BY <4>1, <4>2, <4>3 DEF AuditShowsStatus
      <3> QED
        BY <2>2, <3>1 DEF Start, CreatePaymentIntent, CapturePayment, VoidPayment,
                          AuditShowsStatus
    <2>3. ASSUME NEW c \in Calls, Accept(c) \/ Decline(c)
          PROVE  AuditShowsStatus'
      BY <2>3 DEF Accept, Decline, AuditShowsStatus
    <2> QED
      BY <2>1, <2>2, <2>3, ResumeIsAudited DEF Next
  <1> QED
    BY <1>1, <1>2, TypeCorrect, PTL DEF Spec

-----------------------------------------------------------------------------
(* Refunds.                                                                *)

(* The sets that refunds are summed over are finite, what is summed is a
   number.                                                                 *)
RefundsAreSummable ==
  /\ \A c \in InFlight("refund") :
       /\ c \in Calls /\ calls[c] \in TxnCall /\ calls[c].txn \in DOMAIN txns
       /\ RequestedAmount[c] = calls[c].amount /\ RequestedAmount[c] \in Nat
  /\ \A t \in DOMAIN txns :
       RefundedAmount[t] = txns[t].refunded /\ RefundedAmount[t] \in Int
  /\ \A i : IsFiniteSet(TxnsOf(i)) /\ TxnsOf(i) \subseteq DOMAIN txns
  /\ \A i : /\ IsFiniteSet(AcceptedRefunds(i))
            /\ AcceptedRefunds(i) \subseteq InFlight("refund")
  /\ \A t : /\ IsFiniteSet(RefundsSent(t))
            /\ RefundsSent(t) \subseteq InFlight("refund")

LEMMA RefundSets == TypeOK => RefundsAreSummable
  <1> SUFFICES ASSUME TypeOK
               PROVE  RefundsAreSummable
    OBVIOUS
  <1>1. \A c \in InFlight("refund") :
          /\ c \in Calls /\ calls[c] \in TxnCall /\ calls[c].txn \in DOMAIN txns
          /\ calls[c] \in RefundCall
    BY CallShape DEF InFlight
  <1>2. \A c \in InFlight("refund") :
          RequestedAmount[c] = calls[c].amount /\ RequestedAmount[c] \in Nat
    BY <1>1, PaymentAssumption DEF RequestedAmount, RefundCall, Amount
  <1>3. \A t \in DOMAIN txns :
          RefundedAmount[t] = txns[t].refunded /\ RefundedAmount[t] \in Int
    BY TxnAt DEF RefundedAmount, Txn
  <1>4. IsFiniteSet(DOMAIN txns)
    <2>1. DOMAIN txns = 1..Len(txns) /\ Len(txns) \in Nat
      BY DEF TypeOK
    <2> QED
      BY <2>1, FS_Interval
  <1>5. IsFiniteSet(InFlight("refund"))
    BY CallsAssumption, FS_Subset DEF InFlight
  <1>6. \A i : TxnsOf(i) \subseteq DOMAIN txns
    BY DEF TxnsOf
  <1>7. \A i : AcceptedRefunds(i) \subseteq InFlight("refund")
    BY DEF AcceptedRefunds
  <1>8. \A t : RefundsSent(t) \subseteq InFlight("refund")
    BY DEF RefundsSent
  <1> QED
    BY <1>1, <1>2, <1>3, <1>4, <1>5, <1>6, <1>7, <1>8, FS_Subset
       DEF RefundsAreSummable

(* A step of one call leaves the requests of the others as they were. *)
LEMMA OtherRequestsStand ==
  ASSUME TypeOK, TypeOK', NEW c \in Calls, \A d \in Calls \ {c} : calls'[d] = calls[d],
         DOMAIN txns \subseteq DOMAIN txns',
         \A t \in DOMAIN txns :
           txns'[t].conn = txns[t].conn /\ txns'[t].ref = txns[t].ref
  PROVE  /\ \A i : SumFunctionOnSet(RequestedAmount, AcceptedRefunds(i)) \in Int
                   /\ SumFunctionOnSet(RequestedAmount', AcceptedRefunds(i)')
                      = SumFunctionOnSet(RequestedAmount, AcceptedRefunds(i))
                        + (IF c \in AcceptedRefunds(i)' THEN calls'[c].amount ELSE 0)
                        - (IF c \in AcceptedRefunds(i) THEN calls[c].amount ELSE 0)
         /\ \A t : SumFunctionOnSet(RequestedAmount, RefundsSent(t)) \in Int
                   /\ SumFunctionOnSet(RequestedAmount', RefundsSent(t)')
                      = SumFunctionOnSet(RequestedAmount, RefundsSent(t))
                        + (IF c \in RefundsSent(t)' THEN calls'[c].amount ELSE 0)
                        - (IF c \in RefundsSent(t) THEN calls[c].amount ELSE 0)
  <1>1. RefundsAreSummable /\ RefundsAreSummable'
    BY RefundSets, PTL
  <1>2. /\ InFlight("refund") = {d \in Calls : calls[d].op = "refund"}
        /\ InFlight("refund")' = {d \in Calls : calls'[d].op = "refund"}
    BY DEF InFlight
  <1>3. \A d \in Calls \ {c} : d \in InFlight("refund") <=> d \in InFlight("refund")'
    BY <1>2
  <1>4. \A d \in InFlight("refund") \ {c} : RequestedAmount'[d] = RequestedAmount[d]
    BY <1>1, <1>2, <1>3 DEF RefundsAreSummable
  <1>5. ASSUME NEW d \in InFlight("refund") \ {c}
        PROVE  IntentOf(calls[d]) = IntentOf(calls[d])'
    <2>1. calls'[d] = calls[d] /\ calls[d].op = "refund" /\ calls[d].txn \in DOMAIN txns
      BY <1>1, <1>2 DEF RefundsAreSummable
    <2> QED
      BY <2>1 DEF IntentOf
  <1>6. ASSUME NEW i
        PROVE  AcceptedRefunds(i)' \ {c} = AcceptedRefunds(i) \ {c}
    <2>1. \A d \in InFlight("refund") \ {c} :
            d \in AcceptedRefunds(i)' <=> d \in AcceptedRefunds(i)
      BY <1>2, <1>3, <1>5 DEF AcceptedRefunds
    <2> QED
      BY <1>2, <1>3, <2>1 DEF AcceptedRefunds
  <1>7. ASSUME NEW t
        PROVE  RefundsSent(t)' \ {c} = RefundsSent(t) \ {c}
    BY <1>2, <1>3 DEF RefundsSent
  <1>8. ASSUME NEW i
        PROVE  /\ SumFunctionOnSet(RequestedAmount, AcceptedRefunds(i)) \in Int
               /\ SumFunctionOnSet(RequestedAmount', AcceptedRefunds(i)')
                    = SumFunctionOnSet(RequestedAmount, AcceptedRefunds(i))
                      + (IF c \in AcceptedRefunds(i)' THEN calls'[c].amount ELSE 0)
                      - (IF c \in AcceptedRefunds(i) THEN calls[c].amount ELSE 0)
    <2> DEFINE S == AcceptedRefunds(i)
               U == AcceptedRefunds(i)'
    <2>1. /\ IsFiniteSet(S) /\ IsFiniteSet(U) /\ S \ {c} = U \ {c}
          /\ S \subseteq InFlight("refund") /\ U \subseteq InFlight("refund")'
      BY <1>1, <1>6 DEF RefundsAreSummable
    <2>2. /\ \A d \in S : RequestedAmount[d] = calls[d].amount /\ RequestedAmount[d] \in Int
          /\ \A d \in U : RequestedAmount'[d] = calls'[d].amount /\ RequestedAmount'[d] \in Int
          /\ \A d \in S \ {c} : RequestedAmount'[d] = RequestedAmount[d]
      BY <1>1, <1>4, <2>1 DEF RefundsAreSummable
    <2> HIDE DEF S, U
    <2>3. /\ SumFunctionOnSet(RequestedAmount, S) \in Int
          /\ SumFunctionOnSet(RequestedAmount', U)
               = SumFunctionOnSet(RequestedAmount, S)
                 + (IF c \in U THEN RequestedAmount'[c] ELSE 0)
                 - (IF c \in S THEN RequestedAmount[c] ELSE 0)
      BY <2>1, <2>2, SumChange
    <2>4. /\ SumFunctionOnSet(RequestedAmount, S) \in Int
          /\ SumFunctionOnSet(RequestedAmount', U)
               = SumFunctionOnSet(RequestedAmount, S)
                 + (IF c \in U THEN calls'[c].amount ELSE 0)
                 - (IF c \in S THEN calls[c].amount ELSE 0)
      BY <2>2, <2>3
    <2> QED
      BY <2>4 DEF S, U
  <1>9. ASSUME NEW t
        PROVE  /\ SumFunctionOnSet(RequestedAmount, RefundsSent(t)) \in Int
               /\ SumFunctionOnSet(RequestedAmount', RefundsSent(t)')
                    = SumFunctionOnSet(RequestedAmount, RefundsSent(t))
                      + (IF c \in RefundsSent(t)' THEN calls'[c].amount ELSE 0)
                      - (IF c \in RefundsSent(t) THEN calls[c].amount ELSE 0)
    <2> DEFINE S == RefundsSent(t)
               U == RefundsSent(t)'
    <2>1. /\ IsFiniteSet(S) /\ IsFiniteSet(U) /\ S \ {c} = U \ {c}
          /\ S \subseteq InFlight("refund") /\ U \subseteq InFlight("refund")'
      BY <1>1, <1>7 DEF RefundsAreSummable
    <2>2. /\ \A d \in S : RequestedAmount[d] = calls[d].amount /\ RequestedAmount[d] \in Int
          /\ \A d \in U : RequestedAmount'[d] = calls'[d].amount /\ RequestedAmount'[d] \in Int
          /\ \A d \in S \ {c} : RequestedAmount'[d] = RequestedAmount[d]
      BY <1>1, <1>4, <2>1 DEF RefundsAreSummable
    <2> HIDE DEF S, U
    <2>3. /\ SumFunctionOnSet(RequestedAmount, S) \in Int
          /\ SumFunctionOnSet(RequestedAmount', U)
               = SumFunctionOnSet(RequestedAmount, S)
                 + (IF c \in U THEN RequestedAmount'[c] ELSE 0)
                 - (IF c \in S THEN RequestedAmount[c] ELSE 0)
      BY <2>1, <2>2, SumChange
    <2>4. /\ SumFunctionOnSet(RequestedAmount, S) \in Int
          /\ SumFunctionOnSet(RequestedAmount', U)
               = SumFunctionOnSet(RequestedAmount, S)
                 + (IF c \in U THEN calls'[c].amount ELSE 0)
                 - (IF c \in S THEN calls[c].amount ELSE 0)
      BY <2>2, <2>3
    <2> QED
      BY <2>4 DEF S, U
  <1> QED
    BY <1>8, <1>9

(* A step that writes one transaction leaves the refunds of the others. *)
LEMMA OtherRecordsStand ==
  ASSUME TypeOK, TypeOK', NEW u \in DOMAIN txns', DOMAIN txns \subseteq DOMAIN txns',
         DOMAIN txns' \subseteq DOMAIN txns \cup {u},
         \A t \in DOMAIN txns \ {u} : txns'[t] = txns[t]
  PROVE  \A i : /\ SumFunctionOnSet(RefundedAmount, TxnsOf(i)) \in Int
                /\ SumFunctionOnSet(RefundedAmount', TxnsOf(i)')
                     = SumFunctionOnSet(RefundedAmount, TxnsOf(i))
                       + (IF u \in TxnsOf(i)' THEN txns'[u].refunded ELSE 0)
                       - (IF u \in TxnsOf(i) THEN txns[u].refunded ELSE 0)
  <1>1. RefundsAreSummable /\ RefundsAreSummable'
    BY RefundSets, PTL
  <1> SUFFICES ASSUME NEW i
               PROVE  /\ SumFunctionOnSet(RefundedAmount, TxnsOf(i)) \in Int
                      /\ SumFunctionOnSet(RefundedAmount', TxnsOf(i)')
                           = SumFunctionOnSet(RefundedAmount, TxnsOf(i))
                             + (IF u \in TxnsOf(i)' THEN txns'[u].refunded ELSE 0)
                             - (IF u \in TxnsOf(i) THEN txns[u].refunded ELSE 0)
    OBVIOUS
  <1> DEFINE S == TxnsOf(i)
             U == TxnsOf(i)'
  <1>2. S \ {u} = U \ {u}
    BY DEF TxnsOf
  <1>3. /\ IsFiniteSet(S) /\ IsFiniteSet(U)
        /\ S \subseteq DOMAIN txns /\ U \subseteq DOMAIN txns'
    BY <1>1 DEF RefundsAreSummable
  <1>4. /\ \A t \in S : RefundedAmount[t] = txns[t].refunded /\ RefundedAmount[t] \in Int
        /\ \A t \in U : RefundedAmount'[t] = txns'[t].refunded /\ RefundedAmount'[t] \in Int
        /\ \A t \in S \ {u} : RefundedAmount'[t] = RefundedAmount[t]
    BY <1>1, <1>3 DEF RefundsAreSummable
  <1> HIDE DEF S, U
  <1>5. /\ SumFunctionOnSet(RefundedAmount, S) \in Int
        /\ SumFunctionOnSet(RefundedAmount', U)
             = SumFunctionOnSet(RefundedAmount, S)
               + (IF u \in U THEN RefundedAmount'[u] ELSE 0)
               - (IF u \in S THEN RefundedAmount[u] ELSE 0)
    BY <1>2, <1>3, <1>4, SumChange
  <1>6. /\ SumFunctionOnSet(RefundedAmount, S) \in Int
        /\ SumFunctionOnSet(RefundedAmount', U)
             = SumFunctionOnSet(RefundedAmount, S)
               + (IF u \in U THEN txns'[u].refunded ELSE 0)
               - (IF u \in S THEN txns[u].refunded ELSE 0)
    BY <1>4, <1>5
  <1> QED
    BY <1>6 DEF S, U

(* Both statements about refunds are kept together: what a step adds on one
   side it adds on the other.                                              *)
RefundsAccounted == RefundsReconcile /\ RefundsAreAudited

(* What the audit trail holds for a transaction. *)
AuditIsTyped ==
  \A t \in DOMAIN txns :
    audit[t] \in AuditTotals /\ audit[t].initiated \in Nat /\ audit[t].completed \in Nat

LEMMA AuditAt == TypeOK => AuditIsTyped
  <1> SUFFICES ASSUME TypeOK, NEW t \in DOMAIN txns
               PROVE  audit[t] \in AuditTotals
                      /\ audit[t].initiated \in Nat /\ audit[t].completed \in Nat
    BY DEF AuditIsTyped
  <1>1. audit \in Seq(AuditTotals) /\ t \in DOMAIN audit
    BY DEF TypeOK
  <1>2. audit[t] \in AuditTotals
    BY <1>1
  <1> QED
    BY <1>2 DEF AuditTotals

(* The amount of a refund that was sent for transaction t. *)
SentFor(call, t) == IF call.op = "refund" /\ call.txn = t THEN call.amount ELSE 0

(* A step of one call that writes nothing to the books: the provider's side
   grows by what became pending, the audit trail by what was sent.         *)
LEMMA CallAccounts ==
  ASSUME TypeOK, TypeOK', RefundsAccounted, UNCHANGED txns,
         NEW c \in Calls, \A d \in Calls \ {c} : calls'[d] = calls[d],
         \A i \in Intents :
           Repaid(ledger'[i]) = Repaid(ledger[i])
             + (IF c \in AcceptedRefunds(i)' THEN calls'[c].amount ELSE 0)
             - (IF c \in AcceptedRefunds(i) THEN calls[c].amount ELSE 0),
         \A t \in DOMAIN txns :
           /\ audit'[t].completed = audit[t].completed
           /\ audit'[t].initiated
                >= audit[t].initiated + SentFor(calls'[c], t) - SentFor(calls[c], t)
  PROVE  RefundsAccounted'
  <1>1. ASSUME NEW i \in Intents
        PROVE  Repaid(ledger'[i])
                 = SumFunctionOnSet(RefundedAmount', TxnsOf(i)')
                   + SumFunctionOnSet(RequestedAmount', AcceptedRefunds(i)')
    <2>1. TxnsOf(i)' = TxnsOf(i) /\ RefundedAmount' = RefundedAmount
      BY DEF TxnsOf, RefundedAmount
    <2>2. /\ SumFunctionOnSet(RequestedAmount, AcceptedRefunds(i)) \in Int
          /\ SumFunctionOnSet(RequestedAmount', AcceptedRefunds(i)')
               = SumFunctionOnSet(RequestedAmount, AcceptedRefunds(i))
                 + (IF c \in AcceptedRefunds(i)' THEN calls'[c].amount ELSE 0)
                 - (IF c \in AcceptedRefunds(i) THEN calls[c].amount ELSE 0)
      BY OtherRequestsStand
    <2>3. SumFunctionOnSet(RefundedAmount, TxnsOf(i)) \in Int
      BY RefundSets, SumInt DEF RefundsAreSummable
    <2>4. Repaid(ledger[i]) = SumFunctionOnSet(RefundedAmount, TxnsOf(i))
                               + SumFunctionOnSet(RequestedAmount, AcceptedRefunds(i))
      BY DEF RefundsAccounted, RefundsReconcile
    <2>5. /\ c \in AcceptedRefunds(i) => calls[c].amount \in Nat
          /\ c \in AcceptedRefunds(i)' => calls'[c].amount \in Nat
      <3>1. RefundsAreSummable /\ RefundsAreSummable'
        BY RefundSets, PTL
      <3> QED
        BY <3>1 DEF RefundsAreSummable
    <2> QED
      BY <2>1, <2>2, <2>3, <2>4, <2>5
  <1>2. ASSUME NEW t \in DOMAIN txns
        PROVE  /\ audit'[t].completed = txns[t].refunded
               /\ audit'[t].initiated >= audit'[t].completed
                    + SumFunctionOnSet(RequestedAmount', RefundsSent(t)')
    <2>1. /\ SumFunctionOnSet(RequestedAmount, RefundsSent(t)) \in Int
          /\ SumFunctionOnSet(RequestedAmount', RefundsSent(t)')
               = SumFunctionOnSet(RequestedAmount, RefundsSent(t))
                 + (IF c \in RefundsSent(t)' THEN calls'[c].amount ELSE 0)
                 - (IF c \in RefundsSent(t) THEN calls[c].amount ELSE 0)
      BY OtherRequestsStand
    <2>2. /\ SentFor(calls[c], t) = IF c \in RefundsSent(t) THEN calls[c].amount ELSE 0
          /\ SentFor(calls'[c], t) = IF c \in RefundsSent(t)' THEN calls'[c].amount ELSE 0
      BY DEF SentFor, RefundsSent, InFlight
    <2>3. /\ audit[t].completed = txns[t].refunded
          /\ audit[t].initiated >= audit[t].completed
               + SumFunctionOnSet(RequestedAmount, RefundsSent(t))
      BY DEF RefundsAccounted, RefundsAreAudited
    <2>4. SentFor(calls[c], t) \in Int /\ SentFor(calls'[c], t) \in Int
      <3>1. RefundsAreSummable /\ RefundsAreSummable'
        BY RefundSets, PTL
      <3>2. /\ c \in RefundsSent(t) => calls[c].amount \in Nat
            /\ c \in RefundsSent(t)' => calls'[c].amount \in Nat
        BY <3>1 DEF RefundsAreSummable
      <3> QED
        BY <2>2, <3>2
    <2>5. audit[t].initiated \in Int /\ audit'[t].initiated \in Int
          /\ audit[t].completed \in Int
      <3>1. AuditIsTyped /\ AuditIsTyped'
        BY AuditAt, PTL
      <3> QED
        BY <3>1 DEF AuditIsTyped
    <2> QED
      BY <2>1, <2>2, <2>3, <2>4, <2>5
  <1> QED
    BY <1>1, <1>2 DEF RefundsAccounted, RefundsReconcile, RefundsAreAudited

(* An intent that ends in a record: nothing is refunded on it yet. *)
LEMMA RecordAccounts ==
  ASSUME TypeOK, TypeOK', RefundsAccounted, NEW c \in Calls, calls[c] \in IntentCall,
         NEW conn \in Conn, NEW hasId \in BOOLEAN, NEW s \in Status,
         RecordTxn(calls[c], conn, hasId, s), Returns(c), UNCHANGED ledger
  PROVE  RefundsAccounted'
  <1> SUFFICES ASSUME NEW u, u = Len(txns) + 1
               PROVE  RefundsAccounted'
    OBVIOUS
  <1>1. /\ DOMAIN txns' = DOMAIN txns \cup {u}
        /\ \A t \in DOMAIN txns : txns'[t] = txns[t] /\ audit'[t] = audit[t]
        /\ txns'[u].refunded = 0
    <2>1. /\ DOMAIN txns' = DOMAIN txns \cup {u}
          /\ \A t \in DOMAIN txns : txns'[t] = txns[t] /\ audit'[t] = audit[t]
          /\ txns'[u] = NewTxn(calls[c], conn, hasId, s)
      BY RecordType
    <2> QED
      BY <2>1 DEF NewTxn
  <1>2. audit'[u].initiated = 0 /\ audit'[u].completed = 0
    <2> DEFINE totals == [initiated |-> 0, completed |-> 0, last |-> s]
    <2>1. audit' = Append(audit, totals) /\ audit \in Seq(AuditTotals)
          /\ Len(audit) = Len(txns) /\ totals \in AuditTotals
      BY DEF RecordTxn, TypeOK, AuditTotals
    <2>2. audit'[u] = totals
      BY <2>1, AppendToSeq
    <2> QED
      BY <2>2
  <1>3. u \notin DOMAIN txns
    BY DEF TypeOK
  <1>4. /\ \A d \in Calls \ {c} : calls'[d] = calls[d]
        /\ calls'[c] = IdleCall
    BY SendsType DEF Returns
  <1>5. /\ \A i : c \notin AcceptedRefunds(i) /\ c \notin AcceptedRefunds(i)'
        /\ \A t : c \notin RefundsSent(t) /\ c \notin RefundsSent(t)'
    BY <1>4 DEF AcceptedRefunds, RefundsSent, InFlight, IntentCall, IdleCall
  <1>6. /\ \A i : /\ SumFunctionOnSet(RequestedAmount, AcceptedRefunds(i)) \in Int
                  /\ SumFunctionOnSet(RequestedAmount', AcceptedRefunds(i)')
                       = SumFunctionOnSet(RequestedAmount, AcceptedRefunds(i))
        /\ \A t : /\ SumFunctionOnSet(RequestedAmount, RefundsSent(t)) \in Int
                  /\ SumFunctionOnSet(RequestedAmount', RefundsSent(t)')
                       = SumFunctionOnSet(RequestedAmount, RefundsSent(t))
    BY <1>1, <1>4, <1>5, OtherRequestsStand
  <1>7. \A i : SumFunctionOnSet(RefundedAmount', TxnsOf(i)')
                 = SumFunctionOnSet(RefundedAmount, TxnsOf(i))
    <2> SUFFICES ASSUME NEW i
                 PROVE  SumFunctionOnSet(RefundedAmount', TxnsOf(i)')
                          = SumFunctionOnSet(RefundedAmount, TxnsOf(i))
      OBVIOUS
    <2>1. /\ SumFunctionOnSet(RefundedAmount, TxnsOf(i)) \in Int
          /\ SumFunctionOnSet(RefundedAmount', TxnsOf(i)')
               = SumFunctionOnSet(RefundedAmount, TxnsOf(i))
                 + (IF u \in TxnsOf(i)' THEN txns'[u].refunded ELSE 0)
                 - (IF u \in TxnsOf(i) THEN txns[u].refunded ELSE 0)
      BY <1>1, OtherRecordsStand
    <2>2. u \notin TxnsOf(i)
      BY <1>3 DEF TxnsOf
    <2> QED
      BY <1>1, <2>1, <2>2
  <1>8. RefundsReconcile'
    BY <1>6, <1>7 DEF RefundsAccounted, RefundsReconcile
  <1>9. ASSUME NEW t \in DOMAIN txns
        PROVE  /\ audit'[t].completed = txns'[t].refunded
               /\ audit'[t].initiated >= audit'[t].completed
                    + SumFunctionOnSet(RequestedAmount', RefundsSent(t)')
    BY <1>1, <1>6 DEF RefundsAccounted, RefundsAreAudited
  <1>10. SumFunctionOnSet(RequestedAmount', RefundsSent(u)') = 0
    <2>1. RefundsSent(u)' = {}
      <3> SUFFICES ASSUME NEW d \in RefundsSent(u)'
                   PROVE  FALSE
        OBVIOUS
      <3>1. d \in Calls /\ calls'[d].op = "refund" /\ calls'[d].txn = u
        BY DEF RefundsSent, InFlight
      <3>2. calls[d] = calls'[d]
        BY <1>4, <3>1 DEF IdleCall
      <3>3. calls[d].txn \in DOMAIN txns
        BY <3>1, <3>2, CallShape
      <3> QED
        BY <1>3, <3>1, <3>2, <3>3
    <2> QED
      BY <2>1, SumRecursion, FS_EmptySet
  <1>11. RefundsAreAudited'
    BY <1>1, <1>2, <1>9, <1>10 DEF RefundsAreAudited
  <1> QED
    BY <1>8, <1>11 DEF RefundsAccounted

(* A capture, void or refund that ends: a refund goes from pending onto the
   books and into the audit trail, with the same amount in each.           *)
LEMMA UpdateAccounts ==
  ASSUME TypeOK, TypeOK', Grounding, RefundsAccounted, NEW c \in Calls, NEW t,
         t = calls[c].txn, calls[c].op \in {"capture", "void", "refund"},
         NEW newTxn \in Txn, NEW n \in Nat, UpdateTxn(t, newTxn, n), Returns(c),
         UNCHANGED ledger, newTxn.conn = txns[t].conn, newTxn.ref = txns[t].ref,
         newTxn.refunded = txns[t].refunded + n,
         calls[c].op = "refund" => calls[c].verdict = "accepted" /\ n = calls[c].amount,
         calls[c].op # "refund" => n = 0
  PROVE  RefundsAccounted'
  <1>1. /\ t \in DOMAIN txns /\ txns[t] \in Txn
        /\ IntentOf(calls[c]) = <<txns[t].conn, txns[t].ref>>
    BY RequestIsBacked DEF TxnIntent
  <1>2. /\ DOMAIN txns' = DOMAIN txns /\ txns'[t] = newTxn
        /\ \A u \in DOMAIN txns : u # t => txns'[u] = txns[u] /\ audit'[u] = audit[u]
    BY <1>1, UpdateType
  <1>3. /\ audit'[t].completed = audit[t].completed + n
        /\ audit'[t].initiated = audit[t].initiated
    <2>1. audit \in Seq(AuditTotals) /\ t \in DOMAIN audit /\ audit[t] \in AuditTotals
      BY <1>1 DEF TypeOK
    <2> QED
      BY <2>1 DEF UpdateTxn, AuditTotals
  <1>4. /\ \A d \in Calls \ {c} : calls'[d] = calls[d]
        /\ calls'[c] = IdleCall
    BY SendsType DEF Returns
  <1>5. /\ \A i : c \notin AcceptedRefunds(i)'
        /\ \A u : c \notin RefundsSent(u)'
    BY <1>4 DEF AcceptedRefunds, RefundsSent, InFlight, IdleCall
  <1>6. \A u \in DOMAIN txns :
          txns'[u].conn = txns[u].conn /\ txns'[u].ref = txns[u].ref
    BY <1>2
  <1>7. ASSUME NEW i \in Intents
        PROVE  Repaid(ledger'[i])
                 = SumFunctionOnSet(RefundedAmount', TxnsOf(i)')
                   + SumFunctionOnSet(RequestedAmount', AcceptedRefunds(i)')
    <2>1. /\ SumFunctionOnSet(RequestedAmount, AcceptedRefunds(i)) \in Int
          /\ SumFunctionOnSet(RequestedAmount', AcceptedRefunds(i)')
               = SumFunctionOnSet(RequestedAmount, AcceptedRefunds(i))
                 + (IF c \in AcceptedRefunds(i)' THEN calls'[c].amount ELSE 0)
                 - (IF c \in AcceptedRefunds(i) THEN calls[c].amount ELSE 0)
      BY <1>2, <1>4, <1>6, OtherRequestsStand
    <2>2. /\ SumFunctionOnSet(RefundedAmount, TxnsOf(i)) \in Int
          /\ SumFunctionOnSet(RefundedAmount', TxnsOf(i)')
               = SumFunctionOnSet(RefundedAmount, TxnsOf(i))
                 + (IF t \in TxnsOf(i)' THEN txns'[t].refunded ELSE 0)
                 - (IF t \in TxnsOf(i) THEN txns[t].refunded ELSE 0)
      BY <1>1, <1>2, OtherRecordsStand
    <2>3. /\ t \in TxnsOf(i) <=> <<txns[t].conn, txns[t].ref>> = i
          /\ t \in TxnsOf(i)' <=> <<txns[t].conn, txns[t].ref>> = i
      BY <1>1, <1>2, <1>6 DEF TxnsOf
    <2>4. c \in AcceptedRefunds(i) <=>
            calls[c].op = "refund" /\ <<txns[t].conn, txns[t].ref>> = i
      BY <1>1 DEF AcceptedRefunds, InFlight
    <2>5. Repaid(ledger'[i]) = SumFunctionOnSet(RefundedAmount, TxnsOf(i))
                                + SumFunctionOnSet(RequestedAmount, AcceptedRefunds(i))
      BY DEF RefundsAccounted, RefundsReconcile
    <2>6. txns[t].refunded \in Int /\ txns'[t].refunded = txns[t].refunded + n
      BY <1>1, <1>2 DEF Txn
    <2> QED
      BY <1>5, <2>1, <2>2, <2>3, <2>4, <2>5, <2>6
  <1>8. ASSUME NEW u \in DOMAIN txns
        PROVE  /\ audit'[u].completed = txns'[u].refunded
               /\ audit'[u].initiated >= audit'[u].completed
                    + SumFunctionOnSet(RequestedAmount', RefundsSent(u)')
    <2>1. /\ SumFunctionOnSet(RequestedAmount, RefundsSent(u)) \in Int
          /\ SumFunctionOnSet(RequestedAmount', RefundsSent(u)')
               = SumFunctionOnSet(RequestedAmount, RefundsSent(u))
                 + (IF c \in RefundsSent(u)' THEN calls'[c].amount ELSE 0)
                 - (IF c \in RefundsSent(u) THEN calls[c].amount ELSE 0)
      BY <1>2, <1>4, <1>6, OtherRequestsStand
    <2>2. c \in RefundsSent(u) <=> calls[c].op = "refund" /\ u = t
      BY DEF RefundsSent, InFlight
    <2>3. /\ audit[u].completed = txns[u].refunded
          /\ audit[u].initiated >= audit[u].completed
               + SumFunctionOnSet(RequestedAmount, RefundsSent(u))
      BY DEF RefundsAccounted, RefundsAreAudited
    <2>4. audit[u].initiated \in Nat /\ audit[u].completed \in Nat
      BY AuditAt DEF AuditIsTyped
    <2>5. CASE u = t
      BY <1>2, <1>3, <1>5, <2>1, <2>2, <2>3, <2>4, <2>5
    <2>6. CASE u # t
      BY <1>2, <1>5, <2>1, <2>2, <2>3, <2>4, <2>6
    <2> QED
      BY <2>5, <2>6
  <1> QED
    BY <1>2, <1>7, <1>8 DEF RefundsAccounted, RefundsReconcile, RefundsAreAudited

(* The provider's answer: an accepted refund is pending from now on. *)
LEMMA AcceptAccounts ==
  ASSUME TypeOK, TypeOK', RefundsAccounted, NEW c \in Calls, Accept(c)
  PROVE  RefundsAccounted'
  <1> DEFINE call == calls[c]
             new  == [call EXCEPT !.verdict = "accepted"]
             j    == IntentOf(call)
  <1>1. /\ ~Idle(c) /\ call.verdict = "pending" /\ calls' = [calls EXCEPT ![c] = new]
        /\ UNCHANGED <<txns, audit>>
    BY DEF Accept, TypeOK
  <1>2. call \in IntentCall \cup TxnCall
    BY <1>1, CallShape
  <1>3. /\ new.op = call.op /\ new.verdict = "accepted" /\ new.conn = call.conn
        /\ new.amount = call.amount
        /\ call \in TxnCall => new.txn = call.txn
        /\ call \in IntentCall => new.ref = call.ref
    BY <1>2 DEF IntentCall, TxnCall, HoldCall, RefundCall
  <1>4. calls'[c] = new /\ \A d \in Calls \ {c} : calls'[d] = calls[d]
    BY <1>1 DEF TypeOK
  <1> HIDE DEF new
  <1>5. call.op = "refund" => call \in TxnCall
    BY CallShape
  <1>6. call.op = "refund" => IntentOf(calls[c])' = j
    BY <1>1, <1>3, <1>4, <1>5 DEF IntentOf
  <1>7. ASSUME NEW i \in Intents
        PROVE  Repaid(ledger'[i]) = Repaid(ledger[i])
                 + (IF c \in AcceptedRefunds(i)' THEN calls'[c].amount ELSE 0)
                 - (IF c \in AcceptedRefunds(i) THEN calls[c].amount ELSE 0)
    <2>1. c \notin AcceptedRefunds(i)
      BY <1>1 DEF AcceptedRefunds
    <2>2. c \in AcceptedRefunds(i)' <=> call.op = "refund" /\ j = i
      BY <1>3, <1>4, <1>6 DEF AcceptedRefunds, InFlight
    <2>3. Repaid(ledger[i]) \in Nat
      BY DEF TypeOK, IntentState, Intents, Repaid
    <2>4. Repaid(ledger'[i])
            = Repaid(ledger[i]) + (IF call.op = "refund" /\ j = i THEN call.amount ELSE 0)
      <3>1. CASE j # i
        BY <2>3, <3>1, LedgerGrows DEF Intents
      <3>2. CASE j = i /\ call.op = "refund"
        BY <2>3, <3>2, LedgerGrows
      <3>3. CASE j = i /\ call.op # "refund"
        <4>1. Repaid(ledger'[i]) = Repaid(ledger[i])
          BY <1>1, <3>3, CallShape, LedgerGrows
        <4> QED
          BY <2>3, <3>3, <4>1
      <3> QED
        BY <3>1, <3>2, <3>3
    <2>5. call.op = "refund" => call.amount \in Nat
      BY <1>5, PaymentAssumption DEF TxnCall, HoldCall, RefundCall, Amount
    <2> QED
      BY <1>3, <1>4, <2>1, <2>2, <2>3, <2>4, <2>5
  <1>8. ASSUME NEW t \in DOMAIN txns
        PROVE  /\ audit'[t].completed = audit[t].completed
               /\ audit'[t].initiated
                    >= audit[t].initiated + SentFor(calls'[c], t) - SentFor(calls[c], t)
    <2>1. SentFor(calls'[c], t) = SentFor(calls[c], t)
      BY <1>3, <1>4, <1>5 DEF SentFor
    <2>2. SentFor(calls[c], t) \in Int
      BY <1>5, PaymentAssumption DEF SentFor, TxnCall, HoldCall, RefundCall, Amount
    <2>3. audit[t].initiated \in Int /\ audit' = audit
      BY <1>1, AuditAt DEF AuditIsTyped
    <2> QED
      BY <2>1, <2>2, <2>3
  <1> QED
    BY <1>1, <1>4, <1>7, <1>8, CallAccounts

(* A call that is sent, sent on, declined or returns: it is no accepted refund
   before or after, and if it becomes a refund it was announced.           *)
LEMMA SendAccounts ==
  ASSUME TypeOK, TypeOK', RefundsAccounted, NEW c \in Calls,
         NEW call, Sends(c, call), UNCHANGED <<txns, ledger>>,
         ~(calls[c].op = "refund" /\ calls[c].verdict = "accepted"),
         ~(call.op = "refund" /\ call.verdict = "accepted"),
         \A t \in DOMAIN txns :
           /\ audit'[t].completed = audit[t].completed
           /\ audit'[t].initiated
                >= audit[t].initiated + SentFor(call, t) - SentFor(calls[c], t)
  PROVE  RefundsAccounted'
  <1>1. calls'[c] = call /\ \A d \in Calls \ {c} : calls'[d] = calls[d]
    BY DEF TypeOK, Sends
  <1>2. \A i : c \notin AcceptedRefunds(i) /\ c \notin AcceptedRefunds(i)'
    BY <1>1 DEF AcceptedRefunds, InFlight
  <1>3. \A i \in Intents : Repaid(ledger[i]) \in Nat
    BY DEF TypeOK, IntentState, Intents, Repaid
  <1>4. \A i \in Intents :
          Repaid(ledger'[i]) = Repaid(ledger[i])
            + (IF c \in AcceptedRefunds(i)' THEN calls'[c].amount ELSE 0)
            - (IF c \in AcceptedRefunds(i) THEN calls[c].amount ELSE 0)
    BY <1>2, <1>3
  <1> QED
    BY <1>1, <1>4, CallAccounts

(* With the audit trail as it was, the call only must not become a refund that
   it was not before.                                                      *)
LEMMA QuietSendAccounts ==
  ASSUME TypeOK, TypeOK', RefundsAccounted, NEW c \in Calls,
         NEW call, Sends(c, call), UNCHANGED <<txns, ledger, audit>>,
         ~(calls[c].op = "refund" /\ calls[c].verdict = "accepted"),
         call.op = "refund" => /\ call.verdict # "accepted" /\ calls[c].op = "refund"
                               /\ call.txn = calls[c].txn /\ call.amount = calls[c].amount
  PROVE  RefundsAccounted'
  <1>1. ASSUME NEW t \in DOMAIN txns
        PROVE  /\ audit'[t].completed = audit[t].completed
               /\ audit'[t].initiated
                    >= audit[t].initiated + SentFor(call, t) - SentFor(calls[c], t)
    <2>1. SentFor(calls[c], t) \in Nat
      BY CallShape, PaymentAssumption DEF SentFor, RefundCall, Amount
    <2>2. SentFor(call, t) = 0 \/ SentFor(call, t) = SentFor(calls[c], t)
      BY DEF SentFor
    <2>3. audit[t].initiated \in Nat
      BY AuditAt DEF AuditIsTyped
    <2> QED
      BY <2>1, <2>2, <2>3
  <1> QED
    BY <1>1, SendAccounts

(* The second half of a call. *)
LEMMA ResumeAccounts ==
  ASSUME TypeOK, TypeOK', Grounding, RefundsAccounted, NEW c \in Calls, Resume(c)
  PROVE  RefundsAccounted'
  <1>0. "failed" \in Status /\ "authorized" \in Status /\ 0 \in Nat
    BY DEF Status
  <1>1. ASSUME NEW tenant \in TenantConfig, IntentFailsOver(c, tenant)
        PROVE  RefundsAccounted'
    <2>1. PICK f \in Conn :
            Sends(c, [calls[c] EXCEPT !.op = "failover", !.conn = f, !.verdict = "pending"])
      BY <1>1 DEF IntentFailsOver
    <2> DEFINE call == [calls[c] EXCEPT !.op = "failover", !.conn = f, !.verdict = "pending"]
    <2>2. calls[c] \in IntentCall /\ calls[c].op = "intent"
      BY <1>1, AnsweredCall DEF IntentFailsOver
    <2>3. call.op = "failover"
      BY <2>2 DEF IntentCall
    <2>4. Sends(c, call) /\ UNCHANGED <<txns, ledger, audit>>
      BY <1>1, <2>1 DEF IntentFailsOver
    <2> HIDE DEF call
    <2> QED
      BY <2>2, <2>3, <2>4, QuietSendAccounts
  <1>2. ASSUME NEW tenant \in TenantConfig, IntentFails(c, tenant)
        PROVE  RefundsAccounted'
    <2>1. calls[c] \in IntentCall
      BY <1>2, AnsweredCall DEF IntentFails
    <2>2. calls[c].primary \in Conn
      BY <2>1 DEF IntentCall
    <2> QED
      BY <1>0, <1>2, <2>1, <2>2, RecordAccounts DEF IntentFails
  <1>3. CASE IntentAuthorized(c)
    <2>1. calls[c] \in IntentCall
      BY <1>3, AnsweredCall DEF IntentAuthorized
    <2>2. calls[c].conn \in Conn
      BY <2>1 DEF IntentCall
    <2> QED
      BY <1>0, <1>3, <2>1, <2>2, RecordAccounts DEF IntentAuthorized
  <1>4. ASSUME CaptureSettles(c) \/ VoidSettles(c) \/ CaptureOrVoidFails(c)
        PROVE  RefundsAccounted'
    <2> SUFFICES ASSUME NEW t, t = calls[c].txn
                 PROVE  RefundsAccounted'
      OBVIOUS
    <2>1. /\ calls[c].op \in {"capture", "void"}
          /\ Returns(c) /\ UNCHANGED ledger
      BY <1>4, AnsweredCall DEF CaptureSettles, VoidSettles, CaptureOrVoidFails
    <2>2. /\ t \in DOMAIN txns /\ txns[t] \in Txn
          /\ calls[c].target \in Status /\ calls[c].amount \in Int
      BY <1>4, AnsweredCall DEF CaptureSettles, VoidSettles, CaptureOrVoidFails
    <2>3. ASSUME NEW newTxn \in Txn, newTxn.conn = txns[t].conn,
                 newTxn.ref = txns[t].ref, newTxn.refunded = txns[t].refunded,
                 UpdateTxn(t, newTxn, 0)
          PROVE  RefundsAccounted'
      <3>1. txns[t].refunded \in Int
        BY <2>2 DEF Txn
      <3> QED
        BY <1>0, <2>1, <2>3, <3>1, UpdateAccounts
    <2>4. CASE CaptureSettles(c)
      <3> DEFINE newTxn == [txns[t] EXCEPT !.status = calls[c].target,
                                            !.captured = calls[c].amount]
      <3>1. newTxn \in Txn
        BY <2>2, SettledTxn
      <3>2. /\ newTxn.conn = txns[t].conn /\ newTxn.ref = txns[t].ref
            /\ newTxn.refunded = txns[t].refunded
        BY <2>2 DEF Txn
      <3>3. UpdateTxn(t, newTxn, 0)
        BY <2>4 DEF CaptureSettles
      <3> HIDE DEF newTxn
      <3> QED
        BY <2>3, <3>1, <3>2, <3>3
    <2>5. CASE VoidSettles(c)
      <3> DEFINE newTxn == [txns[t] EXCEPT !.status = calls[c].target]
      <3>1. newTxn \in Txn
        BY <2>2, SettledTxn
      <3>2. /\ newTxn.conn = txns[t].conn /\ newTxn.ref = txns[t].ref
            /\ newTxn.refunded = txns[t].refunded
        BY <2>2 DEF Txn
      <3>3. UpdateTxn(t, newTxn, 0)
        BY <2>5 DEF VoidSettles
      <3> HIDE DEF newTxn
      <3> QED
        BY <2>3, <3>1, <3>2, <3>3
    <2>6. CASE CaptureOrVoidFails(c)
      <3> DEFINE newTxn == [txns[t] EXCEPT !.status = "failed"]
      <3>1. newTxn \in Txn
        BY <1>0, <2>2, SettledTxn
      <3>2. /\ newTxn.conn = txns[t].conn /\ newTxn.ref = txns[t].ref
            /\ newTxn.refunded = txns[t].refunded
        BY <2>2 DEF Txn
      <3>3. UpdateTxn(t, newTxn, 0)
        BY <2>6 DEF CaptureOrVoidFails
      <3> HIDE DEF newTxn
      <3> QED
        BY <2>3, <3>1, <3>2, <3>3
    <2> QED
      BY <1>4, <2>4, <2>5, <2>6
  <1>5. CASE RefundSettles(c)
    <2> SUFFICES ASSUME NEW t, t = calls[c].txn
                 PROVE  RefundsAccounted'
      OBVIOUS
    <2> DEFINE n      == calls[c].amount
               newTxn == [txns[t] EXCEPT !.status = calls[c].target, !.refunded = @ + n]
    <2>1. /\ calls[c].op = "refund" /\ calls[c].verdict = "accepted"
          /\ Returns(c) /\ UNCHANGED ledger /\ UpdateTxn(t, newTxn, n)
      BY <1>5, AnsweredCall DEF RefundSettles
    <2>2. /\ t \in DOMAIN txns /\ txns[t] \in Txn /\ calls[c].target \in Status
          /\ n \in Int /\ n \in Nat
      BY <1>5, AnsweredCall DEF RefundSettles
    <2>3. newTxn \in Txn
      BY <2>2, SettledTxn
    <2>4. /\ newTxn.conn = txns[t].conn /\ newTxn.ref = txns[t].ref
          /\ newTxn.refunded = txns[t].refunded + n
      BY <2>2 DEF Txn
    <2> HIDE DEF newTxn
    <2> QED
      BY <2>1, <2>2, <2>3, <2>4, UpdateAccounts
  <1>6. CASE RefundFails(c)
    <2>1. /\ calls[c].verdict = "declined" /\ Sends(c, IdleCall)
          /\ UNCHANGED <<txns, ledger, audit>>
      BY <1>6 DEF RefundFails, Answered, Returns
    <2>2. IdleCall.op = "none"
      BY DEF IdleCall
    <2> QED
      BY <2>1, <2>2, QuietSendAccounts
  <1> QED
    BY <1>1, <1>2, <1>3, <1>4, <1>5, <1>6 DEF Resume

(* The first half: a refund is announced in the audit trail as it is sent. *)
LEMMA StartAccounts ==
  ASSUME TypeOK, TypeOK', RefundsAccounted, NEW c \in Calls, Start(c)
  PROVE  RefundsAccounted'
  <1>1. ASSUME NEW call, Idle(c), Sends(c, call), UNCHANGED <<txns, ledger, audit>>,
               call.op # "refund"
        PROVE  RefundsAccounted'
    <2>1. calls[c].op = "none"
      BY <1>1, CallShape
    <2> QED
      BY <1>1, <2>1, QuietSendAccounts
  <1>2. ASSUME NEW r \in Refs, NEW a \in Amount, NEW tenant \in TenantConfig,
               CreatePaymentIntent(c, r, a, tenant)
        PROVE  RefundsAccounted'
    <2>1. PICK p \in Conn :
            Sends(c, [op |-> "intent", verdict |-> "pending", ref |-> r,
                      amount |-> a, conn |-> p, primary |-> p])
      BY <1>2 DEF CreatePaymentIntent
    <2> QED
      BY <1>1, <1>2, <2>1 DEF CreatePaymentIntent
  <1>3. ASSUME NEW t \in DOMAIN txns, NEW a \in Int, CapturePayment(c, t, a)
        PROVE  RefundsAccounted'
    <2>1. TxnRequest("capture", t, a, NoKey, "captured").op = "capture"
      BY DEF TxnRequest
    <2> QED
      BY <1>1, <1>3, <2>1 DEF CapturePayment
  <1>4. ASSUME NEW t \in DOMAIN txns, VoidPayment(c, t)
        PROVE  RefundsAccounted'
    <2>1. TxnRequest("void", t, txns[t].amount, NoKey, "voided").op = "void"
      BY DEF TxnRequest
    <2> QED
      BY <1>1, <1>4, <2>1 DEF VoidPayment
  <1>5. ASSUME NEW t \in DOMAIN txns, NEW a \in Amount, NEW k \in RefundKeys,
               ProcessRefund(c, t, a, k)
        PROVE  RefundsAccounted'
    <2> DEFINE call == TxnRequest("refund", t, a, k, RefundTarget(t, a))
    <2>1. /\ call.op = "refund" /\ call.verdict = "pending"
          /\ call.txn = t /\ call.amount = a
      BY DEF TxnRequest
    <2>2. Sends(c, call) /\ UNCHANGED <<txns, ledger>> /\ calls[c].op = "none"
      BY <1>5, CallShape DEF ProcessRefund
    <2> HIDE DEF call
    <2>3. a \in Nat
      BY PaymentAssumption DEF Amount
    <2>4. ASSUME NEW u \in DOMAIN txns
          PROVE  /\ audit'[u].completed = audit[u].completed
                 /\ audit'[u].initiated = audit[u].initiated + SentFor(call, u)
      <3>1. /\ audit \in Seq(AuditTotals) /\ DOMAIN audit = DOMAIN txns
            /\ audit[u] \in AuditTotals /\ audit[t] \in AuditTotals
        BY DEF TypeOK
      <3>2. SentFor(call, u) = IF u = t THEN a ELSE 0
        BY <2>1 DEF SentFor
      <3>3. CASE u = t
        BY <1>5, <3>1, <3>2, <3>3 DEF ProcessRefund, AuditTotals
      <3>4. CASE u # t
        <4>1. audit'[u] = audit[u]
          BY <1>5, <3>1, <3>4 DEF ProcessRefund
        <4>2. audit[u].initiated \in Nat
          BY <3>1 DEF AuditTotals
        <4> QED
          BY <3>2, <3>4, <4>1, <4>2
      <3> QED
        BY <3>3, <3>4
    <2>5. ASSUME NEW u \in DOMAIN txns
          PROVE  /\ audit'[u].completed = audit[u].completed
                 /\ audit'[u].initiated
                      >= audit[u].initiated + SentFor(call, u) - SentFor(calls[c], u)
      <3>1. SentFor(calls[c], u) = 0
        BY <2>2 DEF SentFor
      <3>2. SentFor(call, u) \in Nat /\ audit[u].initiated \in Nat
        BY <2>1, <2>3, AuditAt DEF SentFor, AuditIsTyped
      <3> QED
        BY <2>4, <3>1, <3>2
    <2> QED
      BY <2>1, <2>2, <2>5, SendAccounts
  <1> QED
    BY <1>2, <1>3, <1>4, <1>5, CaptureAmounts DEF Start

(* Refunds are accounted for in every reachable state. *)
LEMMA AlwaysAccounted == Spec => []RefundsAccounted
  <1>1. Init => RefundsAccounted
    <2> SUFFICES ASSUME Init
                 PROVE  RefundsAccounted
      OBVIOUS
    <2>1. ASSUME NEW i \in Intents
          PROVE  Repaid(ledger[i]) = SumFunctionOnSet(RefundedAmount, TxnsOf(i))
                   + SumFunctionOnSet(RequestedAmount, AcceptedRefunds(i))
      <3>1. TxnsOf(i) = {}
        BY DEF Init, TxnsOf
      <3>2. AcceptedRefunds(i) = {}
        BY DEF Init, AcceptedRefunds, InFlight, IdleCall
      <3>3. /\ SumFunctionOnSet(RefundedAmount, {}) = 0
            /\ SumFunctionOnSet(RequestedAmount, {}) = 0
        BY SumRecursion, FS_EmptySet
      <3>4. Repaid(ledger[i]) = 0
        BY DEF Init, Intents, Repaid
      <3> QED
        BY <3>1, <3>2, <3>3, <3>4
    <2>2. DOMAIN txns = {}
      BY DEF Init
    <2> QED
      BY <2>1, <2>2 DEF RefundsAccounted, RefundsReconcile, RefundsAreAudited
  <1>2. TypeOK /\ TypeOK' /\ Grounding /\ RefundsAccounted /\ [Next]_vars
          => RefundsAccounted'
    <2> SUFFICES ASSUME TypeOK, TypeOK', Grounding, RefundsAccounted, [Next]_vars
                 PROVE  RefundsAccounted'
      OBVIOUS
    <2>1. CASE UNCHANGED vars
      BY <2>1 DEF vars, RefundsAccounted, RefundsReconcile, RefundsAreAudited, TxnsOf,
                  AcceptedRefunds, RefundsSent, RefundedAmount, RequestedAmount, InFlight,
                  IntentOf
    <2>2. ASSUME NEW c \in Calls, Decline(c)
          PROVE  RefundsAccounted'
      <3> DEFINE call == [calls[c] EXCEPT !.verdict = "declined"]
      <3>1. /\ Sends(c, call) /\ UNCHANGED <<txns, ledger, audit>>
            /\ calls[c].verdict = "pending" /\ ~Idle(c)
        BY <2>2 DEF Decline, Sends, TypeOK
      <3>2. calls[c].op = "refund" => calls[c] \in TxnCall
        BY CallShape
      <3>3. calls[c] \in IntentCall \cup TxnCall
        BY <3>1, CallShape
      <3>4. /\ call.op = calls[c].op /\ call.verdict = "declined"
            /\ call.amount = calls[c].amount
            /\ calls[c] \in TxnCall => call.txn = calls[c].txn
        BY <3>3 DEF IntentCall, TxnCall, HoldCall, RefundCall
      <3> HIDE DEF call
      <3> QED
        BY <3>1, <3>2, <3>4, QuietSendAccounts
    <2> QED
      BY <2>1, <2>2, StartAccounts, AcceptAccounts, ResumeAccounts DEF Next
  <1> QED
    BY <1>1, <1>2, TypeCorrect, AlwaysGrounded, PTL DEF Spec

(* Overlapping refunds lose no money, for any number of calls in flight and
   any choice of keys: the refunds on record and those whose answer is still
   to be applied are what a provider paid out, and in excess of it the amounts
   it answered under a key it had executed before, neither more nor less.  *)
THEOREM RefundsAlwaysReconcile == Spec => []RefundsReconcile
  BY AlwaysAccounted, PTL DEF RefundsAccounted

(* The audit trail accounts for every refund, answered or not, whatever
   overlaps.                                                               *)
THEOREM RefundsAlwaysAudited == Spec => []RefundsAreAudited
  BY AlwaysAccounted, PTL DEF RefundsAccounted

=============================================================================
