------------------------- MODULE PaymentWebhooks ---------------------------
(***************************************************************************)
(* WebhookIngressService, WebhookEventRepository and                       *)
(* WebhookEventProcessorService on top of PaymentTransactionService.       *)
(*                                                                         *)
(* Providers announce what happened to an intent, in any order, repeatedly *)
(* or never.  The ingress stores the first delivery of an event id and     *)
(* processes it in the same turn of the event loop; a stored event can be  *)
(* replayed at any time.  Webhooks share the transaction records with the  *)
(* service calls that are waiting for a provider.                          *)
(***************************************************************************)
EXTENDS PaymentTransactions

CONSTANTS
  EventIds,   \* provider event ids
  MaxDirect,  \* bound: actions taken at a provider, not through the platform
  Overlap     \* may a webhook arrive while a service call is in flight?

ASSUME WebhookAssumption == MaxDirect \in Nat /\ Overlap \in BOOLEAN

VARIABLES
  emitted,    \* the events the providers have announced
  inbox,      \* the status of each event the platform has stored
  direct      \* how many actions were taken directly at the providers

hookVars == <<emitted, inbox, direct>>
allVars  == <<vars, hookVars>>

Kinds       == {"captured", "failed", "refunded", "voided", "unrecognized"}
NoAmount    == 0
Event       == [kind: Kinds, intent: Conn \X Refs, amount: Nat]
NotEmitted  == [kind |-> "none"]
EventStatus == {"pending", "processing", "processed", "failed", "skipped"}
NotStored   == "not stored"

HookTypeOK ==
  /\ TypeOK
  /\ emitted \in [EventIds -> Event \cup {NotEmitted}]
  /\ inbox \in [EventIds -> EventStatus \cup {NotStored}]
  /\ direct \in Nat

HookInit ==
  /\ Init
  /\ emitted = [e \in EventIds |-> NotEmitted]
  /\ inbox = [e \in EventIds |-> NotStored]
  /\ direct = 0

Stored(e) == inbox[e] # NotStored

-----------------------------------------------------------------------------
(* The provider.                                                           *)

(* An event reports what the ledger shows.  A failure needs no cause the
   platform knows of; the amount is the one captured, or absent (Square).
   A refund event tells the amount of the charge, not that of the refund;
   with voids and failures the amount is not used.                         *)
Reportable(i, kind) ==
  /\ ledger[i].authorized
  /\ CASE kind = "captured" -> ledger[i].captured > 0
       [] kind = "refunded" -> ledger[i].refunded > 0
       [] kind = "voided"   -> ledger[i].voided
       [] OTHER             -> TRUE

Emit(e, i, kind, a) ==
  /\ emitted[e] = NotEmitted
  /\ Reportable(i, kind)
  /\ a \in IF kind \in {"captured", "refunded"} THEN {NoAmount, ledger[i].captured}
                                               ELSE {NoAmount}
  /\ emitted' = [emitted EXCEPT ![e] = [kind |-> kind, intent |-> i, amount |-> a]]
  /\ UNCHANGED <<vars, inbox, direct>>

(* The merchant captures, voids or refunds in the provider's dashboard.    *)
ActDirectly(i, s) ==
  /\ direct < MaxDirect /\ ledger[i].authorized
  /\ ledger' = [ledger EXCEPT ![i] = s]
  /\ direct' = direct + 1
  /\ UNCHANGED <<txns, audit, failoverLog, calls, refundUses, emitted, inbox>>

CaptureDirectly(i, a) ==
  /\ ledger[i].captured = 0 /\ ~ledger[i].voided
  /\ ActDirectly(i, [ledger[i] EXCEPT !.captured = a])

VoidDirectly(i) ==
  /\ ledger[i].captured = 0
  /\ ActDirectly(i, [ledger[i] EXCEPT !.voided = TRUE])

RefundDirectly(i, a) ==
  /\ ledger[i].refunded + a <= ledger[i].captured
  /\ ActDirectly(i, [ledger[i] EXCEPT !.refunded = @ + a])

-----------------------------------------------------------------------------
(* processEvent.                                                           *)

(* mapProviderEventToTransactionStatus; "none" is the dead letter.         *)
TargetStatus(e) ==
  IF emitted[e].kind = "unrecognized" THEN "none" ELSE emitted[e].kind

(* The first transaction with the event's provider transaction id.         *)
Concerns(e, t) ==
  /\ txns[t].hasProviderId
  /\ <<txns[t].conn, txns[t].ref>> = emitted[e].intent

IsFirst(e, t) == Concerns(e, t) /\ \A u \in 1..t - 1 : ~Concerns(e, u)

TxnKnown(e) == \E t \in DOMAIN txns : Concerns(e, t)

(* Mutants: an event that comes too early is skipped for good; the last event
   always wins.                                                            *)
Reconciliation_EarlySkipped(target, s) ==
  IF s = target THEN "processed"
  ELSE IF ~IsTerminal(s) /\ IsValidTransition(s, target) THEN "applied"
  ELSE "skipped"

Reconciliation_LastEventWins(target, s) ==
  IF s = target THEN "processed" ELSE "applied"

(* What becomes of the event when it meets a transaction with status s.    *)
Reconciliation(target, s) ==
  IF s = target THEN "processed"
  ELSE IF IsTerminal(s) THEN "skipped"
  ELSE IF IsValidTransition(s, target) THEN "applied"
  ELSE IF IsStateAhead(s, target) THEN "skipped"
  ELSE "failed"

(* The transaction after the event has been applied to it.                 *)
Reconciled(txn, event) ==
  CASE event.kind = "captured" ->
         [txn EXCEPT !.status = "captured",
                     !.captured = IF event.amount = NoAmount THEN txn.amount
                                                             ELSE event.amount]
    [] event.kind = "refunded" ->
         [txn EXCEPT !.status = "refunded",
                     !.refunded = IF txn.captured = 0 THEN txn.amount
                                                      ELSE txn.captured]
    [] OTHER -> [txn EXCEPT !.status = event.kind]

ProcessEvent(e) ==
  \/ /\ TargetStatus(e) = "none"
     /\ inbox' = [inbox EXCEPT ![e] = "skipped"]
     /\ UNCHANGED <<txns, audit>>
  \/ /\ TargetStatus(e) # "none" /\ ~TxnKnown(e)
     /\ inbox' = [inbox EXCEPT ![e] = "failed"]
     /\ UNCHANGED <<txns, audit>>
  \/ /\ TargetStatus(e) # "none"
     /\ \E t \in DOMAIN txns :
          LET outcome == Reconciliation(TargetStatus(e), txns[t].status) IN
          /\ IsFirst(e, t)
          /\ IF outcome = "applied"
             THEN /\ UpdateTxn(t, Reconciled(txns[t], emitted[e]),
                               IF emitted[e].kind = "refunded"
                               THEN emitted[e].amount ELSE 0)
                  /\ inbox' = [inbox EXCEPT ![e] = "processed"]
             ELSE /\ inbox' = [inbox EXCEPT ![e] = outcome]
                  /\ UNCHANGED <<txns, audit>>

MayArrive == Overlap \/ \A c \in Calls : Idle(c)

(* handleWebhook: a second delivery of a stored event changes nothing.     *)
HandleWebhook(e) ==
  /\ MayArrive
  /\ emitted[e] # NotEmitted
  /\ ~Stored(e)
  /\ ProcessEvent(e)
  /\ UNCHANGED <<failoverLog, calls, ledger, refundUses, emitted, direct>>

(* replayEvent: any stored event, whatever its status.                     *)
ReplayEvent(e) ==
  /\ MayArrive
  /\ Stored(e)
  /\ ProcessEvent(e)
  /\ UNCHANGED <<failoverLog, calls, ledger, refundUses, emitted, direct>>

HookStep ==
  \/ \E e \in EventIds, i \in Conn \X Refs, kind \in Kinds :
       \E a \in {NoAmount, ledger[i].captured} : Emit(e, i, kind, a)
  \/ \E i \in Conn \X Refs, a \in Amount :
       CaptureDirectly(i, a) \/ VoidDirectly(i) \/ RefundDirectly(i, a)
  \/ \E e \in EventIds : HandleWebhook(e) \/ ReplayEvent(e)

HookNext == (Next /\ UNCHANGED hookVars) \/ HookStep

HookSpec == HookInit /\ [][HookNext]_allVars
=============================================================================
