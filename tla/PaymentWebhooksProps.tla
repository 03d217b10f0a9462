----------------------- MODULE PaymentWebhooksProps ------------------------
(***************************************************************************)
(* What webhook reconciliation is expected to guarantee about the          *)
(* transactions it shares with the service calls.                          *)
(***************************************************************************)
EXTENDS PaymentWebhooks, PaymentTransactionsProps

-----------------------------------------------------------------------------
(* Webhooks between service calls only.                                    *)

WouldApply(e) ==
  \E t \in DOMAIN txns :
    /\ IsFirst(e, t)
    /\ TargetStatus(e) # "none"
    /\ Reconciliation(TargetStatus(e), txns[t].status) = "applied"

(* "Idempotent - reprocessing the same event produces no additional side
   effects": replaying an event that was processed or skipped finds nothing
   to do, however much happened to its transaction since.                  *)
DoneEventsHaveNoEffect ==
  \A e \in EventIds : inbox[e] \in {"processed", "skipped"} => ~WouldApply(e)

(* What a processed event established is never undone: its transaction is
   still at least as far along as the event said.                          *)
ProcessedEventsStand ==
  \A e \in EventIds :
    inbox[e] = "processed" =>
      \E t \in DOMAIN txns :
        /\ IsFirst(e, t)
        /\ StateOrder[txns[t].status] >= StateOrder[TargetStatus(e)]

(* Order does not matter in the end: once no failed event has anything left
   to apply, a transaction whose capture and refund were both announced is
   finished, whichever of the two came first.                              *)
ReplayConverges ==
  (\A e \in EventIds : inbox[e] = "failed" => ~WouldApply(e)) =>
    \A e, f \in EventIds, t \in DOMAIN txns :
      /\ Stored(e) /\ emitted[e].kind = "captured" /\ IsFirst(e, t)
      /\ Stored(f) /\ emitted[f].kind = "refunded" /\ IsFirst(f, t)
      => IsTerminal(txns[t].status)

(* The transaction was marked by a refund event, which the processor takes
   for the refund of the whole capture, whatever was refunded.             *)
MarkedByEvent(t) ==
  \E e \in EventIds :
    inbox[e] = "processed" /\ TargetStatus(e) = "refunded" /\ IsFirst(e, t)

(* Only a refund event can mark a transaction as refunded while the customer
   has part of the captured money still to get: where refunds of the service
   led there, among captures and refunds at the provider and their events,
   the provider has answered for the whole of it.                          *)
RefundedMeansRepaid ==
  \A t \in DOMAIN txns :
    txns[t].status = "refunded" /\ ~MarkedByEvent(t) =>
      Repaid(ledger[<<txns[t].conn, txns[t].ref>>]) >= txns[t].captured
=============================================================================
