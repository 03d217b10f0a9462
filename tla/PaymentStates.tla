--------------------------- MODULE PaymentStates ---------------------------
(***************************************************************************)
(* The payment transaction state machine of packages/types/src/payment.ts: *)
(* the statuses, the transition table, the terminal statuses, the order    *)
(* the webhook processor puts on them, and what a provider event asks for. *)
(***************************************************************************)
EXTENDS Naturals

Status == {"created", "authorized", "captured", "voided", "refunded",
           "partially_refunded", "failed"}

Transitions ==
  [created            |-> {"authorized", "failed"},
   authorized         |-> {"captured", "voided", "failed"},
   captured           |-> {"refunded", "partially_refunded", "failed"},
   voided             |-> {},
   refunded           |-> {},
   partially_refunded |-> {"refunded", "partially_refunded"},
   failed             |-> {}]

IsValidTransition(from, to) == to \in Transitions[from]

IsTerminal(s) == s \in {"voided", "refunded", "failed"}

(* The statuses processRefund accepts as its starting point. *)
Refundable == {"captured", "partially_refunded"}

StateOrder ==
  [created |-> 0, authorized |-> 1, captured |-> 2, partially_refunded |-> 3,
   refunded |-> 4, voided |-> 4, failed |-> 4]

IsStateAhead(current, target) == StateOrder[current] > StateOrder[target]
=============================================================================
