------------------------- MODULE PaymentLifecycle --------------------------
(***************************************************************************)
(* What the platform promises about a payment, seen from the outside: the  *)
(* book holds at most one payment per reference, a payment moves only      *)
(* along the transition table, and no more is refunded than was captured.  *)
(* There are no calls in flight, no provider and no failover here.         *)
(***************************************************************************)
EXTENDS PaymentStates, Integers, Sequences

CONSTANTS Refs,        \* the orders and bookings that are paid for
          MaxAmount,   \* the largest amount of an intent
          Captures     \* the amounts asked to be captured instead of it

VARIABLE book          \* the payments, in the order they were opened

Amount == 1..MaxAmount

Payment == [ref: Refs, status: Status, amount: Amount,
            captured: Int, refunded: Nat]

Init == book = << >>

Open(r, a, s) ==
  /\ \A i \in DOMAIN book : book[i].ref # r
  /\ book' = Append(book, [ref |-> r, status |-> s, amount |-> a,
                           captured |-> 0, refunded |-> 0])

Close(i, s) ==
  /\ s \in Transitions[book[i].status]
  /\ book' = [book EXCEPT ![i].status = s]

Capture(i, a) ==
  /\ "captured" \in Transitions[book[i].status]
  /\ book' = [book EXCEPT ![i].status = "captured", ![i].captured = a]

Refund(i, a) ==
  LET total == book[i].refunded + a IN
  /\ book[i].status \in Refundable
  /\ total <= book[i].captured
  /\ book' = [book EXCEPT
       ![i].status = IF total = book[i].captured THEN "refunded"
                                                 ELSE "partially_refunded",
       ![i].refunded = total]

Next ==
  \/ \E r \in Refs, a \in Amount, s \in {"authorized", "failed"} : Open(r, a, s)
  \/ \E i \in DOMAIN book, s \in {"voided", "failed"} : Close(i, s)
  \/ \E i \in DOMAIN book :
       \/ \E a \in Captures \cup {book[i].amount} : Capture(i, a)
       \/ \E a \in Amount : Refund(i, a)

Spec == Init /\ [][Next]_book
=============================================================================
