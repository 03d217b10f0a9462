-------------------------------- MODULE Quotes --------------------------------
(***************************************************************************)
(* QuoteService and QuoteRepository: drafts of an administrator, answers   *)
(* of the customer who holds the share token, the scheduled expiration.    *)
(*                                                                         *)
(* No call is interrupted; what goes stale is the page the customer reads. *)
(* A call that is refused changes nothing and has no action.               *)
(***************************************************************************)
EXTENDS Integers, Sequences, FiniteSetsExt

CONSTANTS
  LineLists,    \* the lists of line items administrators may quote
  Validities,   \* validity periods, in days
  MaxQuotes,    \* bound: quotes
  LastDay       \* bound: the clock stops here

ASSUME QuoteAssumption == Validities \subseteq Int /\ MaxQuotes \in Nat /\ LastDay \in Nat

VARIABLES
  quotes,   \* QuoteRecords with their line items, in creation order
  offers,   \* history: what each quote said when it was sent
  today     \* the clock

quoteVars == <<quotes, offers, today>>

QuoteStatus ==
  {"draft", "sent", "viewed", "accepted", "declined", "revision_requested", "expired"}

QuoteTransitions ==
  [draft              |-> {"sent"},
   sent               |-> {"viewed", "expired"},
   viewed             |-> {"accepted", "declined", "revision_requested", "expired"},
   accepted           |-> {},
   declined           |-> {},
   revision_requested |-> {"draft"},
   expired            |-> {}]

(* A line item is a price and a quantity; orders counts the conversions, of
   which the record keeps the last; answered is the day of the response.   *)
QuoteInit ==
  /\ quotes = << >> /\ offers = << >>
  /\ today = 0

(* calculateTotals; the tax estimate is zero.                              *)
Total(lines) == MapThenSumSet(LAMBDA i : lines[i].price * lines[i].quantity, DOMAIN lines)

Draft(lines, days) ==
  [status |-> "draft", created |-> today, days |-> days, expires |-> today + days,
   lines |-> lines, total |-> Total(lines), answered |-> 0, orders |-> 0]

CreateQuote(lines, days) ==
  /\ Len(quotes) < MaxQuotes
  /\ quotes' = Append(quotes, Draft(lines, days))
  /\ UNCHANGED <<offers, today>>

CloneQuote(q) ==
  /\ Len(quotes) < MaxQuotes
  /\ quotes' = Append(quotes, Draft(quotes[q].lines, quotes[q].days))
  /\ UNCHANGED <<offers, today>>

(* Mutant: any quote can be edited.                                        *)
UpdateQuote_AnyStatus(q, lines, days) ==
  /\ quotes' = [quotes EXCEPT ![q].lines = lines, ![q].total = Total(lines),
                  ![q].days = days, ![q].expires = quotes[q].created + days]
  /\ UNCHANGED <<offers, today>>

(* Lines and validity may stay as they are.                                *)
UpdateQuote(q, lines, days) ==
  /\ quotes[q].status = "draft"
  /\ quotes' = [quotes EXCEPT ![q].lines = lines, ![q].total = Total(lines),
                  ![q].days = days, ![q].expires = quotes[q].created + days]
  /\ UNCHANGED <<offers, today>>

(* Mutant: any status may follow any other.                                *)
QuoteMay_Any(q, status) == quotes[q].status # status

(* isValidQuoteTransition                                                  *)
QuoteMay(q, status) == status \in QuoteTransitions[quotes[q].status]

Offer(q) == [lines |-> quotes[q].lines, total |-> quotes[q].total, expires |-> quotes[q].expires]

SendQuote(q) ==
  /\ QuoteMay(q, "sent")
  /\ quotes' = [quotes EXCEPT ![q].status = "sent"]
  /\ offers' = [x \in DOMAIN offers \cup {q} |-> IF x = q THEN Offer(q) ELSE offers[x]]
  /\ UNCHANGED today

RecordViewEvent(q) ==
  /\ quotes[q].status = "sent"
  /\ quotes' = [quotes EXCEPT ![q].status = "viewed"]
  /\ UNCHANGED <<offers, today>>

(* acceptQuote, declineQuote, requestRevision: a sent quote is viewed first. *)
AnswerQuote(q, answer) ==
  /\ quotes[q].status = "sent" \/ QuoteMay(q, answer)
  /\ quotes' = [quotes EXCEPT ![q].status = answer, ![q].answered = today]
  /\ UNCHANGED <<offers, today>>

ConvertToOrder(q) ==
  /\ quotes[q].status = "accepted"
  /\ quotes[q].orders < 2                \* bound
  /\ quotes' = [quotes EXCEPT ![q].orders = @ + 1]
  /\ UNCHANGED <<offers, today>>

IsExpirable(q) == quotes[q].status \in {"sent", "viewed"} /\ quotes[q].expires <= today

(* getQuoteByShareToken of a quote that is past its day.                   *)
OpenExpiredQuote(q) ==
  /\ IsExpirable(q)
  /\ quotes' = [quotes EXCEPT ![q].status = "expired"]
  /\ UNCHANGED <<offers, today>>

ExpireQuotes ==
  /\ \E q \in DOMAIN quotes : IsExpirable(q)
  /\ quotes' = [q \in DOMAIN quotes |->
       IF IsExpirable(q) THEN [quotes[q] EXCEPT !.status = "expired"] ELSE quotes[q]]
  /\ UNCHANGED <<offers, today>>

DayPasses ==
  /\ today < LastDay
  /\ today' = today + 1
  /\ UNCHANGED <<quotes, offers>>

QuoteNext ==
  \/ \E lines \in LineLists, days \in Validities : CreateQuote(lines, days)
  \/ \E q \in DOMAIN quotes :
       \/ CloneQuote(q)
       \/ \E lines \in LineLists \cup {quotes[q].lines},
             days \in Validities \cup {quotes[q].days} : UpdateQuote(q, lines, days)
       \/ SendQuote(q)
       \/ RecordViewEvent(q)
       \/ \E answer \in {"accepted", "declined", "revision_requested"} : AnswerQuote(q, answer)
       \/ ConvertToOrder(q)
       \/ OpenExpiredQuote(q)
  \/ ExpireQuotes
  \/ DayPasses

QuoteSpec == QuoteInit /\ [][QuoteNext]_quoteVars

-----------------------------------------------------------------------------
(* Properties.                                                             *)

Quote == [status: QuoteStatus, created: Int, days: Int, expires: Int, lines: LineLists,
          total: {Total(lines) : lines \in LineLists}, answered: Int, orders: 0..2]

QuoteTypeOK ==
  /\ quotes \in Seq(Quote)
  /\ DOMAIN offers \subseteq DOMAIN quotes
  /\ offers \in [DOMAIN offers -> [lines: LineLists, total: {Total(lines) : lines \in LineLists},
                                  expires: Int]]
  /\ today \in Nat

Final == {"accepted", "declined", "expired"}

(* What the customer answers is what was sent: from sending on, lines, total
   and validity stay as they were, whatever is edited, cloned or expired; the
   total is that of the lines; and only a quote that was sent is ever answered,
   converted or, once its day has come, expired.                           *)
QuotesStandAsSent ==
  \A q \in DOMAIN quotes :
    /\ quotes[q].total = Total(quotes[q].lines)
    /\ quotes[q].status # "draft" => q \in DOMAIN offers /\ Offer(q) = offers[q]
    /\ quotes[q].orders > 0 => quotes[q].status = "accepted"
    /\ quotes[q].status = "expired" => quotes[q].expires <= today

(* An answer or an expiration is the last word: no late view, second answer,
   sweep or resending takes it back.                                       *)
ClosedQuotesStayClosed ==
  [][\A q \in DOMAIN quotes :
       quotes[q].status \in Final =>
         /\ quotes'[q].status = quotes[q].status
         /\ quotes'[q].answered = quotes[q].answered]_quoteVars

(* "Token expiry is enforced at the service layer"                         *)
NoLateAnswers ==
  \A q \in DOMAIN quotes :
    quotes[q].status = "accepted" => quotes[q].answered < quotes[q].expires
=============================================================================
