---------------------------- MODULE CommerceProofs -----------------------------
(***************************************************************************)
(* Proofs about components whose calls are never interrupted.  About Quotes *)
(* for any line items, validity periods and number of quotes; about         *)
(* Subscriptions for any entitlements, any number of packages, versions and *)
(* subscribers, and any usage; about Loyalty for any programs, customers,   *)
(* order totals and adjustments, and a ledger of any length; about Checkout *)
(* for any carts, tips and number of visits; about CartSessions for any     *)
(* requests, tenants and customers, and any number of sessions and items.   *)
(***************************************************************************)
EXTENDS Quotes, Subscriptions, Loyalty, Checkout, CartSessions, FiniteSums, SequenceTheorems,
        TLAPS

-----------------------------------------------------------------------------
(* Quotes.                                                                 *)

(* Every step but the clock's appends one draft, or rewrites quotes one by one;
   what each kind of step does to one quote, and to its offer.             *)
Edited(old, new) ==
  /\ old.status = "draft"
  /\ new.status = "draft" /\ new.orders = old.orders /\ new.total = Total(new.lines)

Sent(old, new, offer) ==
  /\ old.status = "draft"
  /\ new = [old EXCEPT !.status = "sent"]
  /\ offer = [lines |-> old.lines, total |-> old.total, expires |-> old.expires]

Viewed(old, new) == old.status = "sent" /\ new = [old EXCEPT !.status = "viewed"]

Answered(old, new) ==
  /\ old.status \in {"sent", "viewed"}
  /\ \E answer \in {"accepted", "declined", "revision_requested"} :
       new = [old EXCEPT !.status = answer, !.answered = today]

Converted(old, new) ==
  /\ old.status = "accepted" /\ old.orders < 2
  /\ new = [old EXCEPT !.orders = @ + 1]

Expired(old, new) ==
  /\ old.status \in {"sent", "viewed"} /\ old.expires <= today
  /\ new = [old EXCEPT !.status = "expired"]

OneQuoteChanges(q) ==
  LET old == quotes[q]  new == quotes'[q] IN
  \/ offers' = offers /\ Edited(old, new)
  \/ /\ Sent(old, new, offers'[q])
     /\ DOMAIN offers' = DOMAIN offers \cup {q}
     /\ \A x \in DOMAIN offers : x # q => offers'[x] = offers[x]
  \/ offers' = offers /\ Viewed(old, new)
  \/ offers' = offers /\ Answered(old, new)
  \/ offers' = offers /\ Converted(old, new)
  \/ offers' = offers /\ Expired(old, new)

(* The quotes there were keep their places. *)
KeepsPlaces(qs) == DOMAIN quotes' = DOMAIN quotes /\ \A x \in DOMAIN quotes \ qs : quotes'[x] = quotes[x]

(* A quote that an EXCEPT replaces is replaced, and no other. *)
LEMMA QuoteReplaced ==
  ASSUME QuoteTypeOK, NEW q \in DOMAIN quotes, NEW new \in Quote,
         quotes' = [quotes EXCEPT ![q] = new]
  PROVE  /\ quotes' \in Seq(Quote) /\ KeepsPlaces({q}) /\ quotes'[q] = new
<1>1. quotes \in Seq(Quote)
  BY DEF QuoteTypeOK
<1> QED BY <1>1 DEF KeepsPlaces

(* Drafts, and what a status and an answer may be replaced by, are quotes. *)
LEMMA DraftIsQuote ==
  ASSUME QuoteTypeOK, NEW lines \in LineLists, NEW days \in Int
  PROVE  /\ Draft(lines, days) \in Quote
         /\ Draft(lines, days).status = "draft" /\ Draft(lines, days).orders = 0
         /\ Draft(lines, days).total = Total(lines) /\ Draft(lines, days).lines = lines
BY DEF Draft, Quote, QuoteTypeOK, QuoteStatus

(* A creation or a clone appends a draft. *)
LEMMA DraftAppended ==
  ASSUME QuoteTypeOK, NEW lines \in LineLists, NEW days \in Int,
         quotes' = Append(quotes, Draft(lines, days)), UNCHANGED <<offers, today>>
  PROVE  /\ QuoteTypeOK'
         /\ DOMAIN quotes' = DOMAIN quotes \cup {Len(quotes) + 1}
         /\ \A x \in DOMAIN quotes : quotes'[x] = quotes[x]
         /\ quotes'[Len(quotes) + 1] = Draft(lines, days)
<1> DEFINE new == Draft(lines, days)
<1>1. quotes \in Seq(Quote) /\ new \in Quote /\ quotes' = Append(quotes, new)
  BY DraftIsQuote DEF QuoteTypeOK
<1> HIDE DEF new
<1>2. /\ quotes' \in Seq(Quote)
      /\ DOMAIN quotes' = DOMAIN quotes \cup {Len(quotes) + 1}
      /\ \A x \in DOMAIN quotes : quotes'[x] = quotes[x]
      /\ quotes'[Len(quotes) + 1] = new
  BY <1>1
<1> QED BY <1>2 DEF QuoteTypeOK, new

(* UpdateQuote rewrites a draft. *)
LEMMA UpdateEdits ==
  ASSUME QuoteTypeOK, NEW q \in DOMAIN quotes, NEW lines \in LineLists, NEW days \in Int,
         UpdateQuote(q, lines, days)
  PROVE  QuoteTypeOK' /\ KeepsPlaces({q}) /\ OneQuoteChanges(q) /\ UNCHANGED today
<1> DEFINE new == [quotes[q] EXCEPT !.lines = lines, !.total = Total(lines),
                     !.days = days, !.expires = quotes[q].created + days]
<1>1. quotes[q] \in Quote
  BY DEF QuoteTypeOK
<1>2. /\ new \in Quote /\ new.status = quotes[q].status /\ new.orders = quotes[q].orders
      /\ new.total = Total(lines) /\ new.lines = lines
  <2> DEFINE totals == {Total(l) : l \in LineLists}
             t == Total(lines)
             e == quotes[q].created + days
  <2>1. t \in totals /\ e \in Int
    BY <1>1 DEF Quote
  <2>2. Quote = [status: QuoteStatus, created: Int, days: Int, expires: Int, lines: LineLists,
                 total: totals, answered: Int, orders: 0..2]
    BY DEF Quote
  <2>3. new = [quotes[q] EXCEPT !.lines = lines, !.total = t, !.days = days, !.expires = e]
    OBVIOUS
  <2> HIDE DEF totals, t, e, new
  <2>4. /\ new \in Quote /\ new.status = quotes[q].status /\ new.orders = quotes[q].orders
        /\ new.total = t /\ new.lines = lines
    BY <1>1, <2>1, <2>2, <2>3
  <2> QED BY <2>4 DEF t
<1>3. quotes' = [quotes EXCEPT ![q] = new] /\ quotes[q].status = "draft"
      /\ UNCHANGED <<offers, today>>
  BY DEF UpdateQuote
<1> HIDE DEF new
<1>4. quotes' \in Seq(Quote) /\ KeepsPlaces({q}) /\ quotes'[q] = new
  BY <1>2, <1>3, QuoteReplaced
<1> QED BY <1>2, <1>3, <1>4 DEF QuoteTypeOK, OneQuoteChanges, Edited, KeepsPlaces

(* SendQuote sends a draft, and the offer is what it says. *)
LEMMA SendSends ==
  ASSUME QuoteTypeOK, NEW q \in DOMAIN quotes, SendQuote(q)
  PROVE  QuoteTypeOK' /\ KeepsPlaces({q}) /\ OneQuoteChanges(q) /\ UNCHANGED today
<1> DEFINE new == [quotes[q] EXCEPT !.status = "sent"]
           Terms == [lines: LineLists, total: {Total(lines) : lines \in LineLists}, expires: Int]
<1>1. quotes[q] \in Quote
  BY DEF QuoteTypeOK
<1>2. quotes[q].status = "draft"
  BY <1>1 DEF SendQuote, QuoteMay, QuoteTransitions, Quote, QuoteStatus
<1>3. new \in Quote /\ quotes' = [quotes EXCEPT ![q] = new]
  BY <1>1 DEF Quote, QuoteStatus, SendQuote
<1>4. quotes' \in Seq(Quote) /\ KeepsPlaces({q}) /\ quotes'[q] = new
  <2> HIDE DEF new
  <2> QED BY <1>3, QuoteReplaced
<1>5. Offer(q) \in Terms
  BY <1>1 DEF Offer, Quote
<1>6. /\ DOMAIN offers' = DOMAIN offers \cup {q} /\ offers'[q] = Offer(q)
      /\ \A x \in DOMAIN offers : x # q => offers'[x] = offers[x]
      /\ UNCHANGED today
  BY DEF SendQuote
<1>7. offers' \in [DOMAIN offers' -> Terms]
  <2> HIDE DEF Terms
  <2>1. \A x \in DOMAIN offers : offers[x] \in Terms
    BY DEF QuoteTypeOK, Terms
  <2>2. offers' = [x \in DOMAIN offers' |-> offers'[x]]
    BY DEF SendQuote
  <2> QED BY <1>5, <1>6, <2>1, <2>2
<1>8. QuoteTypeOK'
  BY <1>4, <1>6, <1>7 DEF QuoteTypeOK, KeepsPlaces
<1>9. Sent(quotes[q], quotes'[q], offers'[q])
  BY <1>2, <1>4, <1>6 DEF Sent, Offer
<1> QED BY <1>4, <1>6, <1>8, <1>9 DEF OneQuoteChanges

(* Views, answers, conversions and the link of an expired quote rewrite one
   quote and no offer.                                                     *)
LEMMA QuoteRewritten ==
  ASSUME QuoteTypeOK, NEW q \in DOMAIN quotes,
         \/ RecordViewEvent(q)
         \/ \E answer \in {"accepted", "declined", "revision_requested"} :
              AnswerQuote(q, answer)
         \/ ConvertToOrder(q)
         \/ OpenExpiredQuote(q)
  PROVE  QuoteTypeOK' /\ KeepsPlaces({q}) /\ OneQuoteChanges(q) /\ UNCHANGED today
<1>1. quotes[q] \in Quote /\ today \in Int
  BY DEF QuoteTypeOK
<1> DEFINE Goal(new) ==
      /\ new \in Quote /\ quotes' = [quotes EXCEPT ![q] = new] /\ UNCHANGED <<offers, today>>
      /\ \/ Viewed(quotes[q], new) \/ Answered(quotes[q], new)
         \/ Converted(quotes[q], new) \/ Expired(quotes[q], new)
<1>2. \E new : Goal(new)
  <2>1. CASE RecordViewEvent(q)
    <3>1. Goal([quotes[q] EXCEPT !.status = "viewed"])
      BY <1>1, <2>1 DEF RecordViewEvent, Quote, QuoteStatus, Viewed
    <3> QED BY <3>1
  <2>2. ASSUME NEW answer \in {"accepted", "declined", "revision_requested"},
               AnswerQuote(q, answer)
        PROVE  \E new : Goal(new)
    <3>1. quotes[q].status \in {"sent", "viewed"}
      BY <1>1, <2>2 DEF AnswerQuote, QuoteMay, QuoteTransitions, Quote, QuoteStatus
    <3> DEFINE new == [quotes[q] EXCEPT !.status = answer, !.answered = today]
    <3>2. new \in Quote
      BY <1>1 DEF Quote, QuoteStatus
    <3>3. quotes' = [quotes EXCEPT ![q] = new] /\ UNCHANGED <<offers, today>>
      BY <2>2 DEF AnswerQuote
    <3>4. Answered(quotes[q], new)
      BY <3>1 DEF Answered
    <3>5. Goal(new)
      BY <3>2, <3>3, <3>4
    <3> QED BY <3>5
  <2>3. CASE ConvertToOrder(q)
    <3>1. Goal([quotes[q] EXCEPT !.orders = @ + 1])
      BY <1>1, <2>3 DEF ConvertToOrder, Quote, Converted
    <3> QED BY <3>1
  <2>4. CASE OpenExpiredQuote(q)
    <3>1. Goal([quotes[q] EXCEPT !.status = "expired"])
      BY <1>1, <2>4 DEF OpenExpiredQuote, IsExpirable, Quote, QuoteStatus, Expired
    <3> QED BY <3>1
  <2> QED BY <2>1, <2>2, <2>3, <2>4
<1>3. PICK new : Goal(new)
  BY <1>2
<1>4. quotes' \in Seq(Quote) /\ KeepsPlaces({q}) /\ quotes'[q] = new
  BY <1>3, QuoteReplaced
<1>5. QuoteTypeOK'
  BY <1>3, <1>4 DEF QuoteTypeOK, KeepsPlaces
<1> QED BY <1>3, <1>4, <1>5 DEF OneQuoteChanges

(* The sweep expires the quotes whose day has come, each like its link would. *)
LEMMA SweepExpires ==
  ASSUME QuoteTypeOK, ExpireQuotes
  PROVE  /\ QuoteTypeOK' /\ DOMAIN quotes' = DOMAIN quotes /\ UNCHANGED <<offers, today>>
         /\ \A x \in DOMAIN quotes : quotes'[x] = quotes[x] \/ Expired(quotes[x], quotes'[x])
<1>1. quotes \in Seq(Quote) /\ \A x \in DOMAIN quotes : quotes[x] \in Quote
  BY DEF QuoteTypeOK
<1> DEFINE new(x) == IF IsExpirable(x) THEN [quotes[x] EXCEPT !.status = "expired"] ELSE quotes[x]
<1>2. \A x \in DOMAIN quotes : new(x) \in Quote
  BY <1>1 DEF Quote, QuoteStatus
<1>3. \A x \in DOMAIN quotes : new(x) = quotes[x] \/ Expired(quotes[x], new(x))
  BY DEF IsExpirable, Expired
<1>4. quotes' = [x \in DOMAIN quotes |-> new(x)] /\ UNCHANGED <<offers, today>>
  BY DEF ExpireQuotes
<1> HIDE DEF new
<1>5. quotes' \in Seq(Quote) /\ DOMAIN quotes' = DOMAIN quotes
  BY <1>1, <1>2, <1>4
<1> QED BY <1>3, <1>4, <1>5 DEF QuoteTypeOK

-----------------------------------------------------------------------------
(* Steps.                                                                  *)

(* Every step is one of four kinds. *)
LEMMA QuoteStepKinds ==
  ASSUME QuoteTypeOK, QuoteNext
  PROVE  \/ \E lines \in LineLists, days \in Int :
              quotes' = Append(quotes, Draft(lines, days)) /\ UNCHANGED <<offers, today>>
         \/ \E q \in DOMAIN quotes :
              QuoteTypeOK' /\ KeepsPlaces({q}) /\ OneQuoteChanges(q) /\ UNCHANGED today
         \/ ExpireQuotes
         \/ DayPasses
<1> DEFINE Drafts == \E lines \in LineLists, days \in Int :
              quotes' = Append(quotes, Draft(lines, days)) /\ UNCHANGED <<offers, today>>
           Rewrites == \E q \in DOMAIN quotes :
              QuoteTypeOK' /\ KeepsPlaces({q}) /\ OneQuoteChanges(q) /\ UNCHANGED today
<1>1. ASSUME NEW lines \in LineLists, NEW days \in Validities, CreateQuote(lines, days)
      PROVE  Drafts
  BY <1>1, QuoteAssumption DEF CreateQuote
<1>2. ASSUME NEW q \in DOMAIN quotes, CloneQuote(q)
      PROVE  Drafts
  <2>1. quotes[q] \in Quote
    BY DEF QuoteTypeOK
  <2>2. quotes[q].lines \in LineLists /\ quotes[q].days \in Int
    BY <2>1 DEF Quote
  <2> QED BY <1>2, <2>2 DEF CloneQuote
<1>3. ASSUME NEW q \in DOMAIN quotes, NEW lines \in LineLists \cup {quotes[q].lines},
             NEW days \in Validities \cup {quotes[q].days}, UpdateQuote(q, lines, days)
      PROVE  Rewrites
  <2>1. quotes[q] \in Quote
    BY DEF QuoteTypeOK
  <2>2. lines \in LineLists /\ days \in Int
    BY <2>1, QuoteAssumption DEF Quote
  <2> QED BY <1>3, <2>2, UpdateEdits
<1>4. ASSUME NEW q \in DOMAIN quotes, SendQuote(q)
      PROVE  Rewrites
  BY <1>4, SendSends
<1>5. ASSUME NEW q \in DOMAIN quotes,
             \/ RecordViewEvent(q)
             \/ \E answer \in {"accepted", "declined", "revision_requested"} :
                  AnswerQuote(q, answer)
             \/ ConvertToOrder(q)
             \/ OpenExpiredQuote(q)
      PROVE  Rewrites
  BY <1>5, QuoteRewritten
<1> HIDE DEF Drafts, Rewrites
<1>6. Drafts \/ Rewrites \/ ExpireQuotes \/ DayPasses
  BY <1>1, <1>2, <1>3, <1>4, <1>5 DEF QuoteNext
<1> QED BY <1>6 DEF Drafts, Rewrites

(* Quotes, offers and clock keep their types: totals are those of line items
   that were quoted, and offers belong to quotes.                          *)
THEOREM QuotesTypeCorrect == QuoteSpec => []QuoteTypeOK
<1>1. QuoteInit => QuoteTypeOK
  BY DEF QuoteInit, QuoteTypeOK
<1>2. QuoteTypeOK /\ [QuoteNext]_quoteVars => QuoteTypeOK'
  <2> SUFFICES ASSUME QuoteTypeOK, [QuoteNext]_quoteVars PROVE QuoteTypeOK'
    OBVIOUS
  <2>1. CASE QuoteNext
    <3>1. CASE DayPasses
      BY <3>1 DEF DayPasses, QuoteTypeOK
    <3> QED BY <2>1, <3>1, QuoteStepKinds, DraftAppended, SweepExpires
  <2>2. CASE UNCHANGED quoteVars
    BY <2>2 DEF quoteVars, QuoteTypeOK
  <2> QED BY <2>1, <2>2
<1> QED BY <1>1, <1>2, PTL DEF QuoteSpec

-----------------------------------------------------------------------------
(* What was sent stands.                                                   *)

(* QuotesStandAsSent of one quote. *)
Stands(quote, isOffered, offer, now) ==
  /\ quote.total = Total(quote.lines)
  /\ quote.status # "draft" =>
       /\ isOffered
       /\ [lines |-> quote.lines, total |-> quote.total, expires |-> quote.expires] = offer
  /\ quote.orders > 0 => quote.status = "accepted"
  /\ quote.status = "expired" => quote.expires <= now

(* None of the ways to change a quote makes it say something else. *)
LEMMA ChangesStand ==
  ASSUME NEW old \in Quote, NEW new \in Quote, NEW was, NEW offer, today \in Int,
         Stands(old, was, offer, today),
         \/ Viewed(old, new) \/ Answered(old, new) \/ Converted(old, new)
         \/ Expired(old, new) \/ Edited(old, new)
  PROVE  Stands(new, was, offer, today)
<1>1. CASE Viewed(old, new)
  BY <1>1 DEF Viewed, Stands, Quote
<1>2. CASE Answered(old, new)
  BY <1>2 DEF Answered, Stands, Quote
<1>3. CASE Converted(old, new)
  BY <1>3 DEF Converted, Stands, Quote
<1>4. CASE Expired(old, new)
  BY <1>4 DEF Expired, Stands, Quote
<1>5. CASE Edited(old, new)
  BY <1>5 DEF Edited, Stands, Quote
<1> QED BY <1>1, <1>2, <1>3, <1>4, <1>5

(* Sending a draft makes it stand as the offer it is recorded with. *)
LEMMA SendingStands ==
  ASSUME NEW old \in Quote, NEW new, NEW was, NEW offer, NEW before,
         Stands(old, was, before, today), Sent(old, new, offer)
  PROVE  Stands(new, TRUE, offer, today)
BY DEF Sent, Stands, Quote

(* From sending on, a quote says what it said when it was sent, whoever edits,
   clones, answers, converts or expires quotes (QuoteService).             *)
THEOREM SentQuotesStand == QuoteSpec => []QuotesStandAsSent
<1> DEFINE Standing == \A q \in DOMAIN quotes : Stands(quotes[q], q \in DOMAIN offers, offers[q], today)
<1>1. QuotesStandAsSent <=> Standing
  BY DEF QuotesStandAsSent, Stands, Offer
<1>2. QuoteInit => Standing
  BY DEF QuoteInit
<1>3. QuoteTypeOK /\ QuoteTypeOK' /\ Standing /\ [QuoteNext]_quoteVars => Standing'
  <2> SUFFICES ASSUME QuoteTypeOK, QuoteTypeOK', Standing, [QuoteNext]_quoteVars
               PROVE  Standing'
    OBVIOUS
  <2>0. /\ \A q \in DOMAIN quotes : quotes[q] \in Quote
        /\ \A q \in DOMAIN quotes' : quotes'[q] \in Quote
        /\ today \in Int
    BY DEF QuoteTypeOK
  <2>1. ASSUME NEW lines \in LineLists, NEW days \in Int,
               quotes' = Append(quotes, Draft(lines, days)), UNCHANGED <<offers, today>>
        PROVE  Standing'
    <3>1. \A any : Stands(quotes'[Len(quotes) + 1], any, offers'[Len(quotes) + 1], today')
      BY <2>1, DraftIsQuote, DraftAppended DEF Stands
    <3>2. \A q \in DOMAIN quotes : Stands(quotes'[q], q \in DOMAIN offers', offers'[q], today')
      BY <2>1, DraftAppended
    <3> QED BY <2>1, <3>1, <3>2, DraftAppended
  <2>2. ASSUME NEW q \in DOMAIN quotes, KeepsPlaces({q}), OneQuoteChanges(q), UNCHANGED today
        PROVE  Standing'
    <3>1. \A x \in DOMAIN offers : x # q => x \in DOMAIN offers' /\ offers'[x] = offers[x]
      BY <2>2 DEF OneQuoteChanges
    <3>2. \A x \in DOMAIN quotes : x # q => (x \in DOMAIN offers' <=> x \in DOMAIN offers)
      BY <2>2 DEF OneQuoteChanges
    <3>3. ASSUME NEW x \in DOMAIN quotes, x # q
          PROVE  Stands(quotes'[x], x \in DOMAIN offers', offers'[x], today')
      <4>1. quotes'[x] = quotes[x] /\ Stands(quotes[x], x \in DOMAIN offers, offers[x], today)
        BY <2>2, <3>3 DEF KeepsPlaces
      <4> QED BY <2>2, <3>1, <3>2, <3>3, <4>1 DEF Stands
    <3>4. Stands(quotes'[q], q \in DOMAIN offers', offers'[q], today')
      <4>1. Stands(quotes[q], q \in DOMAIN offers, offers[q], today) /\ quotes[q] \in Quote
            /\ quotes'[q] \in Quote
        BY <2>0, <2>2 DEF KeepsPlaces
      <4>2. CASE /\ Sent(quotes[q], quotes'[q], offers'[q])
                 /\ DOMAIN offers' = DOMAIN offers \cup {q}
        <5>1. Stands(quotes'[q], TRUE, offers'[q], today)
          BY <4>1, <4>2, SendingStands
        <5> QED BY <2>2, <4>2, <5>1 DEF Stands
      <4>3. CASE /\ offers' = offers
                 /\ \/ Viewed(quotes[q], quotes'[q]) \/ Answered(quotes[q], quotes'[q])
                    \/ Converted(quotes[q], quotes'[q]) \/ Expired(quotes[q], quotes'[q])
                    \/ Edited(quotes[q], quotes'[q])
        <5>1. Stands(quotes'[q], q \in DOMAIN offers, offers[q], today)
          BY <2>0, <4>1, <4>3, ChangesStand
        <5> QED BY <2>2, <4>3, <5>1
      <4> QED BY <2>2, <4>2, <4>3 DEF OneQuoteChanges
    <3> QED BY <2>2, <3>3, <3>4 DEF KeepsPlaces
  <2>3. CASE ExpireQuotes
    <3>1. ASSUME NEW x \in DOMAIN quotes
          PROVE  Stands(quotes'[x], x \in DOMAIN offers, offers[x], today)
      <4>1. quotes'[x] = quotes[x] \/ Expired(quotes[x], quotes'[x])
        BY <2>3, SweepExpires
      <4>2. quotes[x] \in Quote /\ quotes'[x] \in Quote
        BY <2>0, <2>3, SweepExpires
      <4> QED BY <2>0, <4>1, <4>2, ChangesStand
    <3> QED BY <2>3, <3>1, SweepExpires
  <2>4. CASE DayPasses
    BY <2>0, <2>4 DEF DayPasses, Stands, Quote
  <2>5. CASE UNCHANGED quoteVars
    BY <2>5 DEF quoteVars
  <2> QED BY <2>1, <2>2, <2>3, <2>4, <2>5, QuoteStepKinds
<1>4. QuoteSpec => []Standing
  <2> HIDE DEF Standing
  <2> QED BY <1>2, <1>3, QuotesTypeCorrect, PTL DEF QuoteSpec
<1> HIDE DEF Standing
<1> QED BY <1>1, <1>4, PTL

-----------------------------------------------------------------------------
(* The last word.                                                          *)

(* No step takes an answer or an expiration back (QuoteService's transitions,
   the sweep and the links of expired quotes).                             *)
THEOREM ClosedStaysClosed == QuoteSpec => ClosedQuotesStayClosed
<1> DEFINE Kept == \A q \in DOMAIN quotes :
             quotes[q].status \in Final =>
               /\ quotes'[q].status = quotes[q].status
               /\ quotes'[q].answered = quotes[q].answered
<1>1. QuoteTypeOK /\ [QuoteNext]_quoteVars => [Kept]_quoteVars
  <2> SUFFICES ASSUME QuoteTypeOK, QuoteNext PROVE Kept
    BY DEF QuoteTypeOK
  <2>0. \A q \in DOMAIN quotes : quotes[q] \in Quote
    BY DEF QuoteTypeOK
  <2>1. ASSUME NEW lines \in LineLists, NEW days \in Int,
               quotes' = Append(quotes, Draft(lines, days)), UNCHANGED <<offers, today>>
        PROVE  Kept
    BY <2>1, DraftAppended
  <2>2. ASSUME NEW q \in DOMAIN quotes, KeepsPlaces({q}), OneQuoteChanges(q)
        PROVE  Kept
    <3>1. quotes[q].status \in Final =>
            quotes'[q].status = quotes[q].status /\ quotes'[q].answered = quotes[q].answered
      BY <2>0, <2>2
      DEF OneQuoteChanges, Edited, Sent, Viewed, Answered, Converted, Expired, Final, Quote
    <3> QED BY <2>2, <3>1 DEF KeepsPlaces
  <2>3. CASE ExpireQuotes
    BY <2>3, SweepExpires DEF Expired, Final
  <2>4. CASE DayPasses
    BY <2>4 DEF DayPasses
  <2> QED BY <2>1, <2>2, <2>3, <2>4, QuoteStepKinds
<1> HIDE DEF Kept
<1>2. QuoteSpec => [][Kept]_quoteVars
  BY <1>1, QuotesTypeCorrect, PTL DEF QuoteSpec
<1> QED BY <1>2 DEF ClosedQuotesStayClosed, Kept

-----------------------------------------------------------------------------
(* Subscriptions.                                                          *)

(* Two sets of entitlements that grant the same. *)
SameGrants(a, b) ==
  /\ \A key \in DOMAIN a.modules \cup DOMAIN b.modules :
       Grants(a.modules, key) <=> Grants(b.modules, key)
  /\ a.features = b.features /\ a.limit = b.limit

(* hasEntitlementChanges misses nothing, and the order of comparison does not
   matter to it.                                                           *)
LEMMA NoChangesSameGrants ==
  ASSUME NEW a, NEW b, ~HasEntitlementChanges(a, b)
  PROVE  SameGrants(a, b)
BY DEF HasEntitlementChanges, SameModules, SameGrants, Grants

LEMMA SameGrantsTransitive ==
  ASSUME NEW a, NEW b, NEW c, SameGrants(a, b), SameGrants(b, c)
  PROVE  SameGrants(a, c)
<1>1. \A key : Grants(a.modules, key) <=> Grants(b.modules, key)
  BY DEF SameGrants, Grants
<1>2. \A key : Grants(b.modules, key) <=> Grants(c.modules, key)
  BY DEF SameGrants, Grants
<1> QED BY <1>1, <1>2 DEF SameGrants

(* A version is appended, with a number above those of its package. *)
VersionAdded(p, number, ents) ==
  /\ DOMAIN versions' = DOMAIN versions \cup {Len(versions) + 1}
  /\ \A v \in DOMAIN versions : v < Len(versions) + 1 /\ versions'[v] = versions[v]
  /\ versions'[Len(versions) + 1] = Version(p, number, ents)
  /\ \A v \in VersionsOf(p) : versions[v].number < number

LEMMA VersionAppended ==
  ASSUME SubscriptionTypeOK, NEW p \in Nat, NEW number \in Nat, NEW ents \in Entitlements,
         versions' = Append(versions, Version(p, number, ents)),
         \A v \in VersionsOf(p) : versions[v].number < number
  PROVE  versions' \in Seq(PackageVersion) /\ VersionAdded(p, number, ents)
<1> DEFINE new == Version(p, number, ents)
<1>1. new \in PackageVersion /\ versions \in Seq(PackageVersion)
  BY DEF Version, PackageVersion, SubscriptionTypeOK
<1>2. versions' = Append(versions, new)
  OBVIOUS
<1> HIDE DEF new
<1>3. /\ versions' \in Seq(PackageVersion)
      /\ DOMAIN versions' = DOMAIN versions \cup {Len(versions) + 1}
      /\ \A v \in DOMAIN versions : v < Len(versions) + 1 /\ versions'[v] = versions[v]
      /\ versions'[Len(versions) + 1] = new
  BY <1>1, <1>2
<1> QED BY <1>3 DEF VersionAdded, new

(* What the calls that change packages do. *)
LEMMA PackageCreated ==
  ASSUME SubscriptionTypeOK, NEW name \in Names, NEW ents \in Entitlements,
         CreatePackage(name, ents)
  PROVE  /\ SubscriptionTypeOK'
         /\ DOMAIN packages' = DOMAIN packages \cup {Len(packages) + 1}
         /\ Len(packages) + 1 \notin DOMAIN packages
         /\ \A p \in DOMAIN packages : packages'[p] = packages[p]
         /\ packages'[Len(packages) + 1].ents = ents
         /\ VersionAdded(Len(packages) + 1, 1, ents)
         /\ UNCHANGED <<contracts, usage, allowed>>
<1> DEFINE new == [name |-> name, status |-> "active", ents |-> ents]
<1>1. new \in Package /\ new.ents = ents /\ packages \in Seq(Package)
  BY DEF Package, SubscriptionTypeOK
<1>2. packages' = Append(packages, new) /\ UNCHANGED <<contracts, usage, allowed>>
      /\ versions' = Append(versions, Version(Len(packages) + 1, 1, ents))
  BY DEF CreatePackage
<1> HIDE DEF new
<1>3. /\ packages' \in Seq(Package)
      /\ DOMAIN packages' = DOMAIN packages \cup {Len(packages) + 1}
      /\ Len(packages) + 1 \notin DOMAIN packages /\ Len(packages) + 1 \in Nat
      /\ \A p \in DOMAIN packages : packages'[p] = packages[p]
      /\ packages'[Len(packages) + 1] = new
  BY <1>1, <1>2
<1>4. VersionsOf(Len(packages) + 1) = {}
  BY <1>3 DEF VersionsOf, SubscriptionTypeOK
<1>5. versions' \in Seq(PackageVersion) /\ VersionAdded(Len(packages) + 1, 1, ents)
  BY <1>2, <1>3, <1>4, VersionAppended
<1>6. \A v \in DOMAIN versions' : versions'[v].package \in DOMAIN packages'
  BY <1>3, <1>5 DEF VersionAdded, Version, SubscriptionTypeOK
<1>7. SubscriptionTypeOK'
  BY <1>2, <1>3, <1>5, <1>6 DEF SubscriptionTypeOK
<1> QED BY <1>1, <1>2, <1>3, <1>5, <1>7

LEMMA PackageUpdated ==
  ASSUME SubscriptionTypeOK, NEW p \in DOMAIN packages, NEW name \in Names,
         NEW ents \in Entitlements, UpdatePackage(p, name, ents)
  PROVE  /\ SubscriptionTypeOK'
         /\ DOMAIN packages' = DOMAIN packages
         /\ \A q \in DOMAIN packages : q # p => packages'[q] = packages[q]
         /\ packages'[p].ents = ents
         /\ \/ UNCHANGED versions /\ SameGrants(packages[p].ents, ents)
            \/ \E number \in Nat : VersionAdded(p, number, ents)
         /\ UNCHANGED <<contracts, usage, allowed>>
<1> DEFINE new == [packages[p] EXCEPT !.name = name, !.ents = ents]
<1>1. packages \in Seq(Package) /\ packages[p] \in Package /\ p \in Nat
  BY DEF SubscriptionTypeOK
<1>2. new \in Package /\ new.ents = ents
  BY <1>1 DEF Package
<1>3. packages' = [packages EXCEPT ![p] = new] /\ UNCHANGED <<contracts, usage, allowed>>
  BY DEF UpdatePackage
<1> HIDE DEF new
<1>4. /\ packages' \in Seq(Package) /\ DOMAIN packages' = DOMAIN packages
      /\ packages'[p] = new /\ \A q \in DOMAIN packages : q # p => packages'[q] = packages[q]
  BY <1>1, <1>2, <1>3
<1>5. CASE ~HasEntitlementChanges(packages[p].ents, ents)
  <2>1. UNCHANGED versions /\ SameGrants(packages[p].ents, ents)
    BY <1>5, NoChangesSameGrants DEF UpdatePackage
  <2>2. SubscriptionTypeOK'
    BY <1>3, <1>4, <2>1 DEF SubscriptionTypeOK
  <2> QED BY <1>2, <1>3, <1>4, <2>1, <2>2
<1>6. CASE HasEntitlementChanges(packages[p].ents, ents)
  <2>1. PICK v \in VersionsOf(p) :
          IsLatest(v, p) /\ versions' = Append(versions, Version(p, versions[v].number + 1, ents))
    BY <1>6 DEF UpdatePackage
  <2>2. \A w \in VersionsOf(p) : versions[w].number \in Nat
    <3>1. \A w \in DOMAIN versions : versions[w] \in PackageVersion
      BY DEF SubscriptionTypeOK
    <3> QED BY <3>1 DEF VersionsOf, PackageVersion
  <2>3. /\ versions[v].number + 1 \in Nat
        /\ \A w \in VersionsOf(p) : versions[w].number < versions[v].number + 1
    BY <2>1, <2>2 DEF IsLatest
  <2>4. versions' \in Seq(PackageVersion) /\ VersionAdded(p, versions[v].number + 1, ents)
    BY <1>1, <2>1, <2>3, VersionAppended
  <2>5. \A w \in DOMAIN versions' : versions'[w].package \in DOMAIN packages'
    BY <1>4, <2>4 DEF VersionAdded, Version, SubscriptionTypeOK
  <2>6. SubscriptionTypeOK'
    BY <1>3, <1>4, <2>4, <2>5 DEF SubscriptionTypeOK
  <2> QED BY <1>2, <1>3, <1>4, <2>3, <2>4, <2>6
<1> QED BY <1>5, <1>6

LEMMA PackageDeprecated ==
  ASSUME SubscriptionTypeOK, NEW p \in DOMAIN packages, DeprecatePackage(p)
  PROVE  /\ SubscriptionTypeOK'
         /\ DOMAIN packages' = DOMAIN packages
         /\ \A q \in DOMAIN packages : packages'[q].ents = packages[q].ents
         /\ UNCHANGED <<versions, contracts, usage, allowed>>
<1> DEFINE new == [packages[p] EXCEPT !.status = "deprecated"]
<1>1. packages \in Seq(Package) /\ packages[p] \in Package
  BY DEF SubscriptionTypeOK
<1>2. new \in Package /\ new.ents = packages[p].ents
  BY <1>1 DEF Package
<1>3. packages' = [packages EXCEPT ![p] = new] /\ UNCHANGED <<versions, contracts, usage, allowed>>
  BY DEF DeprecatePackage
<1> HIDE DEF new
<1>4. /\ packages' \in Seq(Package) /\ DOMAIN packages' = DOMAIN packages
      /\ packages'[p] = new /\ \A q \in DOMAIN packages : q # p => packages'[q] = packages[q]
  BY <1>1, <1>2, <1>3
<1> QED BY <1>2, <1>3, <1>4 DEF SubscriptionTypeOK

(* What the calls about one subscriber do. *)
LEMMA Subscribed ==
  ASSUME SubscriptionTypeOK, NEW t \in Subscribers, NEW p \in DOMAIN packages, Subscribe(t, p)
  PROVE  /\ SubscriptionTypeOK' /\ UNCHANGED <<packages, versions, usage>>
         /\ \E v \in VersionsOf(p) :
              contracts'[t] = [active |-> TRUE, package |-> p, number |-> versions[v].number,
                               ents |-> versions[v].snapshot]
         /\ \A s \in Subscribers : /\ s # t => contracts'[s] = contracts[s]
                                   /\ allowed[s] \subseteq allowed'[s]
         /\ contracts'[t].ents.limit \in allowed'[t]
<1>1. PICK v \in VersionsOf(p) :
        /\ contracts' = [contracts EXCEPT ![t] =
             [active |-> TRUE, package |-> p, number |-> versions[v].number,
              ents |-> versions[v].snapshot]]
        /\ allowed' = [allowed EXCEPT ![t] = @ \cup {versions[v].snapshot.limit}]
  BY DEF Subscribe
<1> DEFINE new == [active |-> TRUE, package |-> p, number |-> versions[v].number,
                   ents |-> versions[v].snapshot]
<1>2. versions[v] \in PackageVersion /\ p \in Nat
  BY DEF VersionsOf, SubscriptionTypeOK
<1>3. new \in Contract
  BY <1>2 DEF PackageVersion, Contract
<1>4. contracts' = [contracts EXCEPT ![t] = new]
  BY <1>1
<1>5. contracts \in [Subscribers -> {NoContract} \cup Contract]
      /\ UNCHANGED <<packages, versions, usage>>
  BY DEF SubscriptionTypeOK, Subscribe
<1>6. /\ contracts' \in [Subscribers -> {NoContract} \cup Contract]
      /\ contracts'[t] = new
      /\ \A s \in Subscribers : s # t => contracts'[s] = contracts[s]
  <2> HIDE DEF new
  <2> QED BY <1>3, <1>4, <1>5
<1>7. allowed \in [Subscribers -> SUBSET Limits] /\ versions[v].snapshot.limit \in Limits
  BY <1>2 DEF SubscriptionTypeOK, PackageVersion, Entitlements
<1>8. /\ allowed' \in [Subscribers -> SUBSET Limits]
      /\ versions[v].snapshot.limit \in allowed'[t]
      /\ \A s \in Subscribers : allowed[s] \subseteq allowed'[s]
  BY <1>1, <1>7
<1>9. contracts'[t].ents = versions[v].snapshot
  BY <1>6
<1> HIDE DEF new
<1>10. SubscriptionTypeOK'
  BY <1>5, <1>6, <1>8 DEF SubscriptionTypeOK
<1> QED BY <1>5, <1>6, <1>8, <1>9, <1>10 DEF new

LEMMA Cancelled ==
  ASSUME SubscriptionTypeOK, NEW t \in Subscribers, Cancel(t)
  PROVE  /\ SubscriptionTypeOK' /\ UNCHANGED <<packages, versions, usage, allowed>>
         /\ contracts'[t] = NoContract
         /\ \A s \in Subscribers : s # t => contracts'[s] = contracts[s]
BY DEF SubscriptionTypeOK, Cancel

LEMMA UsageCounted ==
  ASSUME SubscriptionTypeOK, NEW t \in Subscribers, IncrementAndCheck(t)
  PROVE  /\ SubscriptionTypeOK' /\ UNCHANGED <<packages, versions, contracts, allowed>>
         /\ contracts[t].active
         /\ contracts[t].ents.limit = NoLimit \/ ~(usage[t] >= contracts[t].ents.limit)
         /\ usage'[t] = usage[t] + 1
         /\ \A s \in Subscribers : s # t => usage'[s] = usage[s]
<1>1. usage \in [Subscribers -> Nat] /\ usage' = [usage EXCEPT ![t] = usage[t] + 1]
      /\ UNCHANGED <<packages, versions, contracts, allowed>>
  BY DEF SubscriptionTypeOK, IncrementAndCheck
<1>2. usage' \in [Subscribers -> Nat] /\ usage'[t] = usage[t] + 1
      /\ \A s \in Subscribers : s # t => usage'[s] = usage[s]
  BY <1>1
<1>3. SubscriptionTypeOK'
  BY <1>1, <1>2 DEF SubscriptionTypeOK
<1>4. /\ contracts[t].active
      /\ contracts[t].ents.limit = NoLimit \/ ~(usage[t] >= contracts[t].ents.limit)
  BY Zenon DEF IncrementAndCheck, HardLimitReached
<1> QED BY <1>1, <1>2, <1>3, <1>4

LEMMA UsageReset ==
  ASSUME SubscriptionTypeOK, NEW t \in Subscribers, ResetUsage(t)
  PROVE  /\ SubscriptionTypeOK' /\ UNCHANGED <<packages, versions, contracts>>
         /\ usage'[t] = 0 /\ (contracts[t].active => contracts[t].ents.limit \in allowed'[t])
         /\ \A s \in Subscribers : s # t => usage'[s] = usage[s] /\ allowed'[s] = allowed[s]
<1>1. PICK kept : kept = IF contracts[t].active THEN {contracts[t].ents.limit} ELSE {}
  OBVIOUS
<1>2. kept \in SUBSET Limits
  <2>1. contracts[t] \in {NoContract} \cup Contract
    BY DEF SubscriptionTypeOK
  <2>2. contracts[t].active => contracts[t] \in Contract
    BY <2>1 DEF NoContract
  <2> QED BY <1>1, <2>2 DEF Contract, Entitlements
<1>3. /\ usage' = [usage EXCEPT ![t] = 0] /\ allowed' = [allowed EXCEPT ![t] = kept]
      /\ UNCHANGED <<packages, versions, contracts>>
  BY <1>1 DEF ResetUsage
<1>4. /\ usage' \in [Subscribers -> Nat] /\ allowed' \in [Subscribers -> SUBSET Limits]
      /\ usage'[t] = 0 /\ allowed'[t] = kept
      /\ \A s \in Subscribers : s # t => usage'[s] = usage[s] /\ allowed'[s] = allowed[s]
  BY <1>2, <1>3 DEF SubscriptionTypeOK
<1>5. SubscriptionTypeOK'
  BY <1>3, <1>4 DEF SubscriptionTypeOK
<1> QED BY <1>1, <1>3, <1>4, <1>5

(* Packages, versions, contracts and counters keep their types; a version
   belongs to a package that exists.                                       *)
THEOREM SubscriptionsTypeCorrect == SubscriptionSpec => []SubscriptionTypeOK
<1>1. SubscriptionInit => SubscriptionTypeOK
  BY DEF SubscriptionInit, SubscriptionTypeOK
<1>2. SubscriptionTypeOK /\ [SubscriptionNext]_subscriptionVars => SubscriptionTypeOK'
  <2> SUFFICES ASSUME SubscriptionTypeOK, [SubscriptionNext]_subscriptionVars
               PROVE  SubscriptionTypeOK'
    OBVIOUS
  <2>1. CASE UNCHANGED subscriptionVars
    BY <2>1 DEF subscriptionVars, SubscriptionTypeOK
  <2> QED BY <2>1, PackageCreated, PackageUpdated, PackageDeprecated, Subscribed, Cancelled,
             UsageCounted, UsageReset DEF SubscriptionNext
<1> QED BY <1>1, <1>2, PTL DEF SubscriptionSpec

-----------------------------------------------------------------------------
(* What was sold can be looked up.                                         *)

Current ==
  \A p \in DOMAIN packages, v \in DOMAIN versions :
    IsLatest(v, p) => SameGrants(versions[v].snapshot, packages[p].ents)

LEMMA CurrentIsLatest == LatestVersionIsCurrent <=> Current
BY DEF LatestVersionIsCurrent, Current, SameGrants

(* The old versions of each package are there still; the new one is the
   latest of its own.                                                      *)
LEMMA VersionsAfter ==
  ASSUME SubscriptionTypeOK, NEW p, NEW number \in Nat, NEW ents, VersionAdded(p, number, ents)
  PROVE  /\ \A q : q # p => VersionsOf(q)' = VersionsOf(q)
         /\ VersionsOf(p)' = VersionsOf(p) \cup {Len(versions) + 1}
         /\ \A v : IsLatest(v, p)' => v = Len(versions) + 1
         /\ \A q, v : q # p /\ IsLatest(v, q)' => IsLatest(v, q)
<1>1. /\ DOMAIN versions' = DOMAIN versions \cup {Len(versions) + 1}
      /\ \A v \in DOMAIN versions : versions'[v] = versions[v]
      /\ versions'[Len(versions) + 1].package = p
      /\ versions'[Len(versions) + 1].number = number
      /\ \A v \in VersionsOf(p) : versions[v].number < number
  BY DEF VersionAdded, Version
<1>2. \A q : q # p => VersionsOf(q)' = VersionsOf(q)
  BY <1>1 DEF VersionsOf
<1>3. VersionsOf(p)' = VersionsOf(p) \cup {Len(versions) + 1}
  BY <1>1 DEF VersionsOf
<1>4. ASSUME NEW v, IsLatest(v, p)' PROVE v = Len(versions) + 1
  <2>1. v \in VersionsOf(p)' /\ versions'[Len(versions) + 1].number <= versions'[v].number
    BY <1>3, <1>4 DEF IsLatest
  <2>2. \A w \in DOMAIN versions : versions[w].number \in Nat
    <3>1. \A w \in DOMAIN versions : versions[w] \in PackageVersion
      BY DEF SubscriptionTypeOK
    <3> QED BY <3>1 DEF PackageVersion
  <2>3. v \in VersionsOf(p) => versions'[v].number = versions[v].number /\ v \in DOMAIN versions
    BY <1>1 DEF VersionsOf
  <2> QED BY <1>1, <1>3, <2>1, <2>2, <2>3
<1>5. ASSUME NEW q, NEW v, q # p, IsLatest(v, q)' PROVE IsLatest(v, q)
  <2>1. v \in VersionsOf(q) /\ \A w \in VersionsOf(q) : versions'[w].number <= versions'[v].number
    BY <1>2, <1>5 DEF IsLatest
  <2>2. \A w \in VersionsOf(q) : versions'[w] = versions[w]
    BY <1>1 DEF VersionsOf
  <2> QED BY <2>1, <2>2 DEF IsLatest
<1> QED BY <1>2, <1>3, <1>4, <1>5

(* A new version goes behind the others. *)
LEMMA NumberingHolds ==
  ASSUME SubscriptionTypeOK, NEW p, NEW number \in Nat, NEW ents, VersionAdded(p, number, ents),
         VersionsAreNumbered
  PROVE  VersionsAreNumbered'
<1>1. SUFFICES ASSUME NEW v \in DOMAIN versions', NEW w \in DOMAIN versions',
                      versions'[v].package = versions'[w].package, v < w
               PROVE  versions'[v].number < versions'[w].number
  BY DEF VersionsAreNumbered
<1>2. v \in DOMAIN versions
  <2>1. \A x \in DOMAIN versions : x < Len(versions) + 1
    BY DEF VersionAdded
  <2>2. Len(versions) + 1 \in Nat /\ \A x \in DOMAIN versions : x \in Nat
    BY DEF SubscriptionTypeOK
  <2> QED BY <1>1, <2>1, <2>2 DEF VersionAdded
<1>3. CASE w \in DOMAIN versions
  BY <1>1, <1>2, <1>3 DEF VersionAdded, VersionsAreNumbered
<1>4. CASE w = Len(versions) + 1
  BY <1>1, <1>2, <1>4 DEF VersionAdded, Version, VersionsOf
<1> QED BY <1>3, <1>4 DEF VersionAdded

(* A contract names an old version, whose number the new one does not have. *)
LEMMA ContractsHold ==
  ASSUME SubscriptionTypeOK, NEW p, NEW number \in Nat, NEW ents, VersionAdded(p, number, ents),
         ContractsAreHonoured, UNCHANGED contracts
  PROVE  ContractsAreHonoured'
<1> SUFFICES ASSUME NEW t \in Subscribers, contracts[t].active
             PROVE  /\ \E v \in VersionsOf(contracts[t].package)' :
                          /\ versions'[v].number = contracts[t].number
                          /\ versions'[v].snapshot = contracts[t].ents
                    /\ \A v \in VersionsOf(contracts[t].package)' :
                          versions'[v].number = contracts[t].number =>
                            versions'[v].snapshot = contracts[t].ents
  BY DEF ContractsAreHonoured
<1>0. PICK q : q = contracts[t].package
  OBVIOUS
<1>1. PICK v \in VersionsOf(q) :
        versions[v].number = contracts[t].number /\ versions[v].snapshot = contracts[t].ents
  BY <1>0 DEF ContractsAreHonoured
<1>2. \A w \in VersionsOf(q) :
        versions[w].number = contracts[t].number => versions[w].snapshot = contracts[t].ents
  BY <1>0 DEF ContractsAreHonoured
<1>3. \A w \in VersionsOf(q) : versions'[w] = versions[w]
  BY DEF VersionAdded, VersionsOf
<1>4. versions[v].number \in Nat
  <2>1. v \in DOMAIN versions
    BY DEF VersionsOf
  <2>2. versions[v] \in PackageVersion
    BY <2>1 DEF SubscriptionTypeOK
  <2> QED BY <2>2 DEF PackageVersion
<1>5. q = p => versions'[Len(versions) + 1].number # versions[v].number
  BY <1>4 DEF VersionAdded, Version
<1>6. \A w \in VersionsOf(q)' : w \in VersionsOf(q) \/ (q = p /\ w = Len(versions) + 1)
  <2>1. VersionsOf(p)' = VersionsOf(p) \cup {Len(versions) + 1}
    BY VersionsAfter
  <2>2. \A r : r # p => VersionsOf(r)' = VersionsOf(r)
    BY VersionsAfter
  <2>3. CASE q = p
    BY <2>1, <2>3 DEF VersionsOf
  <2>4. CASE q # p
    BY <2>2, <2>4
  <2> QED BY <2>3, <2>4
<1>7. v \in VersionsOf(q)'
  BY VersionsAfter
<1>8. \A w \in VersionsOf(q)' :
        versions'[w].number = contracts[t].number => versions'[w].snapshot = contracts[t].ents
  BY <1>1, <1>2, <1>3, <1>5, <1>6
<1> QED BY <1>0, <1>1, <1>3, <1>7, <1>8

(* The limit of a contract is among those that its subscriber has had. *)
ContractsAllow ==
  \A t \in Subscribers : contracts[t].active => contracts[t].ents.limit \in allowed[t]

(* A subscriber within the limit of its contract uses what that allows. *)
LEMMA CountedUsageWasSold ==
  ASSUME SubscriptionTypeOK, NEW t \in Subscribers, IncrementAndCheck(t),
         ContractsAllow, UsageWasSold
  PROVE  UsageWasSold'
<1>1. PICK limit : limit = contracts[t].ents.limit
  OBVIOUS
<1>2. limit \in allowed[t] /\ limit \in Nat \cup {NoLimit}
  <2>1. limit \in allowed[t]
    BY <1>1, UsageCounted DEF ContractsAllow
  <2>2. allowed[t] \subseteq Limits
    BY DEF SubscriptionTypeOK
  <2> QED BY <2>1, <2>2, SubscriptionAssumption
<1>3. usage[t] \in Nat
  BY DEF SubscriptionTypeOK
<1>4. limit = NoLimit \/ usage'[t] <= limit
  BY <1>1, <1>2, <1>3, UsageCounted
<1> QED BY <1>2, <1>4, UsageCounted DEF UsageWasSold

(* A new contract is that of the version it names. *)
LEMMA NewContractHolds ==
  ASSUME SubscriptionTypeOK, NEW t \in Subscribers, NEW p \in DOMAIN packages, Subscribe(t, p),
         VersionsAreNumbered, ContractsAreHonoured
  PROVE  ContractsAreHonoured'
<1>1. PICK v \in VersionsOf(p) :
        contracts'[t] = [active |-> TRUE, package |-> p, number |-> versions[v].number,
                         ents |-> versions[v].snapshot]
  BY Subscribed
<1>2. \A w \in VersionsOf(p) : versions[w].number = versions[v].number => w = v
  <2>1. ASSUME NEW w \in VersionsOf(p), versions[w].number = versions[v].number, w # v
        PROVE  FALSE
    <3>1. /\ v \in DOMAIN versions /\ w \in DOMAIN versions
          /\ versions[v].package = versions[w].package
      BY DEF VersionsOf
    <3>2. v \in Nat /\ w \in Nat
      BY <3>1 DEF SubscriptionTypeOK
    <3>3. versions[v].number < versions[w].number \/ versions[w].number < versions[v].number
      BY <2>1, <3>1, <3>2 DEF VersionsAreNumbered
    <3>4. versions[v] \in PackageVersion
      BY <3>1 DEF SubscriptionTypeOK
    <3> QED BY <2>1, <3>3, <3>4 DEF PackageVersion
  <2> QED BY <2>1
<1>3. versions' = versions /\ \A s \in Subscribers : s # t => contracts'[s] = contracts[s]
  BY Subscribed
<1>4. \A q : VersionsOf(q)' = VersionsOf(q)
  BY <1>3 DEF VersionsOf
<1> QED BY <1>1, <1>2, <1>3, <1>4 DEF ContractsAreHonoured

(* Whatever is updated, deprecated, sold, cancelled and used, in any order: the
   latest version grants what its package grants, contracts are those of the
   versions they name, and the usage of a subscriber is within what some
   contract of theirs allowed since the last reset (SubscriptionPackageService,
   UsageLimitEnforcementService).                                          *)
THEOREM EntitlementsAreRecorded == SubscriptionSpec => []VersionsRecordEntitlements
<1> DEFINE Inv == /\ VersionsAreNumbered /\ Current /\ ContractsAreHonoured
                  /\ UsageWasSold /\ ContractsAllow
<1>1. Inv => VersionsRecordEntitlements
  BY CurrentIsLatest DEF VersionsRecordEntitlements
<1>2. SubscriptionInit => Inv
  BY DEF SubscriptionInit, NoContract, VersionsAreNumbered, Current, ContractsAreHonoured,
         UsageWasSold, ContractsAllow
<1>3. SubscriptionTypeOK /\ Inv /\ [SubscriptionNext]_subscriptionVars => Inv'
  <2> SUFFICES ASSUME SubscriptionTypeOK, Inv, [SubscriptionNext]_subscriptionVars
               PROVE  Inv'
    OBVIOUS
  <2>1. ASSUME NEW name \in Names, NEW ents \in Entitlements, CreatePackage(name, ents)
        PROVE  Inv'
    <3>0. PICK p : p = Len(packages) + 1
      OBVIOUS
    <3>1. VersionAdded(p, 1, ents) /\ UNCHANGED <<contracts, usage, allowed>>
      BY <2>1, <3>0, PackageCreated
    <3>2. /\ VersionsAreNumbered' /\ ContractsAreHonoured'
          /\ UsageWasSold' /\ ContractsAllow'
      BY <3>1, NumberingHolds, ContractsHold DEF UsageWasSold, ContractsAllow
    <3>3. versions'[Len(versions) + 1].snapshot = ents /\ SameGrants(ents, ents)
      BY <3>1 DEF VersionAdded, Version, SameGrants
    <3>4. /\ packages'[p].ents = ents /\ DOMAIN packages' = DOMAIN packages \cup {p}
          /\ \A q \in DOMAIN packages : q # p /\ packages'[q] = packages[q]
      BY <2>1, <3>0, PackageCreated
    <3>5. \A v \in DOMAIN versions : versions'[v] = versions[v]
      BY <3>1 DEF VersionAdded
    <3>6. \A v : IsLatest(v, p)' => v = Len(versions) + 1
      BY <3>1, VersionsAfter
    <3>7. \A q, v : q # p /\ IsLatest(v, q)' => IsLatest(v, q) /\ v \in DOMAIN versions
      BY <3>1, VersionsAfter DEF IsLatest, VersionsOf
    <3>8. Current'
      BY <3>3, <3>4, <3>5, <3>6, <3>7 DEF Current
    <3> QED BY <3>2, <3>8
  <2>2. ASSUME NEW p \in DOMAIN packages, NEW name \in Names, NEW ents \in Entitlements,
               UpdatePackage(p, name, ents)
        PROVE  Inv'
    <3>1. /\ packages'[p].ents = ents /\ DOMAIN packages' = DOMAIN packages
          /\ \A q \in DOMAIN packages : q # p => packages'[q] = packages[q]
          /\ UNCHANGED <<contracts, usage, allowed>>
      BY <2>2, PackageUpdated
    <3>2. CASE UNCHANGED versions /\ SameGrants(packages[p].ents, ents)
      <4>1. /\ VersionsAreNumbered' /\ ContractsAreHonoured'
            /\ UsageWasSold' /\ ContractsAllow'
        BY <3>1, <3>2 DEF VersionsAreNumbered, ContractsAreHonoured, UsageWasSold,
                          ContractsAllow, VersionsOf
      <4>2. \A q, v : IsLatest(v, q)' <=> IsLatest(v, q)
        BY <3>2 DEF IsLatest, VersionsOf
      <4>3. ASSUME NEW v \in DOMAIN versions, IsLatest(v, p)
            PROVE  SameGrants(versions[v].snapshot, ents)
        BY <3>2, <4>3, SameGrantsTransitive DEF Current
      <4>4. Current'
        BY <3>1, <3>2, <4>2, <4>3 DEF Current
      <4> QED BY <4>1, <4>4
    <3>3. ASSUME NEW number \in Nat, VersionAdded(p, number, ents)
          PROVE  Inv'
      <4>1. /\ VersionsAreNumbered' /\ ContractsAreHonoured'
            /\ UsageWasSold' /\ ContractsAllow'
        BY <3>1, <3>3, NumberingHolds, ContractsHold DEF UsageWasSold, ContractsAllow
      <4>2. versions'[Len(versions) + 1].snapshot = ents /\ SameGrants(ents, ents)
        BY <3>3 DEF VersionAdded, Version, SameGrants
      <4>3. \A v \in DOMAIN versions : versions'[v] = versions[v]
        BY <3>3 DEF VersionAdded
      <4>4. \A v : IsLatest(v, p)' => v = Len(versions) + 1
        BY <3>3, VersionsAfter
      <4>5. \A q, v : q # p /\ IsLatest(v, q)' => IsLatest(v, q) /\ v \in DOMAIN versions
        BY <3>3, VersionsAfter DEF IsLatest, VersionsOf
      <4>6. Current'
        BY <3>1, <4>2, <4>3, <4>4, <4>5 DEF Current
      <4> QED BY <4>1, <4>6
    <3> QED BY <2>2, <3>2, <3>3, PackageUpdated
  <2>3. ASSUME NEW p \in DOMAIN packages, DeprecatePackage(p)
        PROVE  Inv'
    <3>1. /\ DOMAIN packages' = DOMAIN packages /\ UNCHANGED <<versions, contracts, usage, allowed>>
          /\ \A q \in DOMAIN packages : packages'[q].ents = packages[q].ents
      BY <2>3, PackageDeprecated
    <3> QED BY <3>1 DEF VersionsAreNumbered, Current, ContractsAreHonoured, UsageWasSold,
                        ContractsAllow, IsLatest, VersionsOf
  <2>4. ASSUME NEW t \in Subscribers, NEW p \in DOMAIN packages, Subscribe(t, p)
        PROVE  Inv'
    <3>1. ContractsAreHonoured'
      BY <2>4, NewContractHolds
    <3>2. /\ UNCHANGED <<packages, versions, usage>>
          /\ \A s \in Subscribers : /\ s # t => contracts'[s] = contracts[s]
                                    /\ allowed[s] \subseteq allowed'[s]
          /\ contracts'[t].ents.limit \in allowed'[t]
      BY <2>4, Subscribed
    <3>3. UsageWasSold' /\ ContractsAllow'
      BY <3>2 DEF UsageWasSold, ContractsAllow
    <3> QED BY <3>1, <3>2, <3>3 DEF VersionsAreNumbered, Current, IsLatest, VersionsOf
  <2>5. ASSUME NEW t \in Subscribers, Cancel(t)
        PROVE  Inv'
    <3>1. /\ UNCHANGED <<packages, versions, usage, allowed>> /\ ~contracts'[t].active
          /\ \A s \in Subscribers : s # t => contracts'[s] = contracts[s]
      BY <2>5, Cancelled DEF NoContract
    <3> QED BY <3>1 DEF VersionsAreNumbered, Current, ContractsAreHonoured, UsageWasSold,
                        ContractsAllow, IsLatest, VersionsOf
  <2>6. ASSUME NEW t \in Subscribers, IncrementAndCheck(t)
        PROVE  Inv'
    <3>1. UsageWasSold' /\ UNCHANGED <<packages, versions, contracts, allowed>>
      BY <2>6, CountedUsageWasSold, UsageCounted
    <3> QED BY <3>1 DEF VersionsAreNumbered, Current, ContractsAreHonoured, ContractsAllow,
                        IsLatest, VersionsOf
  <2>7. ASSUME NEW t \in Subscribers, ResetUsage(t)
        PROVE  Inv'
    <3>1. /\ UNCHANGED <<packages, versions, contracts>> /\ usage'[t] = 0
          /\ contracts[t].active => contracts[t].ents.limit \in allowed'[t]
          /\ \A s \in Subscribers : s # t => usage'[s] = usage[s] /\ allowed'[s] = allowed[s]
      BY <2>7, UsageReset
    <3> QED BY <3>1 DEF VersionsAreNumbered, Current, ContractsAreHonoured, UsageWasSold,
                        ContractsAllow, IsLatest, VersionsOf
  <2>8. CASE UNCHANGED subscriptionVars
    BY <2>8 DEF subscriptionVars, VersionsAreNumbered, Current, ContractsAreHonoured,
                UsageWasSold, ContractsAllow, IsLatest, VersionsOf
  <2> HIDE DEF Inv
  <2> QED BY <2>1, <2>2, <2>3, <2>4, <2>5, <2>6, <2>7, <2>8 DEF SubscriptionNext
<1>4. SubscriptionSpec => []Inv
  <2> HIDE DEF Inv
  <2> QED BY <1>2, <1>3, SubscriptionsTypeCorrect, PTL DEF SubscriptionSpec
<1> HIDE DEF Inv
<1> QED BY <1>1, <1>4, PTL

-----------------------------------------------------------------------------
(* Loyalty.                                                                *)

(* The largest of some numbers, and the larger of two.                     *)
LEMMA MaxIs ==
  ASSUME NEW S, S \subseteq Int, NEW m \in S, \A y \in S : m >= y
  PROVE  Max(S) = m
  <1> DEFINE IsMax(x) == \A y \in S : x >= y
  <1>1. Max(S) = CHOOSE x \in S : IsMax(x)
    BY DEF Max
  <1>2. Max(S) \in S /\ IsMax(Max(S))
    <2>1. \E x \in S : IsMax(x)
      OBVIOUS
    <2> HIDE DEF IsMax
    <2> QED
      BY <1>1, <2>1, Zenon
  <1>3. m >= Max(S) /\ Max(S) >= m /\ Max(S) \in Int /\ m \in Int
    BY <1>2
  <1> HIDE DEF IsMax
  <1> QED
    BY <1>3

LEMMA MaxOfTwo ==
  ASSUME NEW x \in Int
  PROVE  Max({x, 0}) = IF x >= 0 THEN x ELSE 0
  <1>1. CASE x >= 0
    BY <1>1, MaxIs
  <1>2. CASE ~(x >= 0)
    BY <1>2, MaxIs
  <1> QED
    BY <1>1, <1>2

(* The largest of some positions of a list. *)
LEMMA MaxMember ==
  ASSUME NEW n \in Nat, NEW S, S \subseteq 1..n, S # {}
  PROVE  Max(S) \in S /\ \A y \in S : y <= Max(S)
  <1> DEFINE B == {n - x : x \in S}
  <1>1. PICK k \in B : \A j \in B : ~(j < k)
    <2>1. B \subseteq Nat
      <3>1. \A x \in 1..n : n - x \in Nat
        OBVIOUS
      <3> QED
        BY <3>1
    <2>2. B # {}
      OBVIOUS
    <2> HIDE DEF B
    <2> QED
      BY <2>1, <2>2, SmallestNumber
  <1>2. PICK m \in S : k = n - m
    OBVIOUS
  <1>3. \A y \in S : m >= y
    <2> SUFFICES ASSUME NEW y \in S
                 PROVE  m >= y
      OBVIOUS
    <2>1. n - y \in B
      OBVIOUS
    <2>2. ~(n - y < n - m)
      BY <1>1, <1>2, <2>1
    <2> QED
      BY <2>2
  <1>4. Max(S) = m
    <2>1. S \subseteq Int
      OBVIOUS
    <2> QED
      BY <1>3, <2>1, MaxIs
  <1> QED
    BY <1>3, <1>4

(* The smallest of some numbers. *)
LEMMA MinIsNumber ==
  ASSUME NEW S, S \subseteq Nat, S # {}
  PROVE  Min(S) \in Nat
  <1> DEFINE IsMin(x) == \A y \in S : x =< y
  <1>1. Min(S) = CHOOSE x \in S : IsMin(x)
    BY DEF Min
  <1>2. \E x \in S : IsMin(x)
    <2>1. PICK n \in S : \A m \in S : ~(m < n)
      BY SmallestNumber
    <2> QED
      BY <2>1
  <1> HIDE DEF IsMin
  <1> QED
    BY <1>1, <1>2, Zenon

(* An element of a list. *)
LEMMA ElementAt ==
  ASSUME NEW S, NEW s \in Seq(S), NEW i \in DOMAIN s
  PROVE  s[i] \in S
  OBVIOUS

(* The tier of an account is one of the four. *)
LEMMA TierIsTier ==
  ASSUME NEW lifetime \in Int, NEW tiers \in Seq([name: Tiers, threshold: Int])
  PROVE  TierFor(lifetime, tiers) \in Tiers
  <1> DEFINE met == {i \in DOMAIN tiers : lifetime >= tiers[i].threshold}
  <1>1. CASE met = {}
    BY <1>1 DEF TierFor, Tiers
  <1>2. CASE met # {}
    <2>1. Max(met) \in met
      <3>1. Len(tiers) \in Nat /\ met \subseteq 1..Len(tiers)
        OBVIOUS
      <3> HIDE DEF met
      <3> QED
        BY <1>2, <3>1, MaxMember
    <2>2. tiers[Max(met)] \in [name: Tiers, threshold: Int]
      <3>1. Max(met) \in DOMAIN tiers
        BY <2>1
      <3> HIDE DEF met
      <3> QED
        BY <3>1, ElementAt
    <2> QED
      BY <1>2, <2>2 DEF TierFor
  <1> QED
    BY <1>1, <1>2

(* The program of a tenant, and what it awards for an order. *)
LEMMA ProgramIsTyped ==
  ASSUME LoyaltyTypeOK, NEW t \in Tenants
  PROVE  ProgramOf(t) \in Program
  <1>1. DefaultProgram \in Program
    <2> DEFINE T == [name: Tiers, threshold: Int]
    <2>1. DefaultProgram.tiers \in Seq(T)
      BY DEF DefaultProgram, Tiers
    <2> QED
      BY <2>1 DEF DefaultProgram, Program
  <1> QED
    BY <1>1, LoyaltyAssumption DEF ProgramOf, LoyaltyTypeOK

LEMMA ProgramKept ==
  ASSUME LoyaltyTypeOK, NEW t \in Tenants, KeepProgram(t)
  PROVE  /\ DOMAIN configs' \subseteq Tenants
         /\ \A u \in DOMAIN configs' : configs'[u] \in Programs \cup {DefaultProgram}
  BY DEF LoyaltyTypeOK, KeepProgram, ProgramOf

LEMMA PointsAreInt ==
  ASSUME NEW cents \in Int, NEW p \in Program
  PROVE  PointsForOrder(cents, p) \in Int
  <1>1. p.perDollar \in Int /\ p.perOrder \in Int /\ cents \div 100 \in Int
    BY DEF Program
  <1>2. (cents \div 100) * p.perDollar \in Int
    <2> SUFFICES ASSUME NEW x \in Int, NEW y \in Int
                 PROVE  x * y \in Int
      BY <1>1
    <2> QED
      OBVIOUS
  <1> QED
    BY <1>1, <1>2 DEF PointsForOrder

-----------------------------------------------------------------------------
(* What the steps do to the ledger: they append entries, of one account each. *)

(* The entries that a step appends to the ledger l, making it k. *)
Appended(l, k, n) ==
  /\ k \in Seq(Entry) /\ Len(k) = Len(l) + n
  /\ \A i \in DOMAIN l : k[i] = l[i]

LEMMA OneAppended ==
  ASSUME NEW l \in Seq(Entry), NEW e \in Entry
  PROVE  /\ Appended(l, Append(l, e), 1)
         /\ Append(l, e)[Len(l) + 1] = e
  BY DEF Appended

LEMMA SomeAppended ==
  ASSUME NEW l \in Seq(Entry), NEW n \in Nat, NEW f \in [1..n -> Entry]
  PROVE  /\ Appended(l, l \o f, n)
         /\ \A k \in 1..n : (l \o f)[Len(l) + k] = f[k]
  BY DEF Appended

LEMMA EntryIsTyped ==
  ASSUME LoyaltyTypeOK, NEW a \in Account, NEW points \in Int, NEW expires \in Int \cup {Never},
         NEW type \in {"earn", "redeem", "expire", "adjust"}
  PROVE  EntryFor(a, type, points, expires) \in Entry
  BY DEF EntryFor, Entry, LoyaltyTypeOK

(* Points that are awarded or taken by an adjustment. *)
LEMMA CreditCredits ==
  ASSUME LoyaltyTypeOK, NEW a \in Account, NEW points \in Int, Credit(a, points),
         accounts[a].balance + points >= 0
  PROVE  /\ accounts' \in [Account -> [balance: Nat, lifetime: Nat, tier: Tiers]]
         /\ accounts'[a].balance = accounts[a].balance + points
         /\ accounts'[a].lifetime
              = accounts[a].lifetime + (IF points >= 0 THEN points ELSE 0)
         /\ \A b \in Account \ {a} : accounts'[b] = accounts[b]
  <1> DEFINE lifetime == accounts[a].lifetime + Max({points, 0})
             tier     == TierFor(lifetime, ProgramOf(a[1]).tiers)
             new      == [balance |-> accounts[a].balance + points,
                          lifetime |-> lifetime, tier |-> tier]
  <1>1. accounts[a].balance \in Nat /\ accounts[a].lifetime \in Nat
    BY DEF LoyaltyTypeOK
  <1>2. lifetime = accounts[a].lifetime + (IF points >= 0 THEN points ELSE 0)
        /\ lifetime \in Nat
    BY <1>1, MaxOfTwo
  <1>3. tier \in Tiers
    <2>1. a[1] \in Tenants
      BY DEF Account
    <2>2. ProgramOf(a[1]).tiers \in Seq([name: Tiers, threshold: Int])
      BY <2>1, ProgramIsTyped DEF Program
    <2>3. lifetime \in Int
      BY <1>2
    <2> HIDE DEF lifetime
    <2> QED
      BY <2>2, <2>3, TierIsTier, Zenon
  <1>4. accounts' = [accounts EXCEPT ![a] = new]
    BY DEF Credit
  <1> HIDE DEF lifetime, tier
  <1>5. new \in [balance: Nat, lifetime: Nat, tier: Tiers]
    BY <1>1, <1>2, <1>3
  <1> QED
    BY <1>2, <1>4, <1>5 DEF LoyaltyTypeOK

(* What an account loses by an expiration, and what it has left. *)
EarnedIsPositive == \A i \in DOMAIN ledger : ledger[i].type = "earn" => ledger[i].points > 0

LEMMA LedgerPoints ==
  ASSUME LoyaltyTypeOK, NEW is, is \subseteq DOMAIN ledger
  PROVE  /\ IsFiniteSet(is) /\ PointsOf(is) \in Int
         /\ (\A i \in is : ledger[i].points >= 0) => PointsOf(is) \in Nat
  <1>1. Len(ledger) \in Nat /\ DOMAIN ledger = 1..Len(ledger)
    BY DEF LoyaltyTypeOK
  <1>2. IsFiniteSet(is)
    <2>1. IsFiniteSet(1..Len(ledger))
      BY <1>1, FS_Interval
    <2> QED
      BY <1>1, <2>1, FS_Subset
  <1> DEFINE f == [i \in DOMAIN ledger |-> ledger[i].points]
  <1>3. \A i \in is : f[i] = ledger[i].points /\ f[i] \in Int
    <2> SUFFICES ASSUME NEW i \in is
                 PROVE  f[i] = ledger[i].points /\ f[i] \in Int
      OBVIOUS
    <2>1. ledger[i] \in Entry
      BY ElementAt DEF LoyaltyTypeOK
    <2> QED
      BY <2>1 DEF Entry
  <1>4. PointsOf(is) = SumFunctionOnSet(f, is)
    BY DEF PointsOf
  <1> HIDE DEF f
  <1>5. (\A i \in is : ledger[i].points >= 0) => \A i \in is : f[i] \in Nat
    BY <1>3
  <1> QED
    BY <1>2, <1>3, <1>4, <1>5, SumInt

LEMMA ExpirationLeaves ==
  ASSUME LoyaltyTypeOK, EarnedIsPositive, NEW a \in Account
  PROVE  /\ PointsToExpire(a) \in Nat
         /\ BalanceLeft(a) = Max({accounts[a].balance - PointsToExpire(a), 0})
         /\ BalanceLeft(a) \in Nat /\ BalanceLeft(a) <= accounts[a].balance
         /\ ExpireEntry(a) \in Entry
         /\ ExpireEntry(a).account = a /\ ExpireEntry(a).type = "expire"
         /\ ExpireEntry(a).points = -PointsToExpire(a)
         /\ ExpireEntry(a).balanceAfter = BalanceLeft(a)
  <1>1. /\ Expirable(a) \subseteq DOMAIN ledger
        /\ \A i \in Expirable(a) : ledger[i].points > 0
    BY DEF Expirable, EarnedIsPositive
  <1>2. \A i \in Expirable(a) : ledger[i].points >= 0
    <2> SUFFICES ASSUME NEW i \in Expirable(a)
                 PROVE  ledger[i].points >= 0
      OBVIOUS
    <2>1. ledger[i] \in Entry
      BY <1>1, ElementAt DEF LoyaltyTypeOK
    <2>2. ledger[i].points \in Int
      BY <2>1 DEF Entry
    <2> QED
      BY <1>1, <2>2
  <1>3. PointsToExpire(a) \in Nat
    BY <1>1, <1>2, LedgerPoints DEF PointsToExpire
  <1>4. accounts[a].balance \in Nat
    BY DEF LoyaltyTypeOK
  <1>5. BalanceLeft(a) \in Nat /\ BalanceLeft(a) <= accounts[a].balance
    BY <1>3, <1>4, MaxOfTwo DEF BalanceLeft
  <1>6. -PointsToExpire(a) \in Int /\ Never \in Int \cup {Never}
    BY <1>3
  <1> DEFINE entry == EntryFor(a, "expire", -PointsToExpire(a), Never)
  <1>7. entry \in Entry
    BY <1>6, EntryIsTyped
  <1>8. entry.account = a /\ entry.type = "expire" /\ entry.points = -PointsToExpire(a)
    BY DEF EntryFor
  <1>9. ExpireEntry(a) = [entry EXCEPT !.balanceAfter = BalanceLeft(a)]
    BY DEF ExpireEntry
  <1> HIDE DEF entry
  <1>10. /\ ExpireEntry(a) \in Entry
         /\ ExpireEntry(a).account = entry.account /\ ExpireEntry(a).type = entry.type
         /\ ExpireEntry(a).points = entry.points
         /\ ExpireEntry(a).balanceAfter = BalanceLeft(a)
    BY <1>5, <1>7, <1>9 DEF Entry
  <1> QED
    BY <1>3, <1>5, <1>8, <1>10 DEF BalanceLeft

(* The three kinds of steps: points move on one account, which a new entry
   records; points of some accounts expire; no points move.                *)
OneMoves(a) ==
  /\ Appended(ledger, ledger', 1)
  /\ LET e == ledger'[Len(ledger) + 1] IN
     /\ e.account = a /\ e.type \in {"earn", "redeem", "adjust"}
     /\ e.type = "earn" => e.points > 0
     /\ e.balanceAfter = accounts[a].balance + e.points
     /\ accounts'[a].balance = accounts[a].balance + e.points
     /\ accounts'[a].lifetime = accounts[a].lifetime
          + (IF e.type \in {"earn", "adjust"} /\ e.points >= 0 THEN e.points ELSE 0)
  /\ \A b \in Account \ {a} : accounts'[b] = accounts[b]

SomeExpire(n, order) ==
  /\ order \in [1..n -> Account]
  /\ \A j, k \in 1..n : j # k => order[j] # order[k]
  /\ Appended(ledger, ledger', n)
  /\ \A k \in 1..n : ledger'[Len(ledger) + k] = ExpireEntry(order[k])
  /\ accounts' = [a \in Account |->
       IF \E k \in 1..n : order[k] = a
       THEN [accounts[a] EXCEPT !.balance = BalanceLeft(a)] ELSE accounts[a]]

LoyaltyStep ==
  \/ UNCHANGED <<accounts, ledger>>
  \/ \E a \in Account : OneMoves(a)
  \/ \E n \in Nat : \E order : SomeExpire(n, order)

LEMMA AccumulateMoves ==
  ASSUME LoyaltyTypeOK, NEW a \in Account, NEW cents \in Totals, AccumulatePoints(a, cents)
  PROVE  LoyaltyTypeOK' /\ OneMoves(a)
  <1> DEFINE program == ProgramOf(a[1])
             points  == PointsForOrder(cents, program)
             expires == IF program.policy = "never" THEN Never ELSE day + program.days
             entry   == EntryFor(a, "earn", points, expires)
  <1>1. program \in Program /\ points \in Int /\ points > 0
    <2>1. a[1] \in Tenants /\ cents \in Int
      BY LoyaltyAssumption DEF Account
    <2>2. program \in Program
      BY <2>1, ProgramIsTyped
    <2> QED
      BY <2>1, <2>2, PointsAreInt DEF AccumulatePoints
  <1>2. expires \in Int \cup {Never}
    BY <1>1 DEF LoyaltyTypeOK, Program
  <1> HIDE DEF program, points, expires
  <1>3. entry \in Entry
    BY <1>1, <1>2, EntryIsTyped
  <1>4. /\ Credit(a, points) /\ ledger' = Append(ledger, entry) /\ UNCHANGED day
        /\ KeepProgram(a[1])
    BY DEF AccumulatePoints, program, points, expires
  <1>5. accounts[a].balance \in Nat /\ accounts[a].lifetime \in Nat
    BY DEF LoyaltyTypeOK
  <1>6. entry.account = a /\ entry.type = "earn" /\ entry.points = points
        /\ entry.balanceAfter = accounts[a].balance + points
    BY DEF EntryFor
  <1> HIDE DEF entry
  <1>7. /\ Appended(ledger, ledger', 1) /\ ledger'[Len(ledger) + 1] = entry
    BY <1>3, <1>4, OneAppended DEF LoyaltyTypeOK
  <1>8. /\ accounts' \in [Account -> [balance: Nat, lifetime: Nat, tier: Tiers]]
        /\ accounts'[a].balance = accounts[a].balance + points
        /\ accounts'[a].lifetime = accounts[a].lifetime + points
        /\ \A b \in Account \ {a} : accounts'[b] = accounts[b]
    BY <1>1, <1>4, <1>5, CreditCredits
  <1>9. LoyaltyTypeOK'
    <2>1. a[1] \in Tenants
      BY DEF Account
    <2>2. /\ DOMAIN configs' \subseteq Tenants
          /\ \A u \in DOMAIN configs' : configs'[u] \in Programs \cup {DefaultProgram}
      BY <1>4, <2>1, ProgramKept
    <2> QED
      BY <1>4, <1>7, <1>8, <2>2 DEF LoyaltyTypeOK, Appended
  <1> QED
    BY <1>1, <1>6, <1>7, <1>8, <1>9 DEF OneMoves

LEMMA AdjustMoves ==
  ASSUME LoyaltyTypeOK, NEW a \in Account, NEW points \in Adjustments, AdjustPoints(a, points)
  PROVE  LoyaltyTypeOK' /\ OneMoves(a)
  <1> DEFINE entry == EntryFor(a, "adjust", points, Never)
  <1>1. points \in Int /\ Never \in Int \cup {Never}
    BY LoyaltyAssumption
  <1>3. entry \in Entry
    BY <1>1, EntryIsTyped
  <1>4. /\ Credit(a, points) /\ ledger' = Append(ledger, entry) /\ UNCHANGED day
        /\ KeepProgram(a[1]) /\ accounts[a].balance + points >= 0
    BY DEF AdjustPoints
  <1>6. entry.account = a /\ entry.type = "adjust" /\ entry.points = points
        /\ entry.balanceAfter = accounts[a].balance + points
    BY DEF EntryFor
  <1> HIDE DEF entry
  <1>7. /\ Appended(ledger, ledger', 1) /\ ledger'[Len(ledger) + 1] = entry
    BY <1>3, <1>4, OneAppended DEF LoyaltyTypeOK
  <1>8. /\ accounts' \in [Account -> [balance: Nat, lifetime: Nat, tier: Tiers]]
        /\ accounts'[a].balance = accounts[a].balance + points
        /\ accounts'[a].lifetime
             = accounts[a].lifetime + (IF points >= 0 THEN points ELSE 0)
        /\ \A b \in Account \ {a} : accounts'[b] = accounts[b]
    BY <1>1, <1>4, CreditCredits
  <1>9. LoyaltyTypeOK'
    <2>1. a[1] \in Tenants
      BY DEF Account
    <2>2. /\ DOMAIN configs' \subseteq Tenants
          /\ \A u \in DOMAIN configs' : configs'[u] \in Programs \cup {DefaultProgram}
      BY <1>4, <2>1, ProgramKept
    <2> QED
      BY <1>4, <1>7, <1>8, <2>2 DEF LoyaltyTypeOK, Appended
  <1> QED
    BY <1>6, <1>7, <1>8, <1>9 DEF OneMoves

LEMMA RedeemMoves ==
  ASSUME LoyaltyTypeOK, NEW a \in Account, NEW points \in Redemptions, RedeemPoints(a, points)
  PROVE  LoyaltyTypeOK' /\ OneMoves(a)
  <1> DEFINE entry == EntryFor(a, "redeem", -points, Never)
  <1>1. points \in Int /\ -points \in Int /\ Never \in Int \cup {Never}
    BY LoyaltyAssumption
  <1>3. entry \in Entry
    BY <1>1, EntryIsTyped
  <1>4. /\ ledger' = Append(ledger, entry) /\ UNCHANGED day /\ KeepProgram(a[1])
        /\ accounts' = [accounts EXCEPT ![a].balance = @ - points]
        /\ points > 0 /\ accounts[a].balance >= points
    BY DEF RedeemPoints
  <1>5. accounts[a] \in [balance: Nat, lifetime: Nat, tier: Tiers]
    BY DEF LoyaltyTypeOK
  <1>6. entry.account = a /\ entry.type = "redeem" /\ entry.points = -points
        /\ entry.balanceAfter = accounts[a].balance - points
    BY <1>1, <1>5 DEF EntryFor
  <1> HIDE DEF entry
  <1>7. /\ Appended(ledger, ledger', 1) /\ ledger'[Len(ledger) + 1] = entry
    BY <1>3, <1>4, OneAppended DEF LoyaltyTypeOK
  <1>8. /\ accounts' \in [Account -> [balance: Nat, lifetime: Nat, tier: Tiers]]
        /\ accounts'[a].balance = accounts[a].balance - points
        /\ accounts'[a].lifetime = accounts[a].lifetime
        /\ \A b \in Account \ {a} : accounts'[b] = accounts[b]
    <2> DEFINE new == [accounts[a] EXCEPT !.balance = @ - points]
    <2>1. accounts[a].balance - points \in Nat
      BY <1>1, <1>4, <1>5
    <2>2. /\ new \in [balance: Nat, lifetime: Nat, tier: Tiers]
          /\ new.balance = accounts[a].balance - points
          /\ new.lifetime = accounts[a].lifetime
      BY <1>5, <2>1
    <2>3. accounts' = [accounts EXCEPT ![a] = new]
      BY <1>4
    <2> HIDE DEF new
    <2> QED
      BY <2>2, <2>3 DEF LoyaltyTypeOK
  <1>9. LoyaltyTypeOK'
    <2>1. a[1] \in Tenants
      BY DEF Account
    <2>2. /\ DOMAIN configs' \subseteq Tenants
          /\ \A u \in DOMAIN configs' : configs'[u] \in Programs \cup {DefaultProgram}
      BY <1>4, <2>1, ProgramKept
    <2> QED
      BY <1>4, <1>7, <1>8, <2>2 DEF LoyaltyTypeOK, Appended
  <1>10. entry.balanceAfter = accounts[a].balance + entry.points
         /\ accounts'[a].balance = accounts[a].balance + entry.points
    BY <1>1, <1>5, <1>6, <1>8
  <1>11. accounts'[a].lifetime = accounts[a].lifetime + 0
    BY <1>5, <1>8
  <1> QED
    BY <1>6, <1>7, <1>8, <1>9, <1>10, <1>11 DEF OneMoves

(* Accounts that expire are those of some entries, so finitely many. *)
LEMMA ExpireExpires ==
  ASSUME LoyaltyTypeOK, EarnedIsPositive, NEW n \in Nat, NEW order \in [1..n -> Account],
         \A j, k \in 1..n : j # k => order[j] # order[k], Expire(order)
  PROVE  LoyaltyTypeOK' /\ SomeExpire(n, order)
  <1>1. DOMAIN order = 1..n
    OBVIOUS
  <1> DEFINE f == [k \in 1..n |-> ExpireEntry(order[k])]
  <1>2. f \in [1..n -> Entry]
    BY ExpirationLeaves
  <1>3. ledger' = ledger \o f /\ UNCHANGED <<configs, day>>
        /\ accounts' = [a \in Account |->
             IF \E k \in 1..n : order[k] = a
             THEN [accounts[a] EXCEPT !.balance = BalanceLeft(a)] ELSE accounts[a]]
    BY <1>1 DEF Expire
  <1>4. \A k \in 1..n : f[k] = ExpireEntry(order[k])
    OBVIOUS
  <1> HIDE DEF f
  <1>5. /\ Appended(ledger, ledger', n)
        /\ \A k \in 1..n : ledger'[Len(ledger) + k] = ExpireEntry(order[k])
    BY <1>2, <1>3, <1>4, SomeAppended DEF LoyaltyTypeOK
  <1>6. accounts' \in [Account -> [balance: Nat, lifetime: Nat, tier: Tiers]]
    <2> SUFFICES ASSUME NEW a \in Account
                 PROVE  [accounts[a] EXCEPT !.balance = BalanceLeft(a)]
                          \in [balance: Nat, lifetime: Nat, tier: Tiers]
      BY <1>3 DEF LoyaltyTypeOK
    <2>1. accounts[a] \in [balance: Nat, lifetime: Nat, tier: Tiers]
      BY DEF LoyaltyTypeOK
    <2>2. BalanceLeft(a) \in Nat
      BY ExpirationLeaves
    <2> QED
      BY <2>1, <2>2
  <1>7. LoyaltyTypeOK'
    BY <1>3, <1>5, <1>6 DEF LoyaltyTypeOK, Appended
  <1> QED
    BY <1>3, <1>5, <1>7 DEF SomeExpire

LEMMA BatchExpires ==
  ASSUME LoyaltyTypeOK, EarnedIsPositive, RunExpirationBatch
  PROVE  LoyaltyTypeOK' /\ \E n \in Nat : \E order : SomeExpire(n, order)
  <1> DEFINE due  == {a \in Account : Expirable(a) # {}}
             dueAt == {i \in DOMAIN ledger : ledger[i].account \in due}
             f    == [i \in dueAt |-> ledger[i].account]
  <1>1. IsFiniteSet(due)
    <2>1. IsFiniteSet(dueAt)
      <3>1. dueAt \subseteq DOMAIN ledger
        OBVIOUS
      <3> HIDE DEF dueAt
      <3> QED
        BY <3>1, LedgerPoints
    <2>2. \A a \in due : \E i \in dueAt : f[i] = a
      BY DEF Expirable
    <2>3. f \in [dueAt -> due]
      OBVIOUS
    <2>4. f \in Surjection(dueAt, due)
      BY <2>2, <2>3 DEF Surjection
    <2> HIDE DEF due, dueAt, f
    <2> QED
      BY <2>1, <2>4, FS_Surjection
  <1>2. Cardinality(due) \in Nat
    BY <1>1, FS_CardinalityType
  <1> SUFFICES ASSUME NEW n, n = Cardinality(due)
               PROVE  LoyaltyTypeOK' /\ \E m \in Nat : \E order : SomeExpire(m, order)
    OBVIOUS
  <1>3. PICK order \in [1..n -> due] :
          /\ \A j, k \in 1..n :
               j < k => Min(Expirable(order[j])) < Min(Expirable(order[k]))
          /\ Expire(order)
    <2>1. PICK order \in [1..Cardinality(due) -> due] :
            /\ \A j, k \in DOMAIN order :
                 j < k => Min(Expirable(order[j])) < Min(Expirable(order[k]))
            /\ Expire(order)
      BY Zenon DEF RunExpirationBatch
    <2>2. order \in [1..n -> due] /\ DOMAIN order = 1..n
      OBVIOUS
    <2> QED
      BY <2>1, <2>2
  <1>4. ASSUME NEW j \in 1..n, NEW k \in 1..n, j < k
        PROVE  order[j] # order[k]
    <2>1. Min(Expirable(order[j])) < Min(Expirable(order[k]))
      BY <1>3, <1>4
    <2>2. /\ Expirable(order[j]) # {} /\ Expirable(order[j]) \subseteq DOMAIN ledger
      BY <1>3 DEF Expirable
    <2>3. DOMAIN ledger \subseteq Nat
      BY DEF LoyaltyTypeOK
    <2>4. Min(Expirable(order[j])) \in Nat
      BY <2>2, <2>3, MinIsNumber
    <2>5. ASSUME order[j] = order[k]
          PROVE  FALSE
      <3>1. Min(Expirable(order[j])) < Min(Expirable(order[j]))
        BY <2>1, <2>5
      <3> QED
        BY <2>4, <3>1
    <2> QED
      BY <2>5
  <1>5. \A j, k \in 1..n : j # k => order[j] # order[k]
    <2> SUFFICES ASSUME NEW j \in 1..n, NEW k \in 1..n, j # k
                 PROVE  order[j] # order[k]
      OBVIOUS
    <2>1. CASE j < k
      BY <2>1, <1>4
    <2>2. CASE k < j
      BY <2>2, <1>4
    <2>3. n \in Nat
      BY <1>2
    <2> QED
      BY <2>1, <2>2, <2>3
  <1>6. n \in Nat /\ order \in [1..n -> Account] /\ Expire(order)
    BY <1>2, <1>3
  <1> HIDE DEF due
  <1>7. LoyaltyTypeOK' /\ SomeExpire(n, order)
    BY <1>5, <1>6, ExpireExpires
  <1> QED
    BY <1>6, <1>7

(* Every step is of one of the three kinds. *)
LEMMA LoyaltyStepKinds ==
  ASSUME LoyaltyTypeOK, EarnedIsPositive, [LoyaltyNext]_loyaltyVars
  PROVE  LoyaltyTypeOK' /\ LoyaltyStep
  <1>1. CASE UNCHANGED loyaltyVars
    BY <1>1 DEF loyaltyVars, LoyaltyTypeOK, LoyaltyStep
  <1>2. ASSUME NEW t \in Tenants, GetConfig(t)
        PROVE  LoyaltyTypeOK' /\ LoyaltyStep
    <2>1. UNCHANGED <<accounts, ledger, day>> /\ KeepProgram(t)
      BY <1>2 DEF GetConfig
    <2> QED
      BY <2>1, ProgramKept DEF LoyaltyTypeOK, LoyaltyStep
  <1>3. ASSUME NEW t \in Tenants, NEW p \in Programs, CreateConfig(t, p) \/ UpdateConfig(t, p)
        PROVE  LoyaltyTypeOK' /\ LoyaltyStep
    BY <1>3 DEF CreateConfig, UpdateConfig, LoyaltyTypeOK, LoyaltyStep
  <1>4. ASSUME NEW a \in Account,
               \/ \E cents \in Totals : AccumulatePoints(a, cents)
               \/ \E points \in Redemptions : RedeemPoints(a, points)
               \/ \E points \in Adjustments : AdjustPoints(a, points)
        PROVE  LoyaltyTypeOK' /\ LoyaltyStep
    BY <1>4, AccumulateMoves, RedeemMoves, AdjustMoves DEF LoyaltyStep
  <1>5. ASSUME NEW a \in Account, ExpirePointsForCustomer(a)
        PROVE  LoyaltyTypeOK' /\ LoyaltyStep
    <2>1. /\ <<a>> \in [1..1 -> Account] /\ Expire(<<a>>)
          /\ \A j, k \in 1..1 : j # k => <<a>>[j] # <<a>>[k]
      BY <1>5 DEF ExpirePointsForCustomer
    <2> DEFINE order == <<a>>
    <2>2. /\ order \in [1..1 -> Account] /\ Expire(order)
          /\ \A j, k \in 1..1 : j # k => order[j] # order[k]
      BY <2>1
    <2> HIDE DEF order
    <2>3. LoyaltyTypeOK' /\ SomeExpire(1, order)
      BY <2>2, ExpireExpires
    <2>4. \E n \in Nat : \E o : SomeExpire(n, o)
      BY <2>3
    <2> QED
      BY <2>3, <2>4 DEF LoyaltyStep
  <1>6. CASE RunExpirationBatch
    BY <1>6, BatchExpires DEF LoyaltyStep
  <1>7. CASE NextDay
    BY <1>7 DEF NextDay, LoyaltyTypeOK, LoyaltyStep
  <1> QED
    BY <1>1, <1>2, <1>3, <1>4, <1>5, <1>6, <1>7 DEF LoyaltyNext

-----------------------------------------------------------------------------
(* Sums over a ledger and the balance it explains, before and after a step.  *)

PointsIn(l, is) == SumFunctionOnSet([i \in DOMAIN l |-> l[i].points], is)

(* BalanceAt of a ledger l. *)
BalanceIn(l, a, n) ==
  LET mine == {i \in 1..n : l[i].account = a}
  IN  IF mine = {} THEN 0 ELSE l[Max(mine)].balanceAfter

Explained(l) ==
  \A i \in DOMAIN l :
    l[i].balanceAfter = Max({BalanceIn(l, l[i].account, i - 1) + l[i].points, 0})

(* Points of entries that were there before, and of one that was added.    *)
LEMMA PointsKept ==
  ASSUME NEW l \in Seq(Entry), NEW k, NEW n \in Nat, Appended(l, k, n),
         NEW is, is \subseteq DOMAIN l
  PROVE  PointsIn(k, is) = PointsIn(l, is)
  <1> DEFINE f == [i \in DOMAIN l |-> l[i].points]
             g == [i \in DOMAIN k |-> k[i].points]
  <1>1. Len(l) \in Nat /\ DOMAIN l = 1..Len(l) /\ DOMAIN l \subseteq DOMAIN k
    BY DEF Appended
  <1>2. IsFiniteSet(is)
    <2>1. IsFiniteSet(1..Len(l))
      BY <1>1, FS_Interval
    <2> QED
      BY <1>1, <2>1, FS_Subset
  <1>3. \A i \in is : f[i] = g[i]
    BY <1>1 DEF Appended
  <1> HIDE DEF f, g
  <1>4. SumFunctionOnSet(f, is) = SumFunctionOnSet(g, is)
    BY <1>2, <1>3, SumSame
  <1> QED
    BY <1>4 DEF PointsIn, f, g

LEMMA PointsAppended ==
  ASSUME NEW l \in Seq(Entry), NEW k, Appended(l, k, 1),
         NEW is, is \subseteq DOMAIN l, NEW js, js \subseteq DOMAIN k,
         js \ {Len(l) + 1} = is
  PROVE  /\ PointsIn(l, is) \in Int
         /\ PointsIn(k, js) = PointsIn(l, is)
              + (IF Len(l) + 1 \in js THEN k[Len(l) + 1].points ELSE 0)
  <1> DEFINE f == [i \in DOMAIN l |-> l[i].points]
             g == [i \in DOMAIN k |-> k[i].points]
             n == Len(l) + 1
  <1>1. /\ Len(l) \in Nat /\ DOMAIN l = 1..Len(l) /\ DOMAIN k = 1..n /\ n \in Nat
        /\ DOMAIN l \subseteq DOMAIN k /\ n \notin is
    BY DEF Appended
  <1>2. IsFiniteSet(is) /\ IsFiniteSet(js)
    <2>1. IsFiniteSet(1..n)
      BY <1>1, FS_Interval
    <2> QED
      BY <1>1, <2>1, FS_Subset
  <1>3. /\ \A i \in is : f[i] \in Int /\ f[i] = g[i]
        /\ \A i \in js : g[i] \in Int /\ g[i] = k[i].points
    <2>1. \A i \in DOMAIN k : k[i] \in Entry
      BY ElementAt DEF Appended
    <2>2. \A i \in js : g[i] = k[i].points /\ k[i].points \in Int
      BY <2>1 DEF Entry
    <2>3. \A i \in is : f[i] = g[i] /\ i \in js
      BY <1>1 DEF Appended
    <2> QED
      BY <2>2, <2>3
  <1>4. is \ {n} = js \ {n} /\ \A i \in is \ {n} : g[i] = f[i]
    BY <1>1, <1>3
  <1> HIDE DEF f, g, n
  <1>5. /\ SumFunctionOnSet(f, is) \in Int
        /\ SumFunctionOnSet(g, js) = SumFunctionOnSet(f, is)
             + (IF n \in js THEN g[n] ELSE 0) - (IF n \in is THEN f[n] ELSE 0)
    BY <1>2, <1>3, <1>4, SumChange
  <1>6. SumFunctionOnSet(g, js)
          = SumFunctionOnSet(f, is) + (IF n \in js THEN k[n].points ELSE 0)
    BY <1>1, <1>3, <1>5
  <1> QED
    BY <1>5, <1>6 DEF PointsIn, f, g, n

(* The first n entries are the same, so the balance they explain is.       *)
LEMMA SamePrefix ==
  ASSUME NEW l, NEW k, NEW n \in Nat, \A i \in 1..n : l[i] = k[i], NEW a
  PROVE  BalanceIn(l, a, n) = BalanceIn(k, a, n)
  <1> DEFINE mine == {i \in 1..n : l[i].account = a}
  <1>1. mine = {i \in 1..n : k[i].account = a}
    OBVIOUS
  <1>2. CASE mine = {}
    BY <1>1, <1>2 DEF BalanceIn
  <1>3. CASE mine # {}
    <2>1. mine \subseteq 1..n
      OBVIOUS
    <2>2. Max(mine) \in mine
      <3> HIDE DEF mine
      <3> QED
        BY <1>3, <2>1, MaxMember
    <2>3. l[Max(mine)] = k[Max(mine)]
      <3> HIDE DEF mine
      <3> QED
        BY <2>1, <2>2
    <2> QED
      BY <1>1, <1>3, <2>3 DEF BalanceIn
  <1> QED
    BY <1>2, <1>3

(* Entries of others explain nothing, an entry of its own everything.      *)
LEMMA OthersEntries ==
  ASSUME NEW l, NEW m \in Nat, NEW n \in Nat, m <= n, NEW a,
         \A i \in (m + 1)..n : l[i].account # a
  PROVE  BalanceIn(l, a, n) = BalanceIn(l, a, m)
  <1>1. {i \in 1..n : l[i].account = a} = {i \in 1..m : l[i].account = a}
    OBVIOUS
  <1> QED
    BY <1>1 DEF BalanceIn

LEMMA OwnEntry ==
  ASSUME NEW l, NEW m \in Nat \ {0}, NEW n \in Nat, m <= n, NEW a, l[m].account = a,
         \A i \in (m + 1)..n : l[i].account # a
  PROVE  BalanceIn(l, a, n) = l[m].balanceAfter
  <1> DEFINE mine == {i \in 1..n : l[i].account = a}
  <1>1. /\ mine \subseteq Int /\ m \in mine
        /\ \A i \in mine : m >= i
    OBVIOUS
  <1>2. Max(mine) = m
    <2> HIDE DEF mine
    <2> QED
      BY <1>1, MaxIs
  <1> QED
    BY <1>1, <1>2 DEF BalanceIn

(* New entries, of different accounts, each of which starts from the balance
   that was explained.                                                     *)
LEMMA StillExplained ==
  ASSUME NEW l \in Seq(Entry), NEW k, NEW n \in Nat, Appended(l, k, n), Explained(l),
         \A i, j \in 1..n : i # j => k[Len(l) + i].account # k[Len(l) + j].account,
         \A i \in 1..n :
           LET e == k[Len(l) + i]
           IN  e.balanceAfter = Max({BalanceIn(l, e.account, Len(l)) + e.points, 0})
  PROVE  /\ Explained(k)
         /\ \A i \in 1..n : BalanceIn(k, k[Len(l) + i].account, Len(k))
                              = k[Len(l) + i].balanceAfter
         /\ \A a : (\A i \in 1..n : k[Len(l) + i].account # a)
                     => BalanceIn(k, a, Len(k)) = BalanceIn(l, a, Len(l))
  <1> DEFINE len == Len(l)
  <1>1. /\ len \in Nat /\ DOMAIN l = 1..len /\ Len(k) = len + n /\ DOMAIN k = 1..(len + n)
        /\ \A i \in 1..len : k[i] = l[i]
    BY DEF Appended
  <1> HIDE DEF len
  <1>2. \A a : \A m \in 0..len : BalanceIn(k, a, m) = BalanceIn(l, a, m)
    <2> SUFFICES ASSUME NEW a, NEW m \in 0..len
                 PROVE  BalanceIn(k, a, m) = BalanceIn(l, a, m)
      OBVIOUS
    <2>1. m \in Nat /\ \A i \in 1..m : k[i] = l[i]
      BY <1>1
    <2> QED
      BY <2>1, SamePrefix
  <1>3. \A i \in (len + 1)..(len + n) : i - len \in 1..n /\ i = len + (i - len)
    BY <1>1
  <1>4. \A i, j \in (len + 1)..(len + n) : i # j => k[i].account # k[j].account
    <2> SUFFICES ASSUME NEW i \in (len + 1)..(len + n), NEW j \in (len + 1)..(len + n), i # j
                 PROVE  k[i].account # k[j].account
      OBVIOUS
    <2>1. i - len \in 1..n /\ j - len \in 1..n /\ i - len # j - len
      BY <1>1, <1>3
    <2>2. k[len + (i - len)].account # k[len + (j - len)].account
      BY <2>1 DEF len
    <2> QED
      BY <1>3, <2>2
  <1>5. \A i \in (len + 1)..(len + n) :
          k[i].balanceAfter = Max({BalanceIn(l, k[i].account, len) + k[i].points, 0})
    <2> SUFFICES ASSUME NEW i \in (len + 1)..(len + n)
                 PROVE  k[i].balanceAfter
                          = Max({BalanceIn(l, k[i].account, len) + k[i].points, 0})
      OBVIOUS
    <2>1. k[len + (i - len)].balanceAfter
            = Max({BalanceIn(l, k[len + (i - len)].account, len) + k[len + (i - len)].points, 0})
      BY <1>3 DEF len
    <2> QED
      BY <1>3, <2>1
  <1>6. ASSUME NEW i \in DOMAIN k
        PROVE  k[i].balanceAfter = Max({BalanceIn(k, k[i].account, i - 1) + k[i].points, 0})
    <2>1. CASE i \in 1..len
      <3>1. l[i].balanceAfter = Max({BalanceIn(l, l[i].account, i - 1) + l[i].points, 0})
        BY <1>1, <2>1 DEF Explained
      <3>2. k[i] = l[i] /\ i - 1 \in 0..len
        BY <1>1, <2>1
      <3>3. BalanceIn(k, l[i].account, i - 1) = BalanceIn(l, l[i].account, i - 1)
        BY <1>2, <3>2
      <3> QED
        BY <3>1, <3>2, <3>3
    <2>2. CASE i \in (len + 1)..(len + n)
      <3>1. len <= i - 1 /\ i - 1 \in Nat /\ len \in 0..len
        BY <1>1, <2>2
      <3>2. \A j \in (len + 1)..(i - 1) : k[j].account # k[i].account
        <4> SUFFICES ASSUME NEW j \in (len + 1)..(i - 1)
                     PROVE  k[j].account # k[i].account
          OBVIOUS
        <4>1. j \in (len + 1)..(len + n) /\ j # i
          BY <1>1, <2>2
        <4> QED
          BY <1>4, <2>2, <4>1
      <3>3. BalanceIn(k, k[i].account, i - 1) = BalanceIn(k, k[i].account, len)
        BY <1>1, <3>1, <3>2, OthersEntries
      <3>4. BalanceIn(k, k[i].account, len) = BalanceIn(l, k[i].account, len)
        BY <1>2, <3>1
      <3> QED
        BY <1>5, <2>2, <3>3, <3>4
    <2>3. i \in 1..len \/ i \in (len + 1)..(len + n)
      BY <1>1
    <2> QED
      BY <2>1, <2>2, <2>3
  <1>7. ASSUME NEW i \in (len + 1)..(len + n)
        PROVE  BalanceIn(k, k[i].account, len + n) = k[i].balanceAfter
    <2>1. i \in Nat \ {0} /\ i <= len + n /\ len + n \in Nat
      BY <1>1
    <2>2. \A j \in (i + 1)..(len + n) : k[j].account # k[i].account
      <3> SUFFICES ASSUME NEW j \in (i + 1)..(len + n)
                   PROVE  k[j].account # k[i].account
        OBVIOUS
      <3>1. j \in (len + 1)..(len + n) /\ j # i
        BY <1>1
      <3> QED
        BY <1>4, <3>1
    <2> QED
      BY <2>1, <2>2, OwnEntry
  <1>8. ASSUME NEW i \in 1..n
        PROVE  BalanceIn(k, k[len + i].account, Len(k)) = k[len + i].balanceAfter
    <2>1. len + i \in (len + 1)..(len + n)
      BY <1>1
    <2> QED
      BY <1>1, <1>7, <2>1
  <1>9. ASSUME NEW a, \A i \in 1..n : k[len + i].account # a
        PROVE  BalanceIn(k, a, Len(k)) = BalanceIn(l, a, len)
    <2>1. \A i \in (len + 1)..(len + n) : k[i].account # a
      <3> SUFFICES ASSUME NEW i \in (len + 1)..(len + n)
                   PROVE  k[i].account # a
        OBVIOUS
      <3>1. k[len + (i - len)].account # a
        BY <1>3, <1>9
      <3> QED
        BY <1>3, <3>1
    <2>2. len <= len + n /\ len + n \in Nat /\ len \in 0..len
      BY <1>1
    <2>3. BalanceIn(k, a, len + n) = BalanceIn(k, a, len)
      BY <1>1, <2>1, <2>2, OthersEntries
    <2> QED
      BY <1>1, <1>2, <2>2, <2>3
  <1> QED
    BY <1>6, <1>8, <1>9 DEF Explained, len

(* The same, for a citation: how new entries start, and what they leave.   *)
StartExplained(l, k, n) ==
  /\ l \in Seq(Entry) /\ Appended(l, k, n) /\ Explained(l)
  /\ \A i, j \in 1..n : i # j => k[Len(l) + i].account # k[Len(l) + j].account
  /\ \A i \in 1..n :
       k[Len(l) + i].balanceAfter =
         Max({BalanceIn(l, k[Len(l) + i].account, Len(l)) + k[Len(l) + i].points, 0})

LeaveExplained(l, k, n) ==
  /\ Explained(k)
  /\ \A i \in 1..n : BalanceIn(k, k[Len(l) + i].account, Len(k)) = k[Len(l) + i].balanceAfter
  /\ \A a : (\A i \in 1..n : k[Len(l) + i].account # a)
              => BalanceIn(k, a, Len(k)) = BalanceIn(l, a, Len(l))

LEMMA NewEntriesExplained ==
  ASSUME NEW l, NEW k, NEW n \in Nat, StartExplained(l, k, n)
  PROVE  LeaveExplained(l, k, n)
  BY StillExplained DEF StartExplained, LeaveExplained

(* One new entry is among some entries, or is not. *)
OneMore(l, k, is, js) ==
  /\ l \in Seq(Entry) /\ Appended(l, k, 1)
  /\ is \subseteq DOMAIN l /\ js \subseteq DOMAIN k /\ js \ {Len(l) + 1} = is

LEMMA NewPoints ==
  ASSUME NEW l, NEW k, NEW is, NEW js, OneMore(l, k, is, js)
  PROVE  /\ PointsIn(l, is) \in Int
         /\ PointsIn(k, js) = PointsIn(l, is)
              + (IF Len(l) + 1 \in js THEN k[Len(l) + 1].points ELSE 0)
  BY PointsAppended DEF OneMore

-----------------------------------------------------------------------------
(* The invariants.                                                         *)

(* LedgerExplainsBalance, of the ledger as an argument. *)
BalancesAreExplained ==
  /\ \A a \in Account : accounts[a].balance = BalanceIn(ledger, a, Len(ledger))
  /\ Explained(ledger)

LEMMA ExplainedIsExplained == LedgerExplainsBalance <=> BalancesAreExplained
  BY DEF LedgerExplainsBalance, BalancesAreExplained, BalanceAt, BalanceIn, Explained

(* The entries by which an account was awarded points, and by which it spent
   them; and the two statements that sum them up.                          *)
Awards(a) == {i \in EntriesOf(a, {"earn", "adjust"}) : ledger[i].points > 0}
Spendings(a) == EntriesOf(a, {"redeem"})

PointsAreAwarded ==
  \A a \in Account :
    /\ accounts[a].lifetime = PointsIn(ledger, Awards(a))
    /\ accounts[a].balance - PointsIn(ledger, Spendings(a)) <= accounts[a].lifetime

LEMMA AwardedIsAwarded ==
  LoyaltyTypeOK => (PointsAreAwarded <=> LifetimeIsAwarded /\ SpentPointsWereAwarded)
  <1> SUFFICES ASSUME LoyaltyTypeOK
               PROVE  PointsAreAwarded <=> LifetimeIsAwarded /\ SpentPointsWereAwarded
    OBVIOUS
  <1>1. \A a \in Account : accounts[a].balance >= 0
    BY DEF LoyaltyTypeOK
  <1> QED
    BY <1>1 DEF PointsAreAwarded, LifetimeIsAwarded, SpentPointsWereAwarded, PointsOf, PointsIn,
                Awards, Spendings

LoyaltyInv == EarnedIsPositive /\ BalancesAreExplained /\ PointsAreAwarded

LEMMA OneMoveKeeps ==
  ASSUME LoyaltyTypeOK, LoyaltyTypeOK', LoyaltyInv, NEW a \in Account, OneMoves(a)
  PROVE  LoyaltyInv'
  <1> SUFFICES ASSUME NEW l, l = ledger, NEW k, k = ledger', NEW n, n = Len(ledger) + 1,
                      NEW e, e = ledger'[n]
               PROVE  LoyaltyInv'
    OBVIOUS
  <1>1. /\ l \in Seq(Entry) /\ Appended(l, k, 1) /\ k \in Seq(Entry)
        /\ Len(l) \in Nat /\ n = Len(l) + 1
        /\ DOMAIN l = 1..Len(l) /\ DOMAIN k = 1..n /\ n \in Nat /\ Len(k) = n
        /\ \A i \in DOMAIN l : k[i] = l[i]
    BY DEF OneMoves, Appended, LoyaltyTypeOK
  <1>2. /\ e = k[n] /\ e \in Entry /\ e.points \in Int
    <2>1. e = k[n] /\ n \in DOMAIN k
      BY <1>1
    <2>2. e \in Entry
      BY <1>1, <2>1, ElementAt
    <2> QED
      BY <2>1, <2>2 DEF Entry
  <1>3. /\ e.account = a /\ e.type \in {"earn", "redeem", "adjust"}
        /\ e.type = "earn" => e.points > 0
        /\ e.balanceAfter = accounts[a].balance + e.points
        /\ accounts'[a].balance = accounts[a].balance + e.points
        /\ accounts'[a].lifetime = accounts[a].lifetime
             + (IF e.type \in {"earn", "adjust"} /\ e.points >= 0 THEN e.points ELSE 0)
        /\ \A b \in Account \ {a} : accounts'[b] = accounts[b]
    BY DEF OneMoves
  <1>4. \A b \in Account :
          /\ accounts[b].balance \in Nat /\ accounts[b].lifetime \in Nat
          /\ accounts'[b].balance \in Nat /\ accounts'[b].lifetime \in Nat
    BY DEF LoyaltyTypeOK
  <1>5. EarnedIsPositive'
    <2>1. \A i \in DOMAIN k : i \in DOMAIN l \/ i = n
      BY <1>1
    <2>2. \A i \in DOMAIN k : k[i].type = "earn" => k[i].points > 0
      BY <1>1, <1>2, <1>3, <2>1 DEF LoyaltyInv, EarnedIsPositive
    <2> QED
      BY <2>2 DEF EarnedIsPositive
  <1>6. BalancesAreExplained'
    <2>1. /\ Explained(l)
          /\ \A b \in Account : accounts[b].balance = BalanceIn(l, b, Len(l))
      BY DEF LoyaltyInv, BalancesAreExplained
    <2> SUFFICES ASSUME NEW m \in Nat, m = 1
                 PROVE  BalancesAreExplained'
      OBVIOUS
    <2>2. /\ \A i, j \in 1..m : i # j => k[Len(l) + i].account # k[Len(l) + j].account
          /\ \A i \in 1..m : k[Len(l) + i] = e
      BY <1>1, <1>2
    <2>3. e.balanceAfter = Max({BalanceIn(l, e.account, Len(l)) + e.points, 0})
      <3>1. accounts[a].balance + e.points \in Int /\ accounts[a].balance + e.points >= 0
        BY <1>2, <1>3, <1>4
      <3>2. Max({accounts[a].balance + e.points, 0}) = accounts[a].balance + e.points
        BY <3>1, MaxOfTwo
      <3> QED
        BY <1>3, <2>1, <3>2
    <2>4. \A i \in 1..m :
            k[Len(l) + i].balanceAfter =
              Max({BalanceIn(l, k[Len(l) + i].account, Len(l)) + k[Len(l) + i].points, 0})
      BY <2>2, <2>3
    <2>5. /\ Explained(k)
          /\ \A i \in 1..m : BalanceIn(k, k[Len(l) + i].account, Len(k))
                               = k[Len(l) + i].balanceAfter
          /\ \A b : (\A i \in 1..m : k[Len(l) + i].account # b)
                      => BalanceIn(k, b, Len(k)) = BalanceIn(l, b, Len(l))
      <3>1. Appended(l, k, m) /\ l \in Seq(Entry) /\ Explained(l)
        BY <1>1, <2>1
      <3>2. \A i, j \in 1..m : i # j => k[Len(l) + i].account # k[Len(l) + j].account
        BY <2>2
      <3>3. StartExplained(l, k, m)
        BY <2>4, <3>1, <3>2, Zenon DEF StartExplained
      <3>4. LeaveExplained(l, k, m)
        BY <3>3, NewEntriesExplained
      <3> QED
        BY <3>4, Zenon DEF LeaveExplained
    <2>6. BalanceIn(k, a, Len(k)) = e.balanceAfter
      <3>1. 1 \in 1..m
        OBVIOUS
      <3> QED
        BY <1>3, <2>2, <2>5, <3>1
    <2>7. \A b \in Account \ {a} : BalanceIn(k, b, Len(k)) = BalanceIn(l, b, Len(l))
      BY <1>3, <2>2, <2>5
    <2>8. \A b \in Account : accounts'[b].balance = BalanceIn(k, b, Len(k))
      BY <1>3, <2>1, <2>6, <2>7
    <2> QED
      BY <2>5, <2>8 DEF BalancesAreExplained
  <1>7. PointsAreAwarded'
    <2> SUFFICES ASSUME NEW b \in Account
                 PROVE  /\ accounts'[b].lifetime = PointsIn(ledger', Awards(b)')
                        /\ accounts'[b].balance - PointsIn(ledger', Spendings(b)')
                             <= accounts'[b].lifetime
      BY DEF PointsAreAwarded
    <2> SUFFICES ASSUME NEW aw, aw = Awards(b), NEW awAfter, awAfter = Awards(b)',
                        NEW sp, sp = Spendings(b), NEW spAfter, spAfter = Spendings(b)'
                 PROVE  /\ accounts'[b].lifetime = PointsIn(k, awAfter)
                        /\ accounts'[b].balance - PointsIn(k, spAfter)
                             <= accounts'[b].lifetime
      OBVIOUS
    <2>1. /\ aw = {i \in DOMAIN l : /\ l[i].account = b /\ l[i].type \in {"earn", "adjust"}
                                    /\ l[i].points > 0}
          /\ awAfter = {i \in DOMAIN k : /\ k[i].account = b
                                         /\ k[i].type \in {"earn", "adjust"}
                                         /\ k[i].points > 0}
          /\ sp = {i \in DOMAIN l : l[i].account = b /\ l[i].type \in {"redeem"}}
          /\ spAfter = {i \in DOMAIN k : k[i].account = b /\ k[i].type \in {"redeem"}}
      BY DEF Awards, Spendings, EntriesOf
    <2>2. /\ aw \subseteq DOMAIN l /\ awAfter \subseteq DOMAIN k /\ awAfter \ {n} = aw
          /\ sp \subseteq DOMAIN l /\ spAfter \subseteq DOMAIN k /\ spAfter \ {n} = sp
      <3>1. \A i \in DOMAIN k : i # n <=> i \in DOMAIN l
        BY <1>1
      <3>2. \A i \in DOMAIN l : i \in DOMAIN k /\ i # n
        BY <1>1
      <3> QED
        BY <1>1, <2>1, <3>1, <3>2
    <2>3. /\ n \in awAfter <=> b = a /\ e.type \in {"earn", "adjust"} /\ e.points > 0
          /\ n \in spAfter <=> b = a /\ e.type = "redeem"
      BY <1>1, <1>2, <1>3, <2>1
    <2>4. /\ PointsIn(l, aw) \in Int /\ PointsIn(l, sp) \in Int
          /\ PointsIn(k, awAfter) = PointsIn(l, aw) + (IF n \in awAfter THEN e.points ELSE 0)
          /\ PointsIn(k, spAfter) = PointsIn(l, sp) + (IF n \in spAfter THEN e.points ELSE 0)
      <3>1. awAfter \ {Len(l) + 1} = aw /\ spAfter \ {Len(l) + 1} = sp
        BY <1>1, <2>2
      <3>4. /\ l \in Seq(Entry) /\ Appended(l, k, 1)
            /\ aw \subseteq DOMAIN l /\ awAfter \subseteq DOMAIN k
            /\ sp \subseteq DOMAIN l /\ spAfter \subseteq DOMAIN k
        BY <1>1, <2>2
      <3>5. OneMore(l, k, aw, awAfter) /\ OneMore(l, k, sp, spAfter)
        BY <3>1, <3>4, Zenon DEF OneMore
      <3>2. /\ PointsIn(l, aw) \in Int
            /\ PointsIn(k, awAfter)
                 = PointsIn(l, aw) + (IF Len(l) + 1 \in awAfter THEN k[Len(l) + 1].points ELSE 0)
        BY <3>5, NewPoints
      <3>3. /\ PointsIn(l, sp) \in Int
            /\ PointsIn(k, spAfter)
                 = PointsIn(l, sp) + (IF Len(l) + 1 \in spAfter THEN k[Len(l) + 1].points ELSE 0)
        BY <3>5, NewPoints
      <3> QED
        BY <1>1, <1>2, <3>2, <3>3
    <2>5. /\ accounts[b].lifetime = PointsIn(l, aw)
          /\ accounts[b].balance - PointsIn(l, sp) <= accounts[b].lifetime
      BY DEF LoyaltyInv, PointsAreAwarded
    <2>6. CASE b # a
      BY <1>3, <1>4, <2>3, <2>4, <2>5, <2>6
    <2>7. CASE b = a /\ e.type = "redeem"
      <3>1. /\ accounts'[b].lifetime = accounts[b].lifetime
            /\ accounts'[b].balance = accounts[b].balance + e.points
        BY <1>3, <1>4, <2>7
      <3> QED
        BY <1>2, <1>4, <2>3, <2>4, <2>5, <2>7, <3>1
    <2>8. CASE b = a /\ e.type # "redeem"
      <3>1. /\ accounts'[b].lifetime
                 = accounts[b].lifetime + (IF e.points >= 0 THEN e.points ELSE 0)
            /\ accounts'[b].balance = accounts[b].balance + e.points
            /\ n \in awAfter <=> e.points > 0
            /\ n \notin spAfter
        BY <1>3, <2>3, <2>8
      <3> QED
        BY <1>2, <1>4, <2>4, <2>5, <3>1
    <2> QED
      BY <2>6, <2>7, <2>8
  <1> QED
    BY <1>5, <1>6, <1>7 DEF LoyaltyInv

LEMMA ExpirationKeeps ==
  ASSUME LoyaltyTypeOK, LoyaltyTypeOK', LoyaltyInv,
         NEW n \in Nat, NEW order, SomeExpire(n, order)
  PROVE  LoyaltyInv'
  <1> SUFFICES ASSUME NEW l, l = ledger, NEW k, k = ledger'
               PROVE  LoyaltyInv'
    OBVIOUS
  <1>1. /\ l \in Seq(Entry) /\ Appended(l, k, n) /\ k \in Seq(Entry)
        /\ Len(l) \in Nat
        /\ DOMAIN l = 1..Len(l) /\ DOMAIN k = 1..(Len(l) + n)
        /\ \A i \in DOMAIN l : k[i] = l[i]
    BY DEF SomeExpire, Appended, LoyaltyTypeOK
  <1>2. /\ order \in [1..n -> Account]
        /\ \A i, j \in 1..n : i # j => order[i] # order[j]
        /\ \A i \in 1..n : k[Len(l) + i] = ExpireEntry(order[i])
    BY DEF SomeExpire
  <1>3. \A i \in 1..n :
          /\ order[i] \in Account
          /\ k[Len(l) + i].account = order[i] /\ k[Len(l) + i].type = "expire"
          /\ k[Len(l) + i].points = -PointsToExpire(order[i])
          /\ k[Len(l) + i].balanceAfter = BalanceLeft(order[i])
    <2> SUFFICES ASSUME NEW i \in 1..n
                 PROVE  /\ order[i] \in Account
                        /\ k[Len(l) + i].account = order[i] /\ k[Len(l) + i].type = "expire"
                        /\ k[Len(l) + i].points = -PointsToExpire(order[i])
                        /\ k[Len(l) + i].balanceAfter = BalanceLeft(order[i])
      OBVIOUS
    <2>1. order[i] \in Account /\ k[Len(l) + i] = ExpireEntry(order[i])
      BY <1>2
    <2> QED
      BY <2>1, ExpirationLeaves DEF LoyaltyInv
  <1>4. \A i \in (Len(l) + 1)..(Len(l) + n) : k[i].type = "expire"
    <2> SUFFICES ASSUME NEW i \in (Len(l) + 1)..(Len(l) + n)
                 PROVE  k[i].type = "expire"
      OBVIOUS
    <2>1. i - Len(l) \in 1..n /\ i = Len(l) + (i - Len(l))
      BY <1>1
    <2>2. k[Len(l) + (i - Len(l))].type = "expire"
      BY <1>3, <2>1
    <2> QED
      BY <2>1, <2>2
  <1>5. \A i \in DOMAIN k : i \in DOMAIN l \/ k[i].type = "expire"
    BY <1>1, <1>4
  <1>6. EarnedIsPositive'
    <2>1. \A i \in DOMAIN k : k[i].type = "earn" => k[i].points > 0
      BY <1>1, <1>5 DEF LoyaltyInv, EarnedIsPositive
    <2> QED
      BY <2>1 DEF EarnedIsPositive
  <1>7. ASSUME NEW a \in Account
        PROVE  /\ accounts'[a].lifetime = accounts[a].lifetime
               /\ accounts'[a].balance <= accounts[a].balance
               /\ accounts'[a].balance
                    = IF \E i \in 1..n : order[i] = a THEN BalanceLeft(a) ELSE accounts[a].balance
    <2>1. accounts[a] \in [balance: Nat, lifetime: Nat, tier: Tiers]
      BY DEF LoyaltyTypeOK
    <2>2. accounts'[a] = IF \E i \in 1..n : order[i] = a
                         THEN [accounts[a] EXCEPT !.balance = BalanceLeft(a)] ELSE accounts[a]
      BY DEF SomeExpire
    <2>3. BalanceLeft(a) \in Nat /\ BalanceLeft(a) <= accounts[a].balance
      BY ExpirationLeaves DEF LoyaltyInv
    <2> QED
      BY <2>1, <2>2, <2>3
  <1>8. BalancesAreExplained'
    <2>1. /\ Explained(l)
          /\ \A b \in Account : accounts[b].balance = BalanceIn(l, b, Len(l))
      BY DEF LoyaltyInv, BalancesAreExplained
    <2>2. \A i, j \in 1..n : i # j => k[Len(l) + i].account # k[Len(l) + j].account
      <3> SUFFICES ASSUME NEW i \in 1..n, NEW j \in 1..n, i # j
                   PROVE  k[Len(l) + i].account # k[Len(l) + j].account
        OBVIOUS
      <3>1. k[Len(l) + i].account = order[i] /\ k[Len(l) + j].account = order[j]
        BY <1>3
      <3> QED
        BY <1>2, <3>1
    <2>3. ASSUME NEW i \in 1..n
          PROVE  k[Len(l) + i].balanceAfter
                   = Max({BalanceIn(l, k[Len(l) + i].account, Len(l)) + k[Len(l) + i].points, 0})
      <3>1. /\ k[Len(l) + i].account = order[i]
            /\ k[Len(l) + i].points = -PointsToExpire(order[i])
            /\ k[Len(l) + i].balanceAfter
                 = Max({accounts[order[i]].balance - PointsToExpire(order[i]), 0})
            /\ PointsToExpire(order[i]) \in Nat /\ order[i] \in Account
        BY <1>1, <1>3, ExpirationLeaves DEF LoyaltyInv
      <3>2. accounts[order[i]].balance \in Nat
        BY <3>1 DEF LoyaltyTypeOK
      <3>3. accounts[order[i]].balance - PointsToExpire(order[i])
              = accounts[order[i]].balance + (-PointsToExpire(order[i]))
        BY <3>1, <3>2
      <3> QED
        BY <2>1, <3>1, <3>3
    <2>4. /\ Explained(k)
          /\ \A i \in 1..n : BalanceIn(k, k[Len(l) + i].account, Len(k))
                               = k[Len(l) + i].balanceAfter
          /\ \A a : (\A i \in 1..n : k[Len(l) + i].account # a)
                      => BalanceIn(k, a, Len(k)) = BalanceIn(l, a, Len(l))
      <3>1. Appended(l, k, n) /\ l \in Seq(Entry) /\ Explained(l)
        BY <1>1, <2>1
      <3>2. \A i \in 1..n :
              k[Len(l) + i].balanceAfter =
                Max({BalanceIn(l, k[Len(l) + i].account, Len(l)) + k[Len(l) + i].points, 0})
        BY <2>3
      <3>3. StartExplained(l, k, n)
        BY <2>2, <3>1, <3>2, Zenon DEF StartExplained
      <3>4. LeaveExplained(l, k, n)
        BY <3>3, NewEntriesExplained
      <3> QED
        BY <3>4, Zenon DEF LeaveExplained
    <2>5. ASSUME NEW a \in Account
          PROVE  accounts'[a].balance = BalanceIn(k, a, Len(k))
      <3>1. CASE \E i \in 1..n : order[i] = a
        <4>1. PICK i \in 1..n : order[i] = a
          BY <3>1
        <4>2. accounts'[a].balance = BalanceLeft(a)
          BY <1>7, <3>1
        <4>3. /\ k[Len(l) + i].account = a
              /\ k[Len(l) + i].balanceAfter = BalanceLeft(a)
          BY <1>3, <4>1
        <4>4. BalanceIn(k, k[Len(l) + i].account, Len(k)) = k[Len(l) + i].balanceAfter
          BY <2>4
        <4> QED
          BY <4>2, <4>3, <4>4
      <3>2. CASE ~\E i \in 1..n : order[i] = a
        <4>1. \A i \in 1..n : k[Len(l) + i].account # a
          BY <1>3, <3>2
        <4>2. BalanceIn(k, a, Len(k)) = BalanceIn(l, a, Len(l))
          BY <2>4, <4>1, Zenon
        <4> QED
          BY <1>7, <2>1, <3>2, <4>2
      <3> QED
        BY <3>1, <3>2
    <2> QED
      BY <2>4, <2>5 DEF BalancesAreExplained
  <1>9. PointsAreAwarded'
    <2> SUFFICES ASSUME NEW b \in Account
                 PROVE  /\ accounts'[b].lifetime = PointsIn(ledger', Awards(b)')
                        /\ accounts'[b].balance - PointsIn(ledger', Spendings(b)')
                             <= accounts'[b].lifetime
      BY DEF PointsAreAwarded
    <2> SUFFICES ASSUME NEW aw, aw = Awards(b), NEW sp, sp = Spendings(b)
                 PROVE  /\ accounts'[b].lifetime = PointsIn(k, Awards(b)')
                        /\ accounts'[b].balance - PointsIn(k, Spendings(b)')
                             <= accounts'[b].lifetime
      OBVIOUS
    <2>1. aw = Awards(b)' /\ sp = Spendings(b)'
      <3>1. /\ aw = {i \in DOMAIN l : /\ l[i].account = b /\ l[i].type \in {"earn", "adjust"}
                                      /\ l[i].points > 0}
            /\ Awards(b)' = {i \in DOMAIN k : /\ k[i].account = b
                                              /\ k[i].type \in {"earn", "adjust"}
                                              /\ k[i].points > 0}
            /\ sp = {i \in DOMAIN l : l[i].account = b /\ l[i].type \in {"redeem"}}
            /\ Spendings(b)' = {i \in DOMAIN k : k[i].account = b /\ k[i].type \in {"redeem"}}
        BY DEF Awards, Spendings, EntriesOf
      <3>2. \A i \in DOMAIN l : i \in DOMAIN k
        BY <1>1
      <3> QED
        BY <1>1, <1>5, <3>1, <3>2
    <2>2. aw \subseteq DOMAIN l /\ sp \subseteq DOMAIN l
      BY DEF Awards, Spendings, EntriesOf
    <2>3. PointsIn(k, aw) = PointsIn(l, aw) /\ PointsIn(k, sp) = PointsIn(l, sp)
      BY <1>1, <2>2, PointsKept
    <2>4. PointsIn(l, sp) \in Int
      BY <2>2, LedgerPoints DEF PointsIn, PointsOf
    <2>5. /\ accounts[b].lifetime = PointsIn(l, aw)
          /\ accounts[b].balance - PointsIn(l, sp) <= accounts[b].lifetime
      BY DEF LoyaltyInv, PointsAreAwarded
    <2>6. /\ accounts[b].balance \in Nat /\ accounts[b].lifetime \in Nat
          /\ accounts'[b].balance \in Nat
      BY DEF LoyaltyTypeOK
    <2>7. /\ accounts'[b].lifetime = PointsIn(k, aw)
          /\ accounts'[b].balance - PointsIn(k, sp) <= accounts'[b].lifetime
      BY <1>7, <2>3, <2>4, <2>5, <2>6
    <2> QED
      BY <2>1, <2>7, Zenon
  <1> QED
    BY <1>6, <1>8, <1>9 DEF LoyaltyInv

LEMMA AlwaysLoyal == LoyaltySpec => [](LoyaltyTypeOK /\ LoyaltyInv)
  <1>1. LoyaltyInit => LoyaltyTypeOK /\ LoyaltyInv
    <2> SUFFICES ASSUME LoyaltyInit
                 PROVE  LoyaltyTypeOK /\ LoyaltyInv
      OBVIOUS
    <2>1. /\ ledger = << >> /\ DOMAIN ledger = {} /\ Len(ledger) = 0
          /\ \A a \in Account : accounts[a] = Empty
      BY DEF LoyaltyInit
    <2>2. LoyaltyTypeOK
      BY DEF LoyaltyInit, LoyaltyTypeOK, Empty, Tiers
    <2>3. \A a : BalanceIn(ledger, a, 0) = 0
      BY DEF BalanceIn
    <2>4. BalancesAreExplained /\ EarnedIsPositive
      BY <2>1, <2>3 DEF BalancesAreExplained, Explained, EarnedIsPositive, Empty
    <2>5. \A a : Awards(a) = {} /\ Spendings(a) = {}
      BY <2>1 DEF Awards, Spendings, EntriesOf
    <2>6. PointsIn(ledger, {}) = 0
      BY SumRecursion, FS_EmptySet DEF PointsIn
    <2>7. PointsAreAwarded
      <3> SUFFICES ASSUME NEW a \in Account
                   PROVE  /\ accounts[a].lifetime = PointsIn(ledger, Awards(a))
                          /\ accounts[a].balance - PointsIn(ledger, Spendings(a))
                               <= accounts[a].lifetime
        BY DEF PointsAreAwarded
      <3>1. PointsIn(ledger, Awards(a)) = 0 /\ PointsIn(ledger, Spendings(a)) = 0
        BY <2>5, <2>6
      <3> QED
        BY <2>1, <3>1 DEF Empty
    <2> QED
      BY <2>2, <2>4, <2>7 DEF LoyaltyInv
  <1>2. LoyaltyTypeOK /\ LoyaltyInv /\ [LoyaltyNext]_loyaltyVars
          => LoyaltyTypeOK' /\ LoyaltyInv'
    <2> SUFFICES ASSUME LoyaltyTypeOK, LoyaltyInv, [LoyaltyNext]_loyaltyVars
                 PROVE  LoyaltyTypeOK' /\ LoyaltyInv'
      OBVIOUS
    <2>1. LoyaltyTypeOK' /\ LoyaltyStep
      BY LoyaltyStepKinds DEF LoyaltyInv
    <2>2. CASE UNCHANGED <<accounts, ledger>>
      BY <2>1, <2>2 DEF LoyaltyInv, EarnedIsPositive, BalancesAreExplained, PointsAreAwarded,
                        Awards, Spendings, EntriesOf
    <2> QED
      BY <2>1, <2>2, OneMoveKeeps, ExpirationKeeps DEF LoyaltyStep
  <1> QED
    BY <1>1, <1>2, PTL DEF LoyaltySpec

(* Accounts, programs and ledger entries are well formed; no balance, and no
   lifetime total, is ever negative.                                       *)
THEOREM LoyaltyTypeCorrect == LoyaltySpec => []LoyaltyTypeOK
  BY AlwaysLoyal, PTL

(* The ledger is an audit trail: of every account, from the first entry to its
   balance of now, whatever calls and batches wrote the entries.           *)
THEOREM LedgerAlwaysExplains == LoyaltySpec => []LedgerExplainsBalance
  BY AlwaysLoyal, ExplainedIsExplained, PTL DEF LoyaltyInv

(* What a tier is computed from is the sum of what was awarded. *)
THEOREM LifetimeAlwaysAwarded == LoyaltySpec => []LifetimeIsAwarded
  BY AlwaysLoyal, AwardedIsAwarded, PTL DEF LoyaltyInv

(* Nobody spends more than was awarded, whatever expires or is adjusted. *)
THEOREM SpentAlwaysAwarded == LoyaltySpec => []SpentPointsWereAwarded
  BY AlwaysLoyal, AwardedIsAwarded, PTL DEF LoyaltyInv

-----------------------------------------------------------------------------
(* Checkout.                                                               *)

(* Well-formed carts, pages and requests.  A cart is always what the pricing
   engine would quote of its items, however it was edited; the fields of a
   page that has left its first step say where the order goes; and an unanswered
   request of the current visit keeps the page submitting.                 *)
QuotedCarts == {Quoted(items) : items \in Seq(Item)}

Page ==
  [visit: Nat, cart: QuotedCarts, step: 0..2, mode: {"pickup", "delivery"},
   address: BOOLEAN, location: BOOLEAN, loads: Nat, method: SavedMethods \cup {NoMethod},
   newCard: BOOLEAN, cardFilled: BOOLEAN, tip: Int, terms: BOOLEAN, submitting: BOOLEAN]

CheckoutTypeOK == stored \in QuotedCarts /\ page \in Page

CheckoutInv ==
  /\ page.step > 0 => FulfillmentChosen
  /\ \A r \in posts : r.visit \in Nat /\ r.visit <= page.visit
  /\ \A r \in posts : r.visit = page.visit => page.submitting
  /\ SubmissionsAreReviewed

(* The subtotal of a quote is a number. *)
LEMMA LineIsTyped ==
  ASSUME NEW item \in Item
  PROVE  /\ Line(item) \in [unit: Int, modifiers: Int, quantity: Int, total: Int]
         /\ Line(item).unit = item.price /\ Line(item).modifiers = item.modifiers
         /\ Line(item).quantity = item.quantity
         /\ Line(item).total = (item.price + item.modifiers) * item.quantity
  <1>1. item.price \in Int /\ item.modifiers \in Int /\ item.quantity \in Int
    BY DEF Item
  <1>2. (item.price + item.modifiers) * item.quantity \in Int
    BY <1>1
  <1> QED
    BY <1>1, <1>2 DEF Line

LEMMA SubtotalIsInt ==
  ASSUME NEW items \in Seq(Item)
  PROVE  Quoted(items).subtotal \in Int
  <1> DEFINE lines == [i \in DOMAIN items |-> Line(items[i])]
             totals == [i \in DOMAIN lines |-> lines[i].total]
  <1>1. \A i \in DOMAIN items : totals[i] \in Int
    <2> SUFFICES ASSUME NEW i \in DOMAIN items
                 PROVE  Line(items[i]).total \in Int
      OBVIOUS
    <2>1. items[i] \in Item
      OBVIOUS
    <2> QED
      BY <2>1, LineIsTyped
  <1>2. IsFiniteSet(DOMAIN items)
    <2>1. Len(items) \in Nat /\ DOMAIN items = 1..Len(items)
      OBVIOUS
    <2> QED
      BY <2>1, FS_Interval
  <1>3. Quoted(items).subtotal = SumFunctionOnSet(totals, DOMAIN items)
    BY DEF Quoted, SubtotalOf
  <1> HIDE DEF totals, lines
  <1> QED
    BY <1>1, <1>2, <1>3, SumInt

(* The edits of the cart page keep the cart a quote of its items.          *)
LEMMA CartIsQuoted ==
  ASSUME NEW cart \in QuotedCarts
  PROVE  /\ cart.items \in Seq(Item) /\ cart = Quoted(cart.items)
         /\ cart.lines = [i \in DOMAIN cart.items |-> Line(cart.items[i])]
         /\ cart.subtotal \in Int
  <1>1. PICK items \in Seq(Item) : cart = Quoted(items)
    BY DEF QuotedCarts
  <1>2. cart.items = items
    BY <1>1 DEF Quoted
  <1>3. cart.lines = [i \in DOMAIN items |-> Line(items[i])]
    BY <1>1 DEF Quoted
  <1>4. cart.subtotal \in Int
    BY <1>1, SubtotalIsInt
  <1> QED
    BY <1>1, <1>2, <1>3, <1>4

LEMMA EmptyIsQuoted == EmptyCart \in QuotedCarts
  <1>1. << >> \in Seq(Item)
    OBVIOUS
  <1> QED
    BY <1>1 DEF EmptyCart, QuotedCarts

(* A cart put together of items and the lines that belong to them.         *)
LEMMA MatchingCart ==
  ASSUME NEW items \in Seq(Item), NEW lines,
         lines = [i \in DOMAIN items |-> Line(items[i])]
  PROVE  [items |-> items, lines |-> lines, subtotal |-> SubtotalOf(lines)] \in QuotedCarts
  BY DEF QuotedCarts, Quoted

LEMMA LineChanged ==
  ASSUME NEW old \in Item, NEW new \in Item, NEW each \in Int,
         new.price = old.price, new.modifiers = old.modifiers,
         each = old.price + old.modifiers
  PROVE  Line(new) = [Line(old) EXCEPT !.quantity = new.quantity, !.total = each * new.quantity]
  <1> DEFINE T   == [unit: Int, modifiers: Int, quantity: Int, total: Int]
             mid == [Line(old) EXCEPT !.quantity = new.quantity]
             end == [mid EXCEPT !.total = each * new.quantity]
  <1>1. /\ Line(old) \in T /\ Line(old).unit = old.price /\ Line(old).modifiers = old.modifiers
        /\ Line(new) \in T /\ Line(new).unit = new.price /\ Line(new).modifiers = new.modifiers
        /\ Line(new).quantity = new.quantity
        /\ Line(new).total = (new.price + new.modifiers) * new.quantity
    BY LineIsTyped
  <1>2. new.quantity \in Int
    BY DEF Item
  <1>3. /\ mid \in T /\ mid.unit = old.price /\ mid.modifiers = old.modifiers
        /\ mid.quantity = new.quantity
    BY <1>1, <1>2
  <1>4. each * new.quantity \in Int
    BY <1>2
  <1> HIDE DEF mid
  <1>5. /\ end \in T /\ end.unit = old.price /\ end.modifiers = old.modifiers
        /\ end.quantity = new.quantity /\ end.total = each * new.quantity
    BY <1>3, <1>4
  <1>6. \A x, y \in T : /\ x.unit = y.unit /\ x.modifiers = y.modifiers
                        /\ x.quantity = y.quantity /\ x.total = y.total
                        => x = y
    OBVIOUS
  <1>7. Line(new) = end
    <2>1. Line(new).total = each * new.quantity
      BY <1>1
    <2> HIDE DEF end, T
    <2> QED
      BY <1>1, <1>5, <1>6, <2>1
  <1> QED
    BY <1>7 DEF mid

LEMMA QuantityUpdated ==
  ASSUME stored \in QuotedCarts, NEW i \in DOMAIN stored.items, NEW delta \in {-1, 1},
         UpdateQuantity(i, delta)
  PROVE  stored' \in QuotedCarts
  <1> DEFINE n     == Max({1, stored.items[i].quantity + delta})
             each  == stored.lines[i].unit + stored.lines[i].modifiers
             items == [stored.items EXCEPT ![i].quantity = n]
             lines == [stored.lines EXCEPT ![i].quantity = n, ![i].total = each * n]
  <1>1. /\ stored.items \in Seq(Item) /\ stored.items[i] \in Item
        /\ stored.lines = [j \in DOMAIN stored.items |-> Line(stored.items[j])]
    BY CartIsQuoted
  <1>2. n \in Int
    <2>1. stored.items[i].quantity + delta \in Int
      BY <1>1 DEF Item
    <2> HIDE DEF n
    <2>2. \A x \in Int : Max({1, x}) \in Int
      <3> SUFFICES ASSUME NEW x \in Int
                   PROVE  Max({1, x}) \in Int
        OBVIOUS
      <3>1. CASE x >= 1
        BY <3>1, MaxIs
      <3>2. CASE ~(x >= 1)
        BY <3>2, MaxIs
      <3> QED
        BY <3>1, <3>2
    <2> QED
      BY <2>1, <2>2 DEF n
  <1> HIDE DEF n
  <1>3. items \in Seq(Item) /\ DOMAIN items = DOMAIN stored.items
    <2>1. [stored.items[i] EXCEPT !.quantity = n] \in Item
      BY <1>1, <1>2 DEF Item
    <2> QED
      BY <1>1, <2>1
  <1>4. lines = [j \in DOMAIN items |-> Line(items[j])]
    <2> DEFINE old == stored.items[i]
               new == [old EXCEPT !.quantity = n]
    <2>1. /\ new.price = old.price /\ new.modifiers = old.modifiers /\ new.quantity = n
          /\ new \in Item
      BY <1>1, <1>2 DEF Item
    <2>2. /\ stored.lines[i] = Line(old)
          /\ each = old.price + old.modifiers
      BY <1>1, LineIsTyped
    <2>3. Line(new) = [Line(old) EXCEPT !.quantity = n, !.total = each * n]
      <3>1. each \in Int /\ old \in Item
        BY <1>1, <2>2 DEF Item
      <3> HIDE DEF new, old, each
      <3> QED
        BY <2>1, <2>2, <3>1, LineChanged
    <2>4. lines = [stored.lines EXCEPT ![i] = Line(new)]
      BY <1>1, <2>2, <2>3
    <2>5. items = [stored.items EXCEPT ![i] = new]
      OBVIOUS
    <2> HIDE DEF new, old, lines, items
    <2> QED
      BY <1>1, <1>3, <2>4, <2>5
  <1>5. stored' = [items |-> items, lines |-> lines, subtotal |-> SubtotalOf(lines)]
    BY DEF UpdateQuantity, CartEdited, n
  <1> HIDE DEF items, lines
  <1> QED
    BY <1>3, <1>4, <1>5, MatchingCart

LEMMA OneRemoved ==
  ASSUME NEW S, NEW s \in Seq(S), NEW i \in DOMAIN s
  PROVE  /\ RemoveAt(s, i) \in Seq(S) /\ DOMAIN RemoveAt(s, i) = 1..(Len(s) - 1)
         /\ \A j \in 1..(Len(s) - 1) :
              RemoveAt(s, i)[j] = IF j < i THEN s[j] ELSE s[j + 1]
  <1> DEFINE front == SubSeq(s, 1, i - 1)
             back  == SubSeq(s, i + 1, Len(s))
             len   == Len(s)
  <1>1. len \in Nat /\ i \in 1..len /\ DOMAIN s = 1..len
    OBVIOUS
  <1>2. front \in Seq(S) /\ Len(front) = i - 1 /\ \A j \in 1..(i - 1) : front[j] = s[j]
    OBVIOUS
  <1>3. back \in Seq(S) /\ Len(back) = len - i /\ \A j \in 1..(len - i) : back[j] = s[j + i]
    OBVIOUS
  <1>4. RemoveAt(s, i) = front \o back
    BY DEF RemoveAt
  <1> HIDE DEF front, back, len
  <1>5. /\ front \o back \in Seq(S) /\ Len(front \o back) = len - 1
        /\ DOMAIN (front \o back) = 1..(len - 1)
    <2>1. front \o back \in Seq(S)
      BY <1>2, <1>3
    <2>2. Len(front \o back) = (i - 1) + (len - i)
      <3>1. Len(front \o back) = Len(front) + Len(back)
        BY <1>2, <1>3, ConcatProperties
      <3> QED
        BY <1>2, <1>3, <3>1
    <2>3. (i - 1) + (len - i) = len - 1
      BY <1>1
    <2> QED
      BY <2>1, <2>2, <2>3
  <1>6. ASSUME NEW j \in 1..(len - 1)
        PROVE  (front \o back)[j] = IF j < i THEN s[j] ELSE s[j + 1]
    <2>1. CASE j < i
      <3>1. j \in 1..(i - 1)
        BY <1>1, <2>1
      <3>2. (front \o back)[j] = front[j]
        BY <1>2, <1>3, <3>1
      <3> QED
        BY <1>2, <2>1, <3>1, <3>2
    <2>2. CASE ~(j < i)
      <3>1. j - (i - 1) \in 1..(len - i) /\ (j - (i - 1)) + i = j + 1
        BY <1>1, <2>2
      <3>2. (front \o back)[j] = back[j - (i - 1)]
        BY <1>1, <1>2, <1>3, <2>2, <3>1
      <3>3. back[j - (i - 1)] = s[(j - (i - 1)) + i]
        BY <1>3, <3>1
      <3> QED
        BY <2>2, <3>1, <3>2, <3>3
    <2> QED
      BY <2>1, <2>2
  <1> QED
    BY <1>4, <1>5, <1>6 DEF len

LEMMA LinesRemoved ==
  ASSUME NEW old \in Seq(Item), NEW i \in DOMAIN old
  PROVE  /\ RemoveAt(old, i) \in Seq(Item)
         /\ RemoveAt([j \in DOMAIN old |-> Line(old[j])], i)
              = [j \in DOMAIN RemoveAt(old, i) |-> Line(RemoveAt(old, i)[j])]
  <1> DEFINE T        == [unit: Int, modifiers: Int, quantity: Int, total: Int]
             oldLines == [j \in DOMAIN old |-> Line(old[j])]
             items    == RemoveAt(old, i)
             lines    == RemoveAt(oldLines, i)
             len      == Len(old)
  <1>1. len \in Nat /\ i \in 1..len /\ DOMAIN old = 1..len /\ \A j \in 1..len : old[j] \in Item
    OBVIOUS
  <1>2. \A item \in Item : Line(item) \in T
    BY LineIsTyped
  <1> HIDE DEF T
  <1>3. oldLines \in Seq(T) /\ Len(oldLines) = len /\ DOMAIN oldLines = 1..len
    <2>1. oldLines \in [1..len -> T]
      BY <1>1, <1>2
    <2> HIDE DEF oldLines
    <2> QED
      BY <1>1, <2>1
  <1>4. \A j \in 1..len : oldLines[j] = Line(old[j])
    BY <1>1
  <1>5. /\ items \in Seq(Item) /\ DOMAIN items = 1..(len - 1)
        /\ \A j \in 1..(len - 1) : items[j] = IF j < i THEN old[j] ELSE old[j + 1]
    BY OneRemoved
  <1> HIDE DEF oldLines
  <1>6. /\ DOMAIN lines = 1..(len - 1) /\ lines \in Seq(T)
        /\ \A j \in 1..(len - 1) : lines[j] = IF j < i THEN oldLines[j] ELSE oldLines[j + 1]
    <2>1. i \in DOMAIN oldLines
      BY <1>1, <1>3
    <2> QED
      BY <1>3, <2>1, OneRemoved
  <1> HIDE DEF items, lines
  <1>7. ASSUME NEW j \in 1..(len - 1)
        PROVE  lines[j] = Line(items[j])
    <2>1. j \in 1..len /\ j + 1 \in 1..len
      BY <1>1
    <2>2. oldLines[j] = Line(old[j]) /\ oldLines[j + 1] = Line(old[j + 1])
      BY <1>4, <2>1
    <2> QED
      BY <1>5, <1>6, <2>2
  <1>8. lines = [j \in DOMAIN items |-> Line(items[j])]
    <2>1. \A j \in DOMAIN items : lines[j] = Line(items[j])
      BY <1>5, <1>7
    <2>2. lines = [j \in DOMAIN lines |-> lines[j]]
      BY <1>6
    <2> QED
      BY <1>5, <1>6, <2>1, <2>2
  <1> QED
    BY <1>5, <1>8 DEF items, lines, oldLines

LEMMA ItemRemoved ==
  ASSUME stored \in QuotedCarts, NEW i \in DOMAIN stored.items, RemoveItem(i)
  PROVE  stored' \in QuotedCarts
  <1> DEFINE items == RemoveAt(stored.items, i)
             lines == RemoveAt(stored.lines, i)
  <1>1. /\ stored.items \in Seq(Item)
        /\ stored.lines = [j \in DOMAIN stored.items |-> Line(stored.items[j])]
    BY CartIsQuoted
  <1>2. items \in Seq(Item) /\ lines = [j \in DOMAIN items |-> Line(items[j])]
    BY <1>1, LinesRemoved
  <1>3. stored' = [items |-> items, lines |-> lines, subtotal |-> SubtotalOf(lines)]
    BY DEF RemoveItem, CartEdited
  <1> HIDE DEF items, lines
  <1> QED
    BY <1>2, <1>3, MatchingCart

(* Reading and setting fields of the page. *)
LEMMA PageIsTyped ==
  ASSUME page \in Page
  PROVE  /\ page.visit \in Nat /\ page.cart \in QuotedCarts /\ page.step \in 0..2
         /\ page.tip \in Int /\ page.cart.subtotal \in Int /\ page.loads \in Nat
         /\ FulfillmentChosen \in BOOLEAN
  <1>1. page.cart \in QuotedCarts
    BY DEF Page
  <1>2. page.cart.subtotal \in Int
    BY <1>1, CartIsQuoted
  <1>3. page.address \in BOOLEAN /\ page.location \in BOOLEAN
    BY DEF Page
  <1>4. FulfillmentChosen \in BOOLEAN
    BY <1>3, Zenon DEF FulfillmentChosen
  <1> QED
    BY <1>1, <1>2, <1>4 DEF Page

(* What most steps of the checkout page have in common: they change its
   fields, and the ones of the first step only when that is shown.         *)
FieldsChange ==
  /\ page' \in Page /\ page'.visit = page.visit /\ page'.cart = page.cart
  /\ page'.submitting = page.submitting
  /\ page'.step > 0 => FulfillmentChosen'
  /\ UNCHANGED <<stored, posts>>

LEMMA FirstStepChanges ==
  ASSUME page \in Page, ChooseFulfillment \/ ToPayment
  PROVE  FieldsChange
  <1>1. page.step = 0 /\ page.loads + 1 \in Nat
    BY DEF ChooseFulfillment, ToPayment, Shows, Page
  <1>2. CASE ChooseFulfillment
    <2>1. CASE \E mode \in {"pickup", "delivery"} : OnPage([page EXCEPT !.mode = mode])
      BY <1>1, <2>1 DEF OnPage, FieldsChange, Page
    <2>2. CASE \E filled \in BOOLEAN : OnPage([page EXCEPT !.address = filled])
      BY <1>1, <2>2 DEF OnPage, FieldsChange, Page
    <2>3. CASE OnPage([page EXCEPT !.location = TRUE])
      <3>1. PICK there \in BOOLEAN : OnPage([page EXCEPT !.location = there])
        BY <2>3
      <3> QED
        BY <1>1, <3>1 DEF OnPage, FieldsChange, Page
    <2> QED
      BY <1>2, <2>1, <2>2, <2>3 DEF ChooseFulfillment
  <1>3. CASE ToPayment
    <2>1. FulfillmentChosen /\ page' = [page EXCEPT !.step = 1, !.loads = @ + 1]
          /\ UNCHANGED <<stored, posts>>
      BY <1>3 DEF ToPayment, OnPage
    <2>2. /\ page' \in Page /\ page'.visit = page.visit /\ page'.cart = page.cart
          /\ page'.submitting = page.submitting
          /\ page'.mode = page.mode /\ page'.address = page.address
          /\ page'.location = page.location
      <3> DEFINE next == [page EXCEPT !.step = 1]
      <3>1. page' = [next EXCEPT !.loads = page.loads + 1]
        BY <2>1
      <3>2. /\ next \in Page /\ next.visit = page.visit /\ next.cart = page.cart
            /\ next.submitting = page.submitting
            /\ next.mode = page.mode /\ next.address = page.address
            /\ next.location = page.location
        BY DEF Page
      <3> HIDE DEF next
      <3> QED
        BY <1>1, <3>1, <3>2 DEF Page
    <2> QED
      BY <2>1, <2>2 DEF FieldsChange, FulfillmentChosen
  <1> QED
    BY <1>2, <1>3

(* The fields of the other steps. *)
SamePlace(p, q) ==
  /\ q \in Page /\ q.visit = p.visit /\ q.cart = p.cart /\ q.submitting = p.submitting
  /\ q.mode = p.mode /\ q.address = p.address /\ q.location = p.location

LEMMA FieldSet ==
  ASSUME NEW p \in Page
  PROVE  /\ \A s \in 0..2 : SamePlace(p, [p EXCEPT !.step = s]) /\ [p EXCEPT !.step = s].step = s
         /\ \A n \in Nat :
              SamePlace(p, [p EXCEPT !.loads = n]) /\ [p EXCEPT !.loads = n].step = p.step
         /\ \A m \in SavedMethods \cup {NoMethod} :
              SamePlace(p, [p EXCEPT !.method = m]) /\ [p EXCEPT !.method = m].step = p.step
         /\ \A b \in BOOLEAN :
              SamePlace(p, [p EXCEPT !.newCard = b]) /\ [p EXCEPT !.newCard = b].step = p.step
         /\ \A b \in BOOLEAN :
              SamePlace(p, [p EXCEPT !.cardFilled = b]) /\ [p EXCEPT !.cardFilled = b].step = p.step
         /\ \A cents \in Int :
              SamePlace(p, [p EXCEPT !.tip = cents]) /\ [p EXCEPT !.tip = cents].step = p.step
         /\ \A b \in BOOLEAN :
              SamePlace(p, [p EXCEPT !.terms = b]) /\ [p EXCEPT !.terms = b].step = p.step
  <1>1. \A s \in 0..2 : SamePlace(p, [p EXCEPT !.step = s]) /\ [p EXCEPT !.step = s].step = s
    BY DEF SamePlace, Page
  <1>2. \A n \in Nat :
          SamePlace(p, [p EXCEPT !.loads = n]) /\ [p EXCEPT !.loads = n].step = p.step
    BY DEF SamePlace, Page
  <1>3. \A m \in SavedMethods \cup {NoMethod} :
          SamePlace(p, [p EXCEPT !.method = m]) /\ [p EXCEPT !.method = m].step = p.step
    BY DEF SamePlace, Page
  <1>4. \A b \in BOOLEAN :
          SamePlace(p, [p EXCEPT !.newCard = b]) /\ [p EXCEPT !.newCard = b].step = p.step
    BY DEF SamePlace, Page
  <1>5. \A b \in BOOLEAN :
          SamePlace(p, [p EXCEPT !.cardFilled = b]) /\ [p EXCEPT !.cardFilled = b].step = p.step
    BY DEF SamePlace, Page
  <1>6. \A cents \in Int :
          SamePlace(p, [p EXCEPT !.tip = cents]) /\ [p EXCEPT !.tip = cents].step = p.step
    BY DEF SamePlace, Page
  <1>7. \A b \in BOOLEAN :
          SamePlace(p, [p EXCEPT !.terms = b]) /\ [p EXCEPT !.terms = b].step = p.step
    BY DEF SamePlace, Page
  <1> QED
    BY <1>1, <1>2, <1>3, <1>4, <1>5, <1>6, <1>7

LEMMA SameFields ==
  ASSUME page \in Page, page.step > 0 => FulfillmentChosen, NEW q, SamePlace(page, q),
         q.step > 0 => page.step > 0, OnPage(q)
  PROVE  FieldsChange
  <1>1. page' = q /\ UNCHANGED <<stored, posts>>
    BY DEF OnPage
  <1>2. FulfillmentChosen' = FulfillmentChosen
    BY <1>1 DEF FulfillmentChosen, SamePlace
  <1> QED
    BY <1>1, <1>2 DEF SamePlace, FieldsChange

LEMMA MethodSet ==
  ASSUME NEW p \in Page, NEW m \in SavedMethods \cup {NoMethod}, NEW b \in BOOLEAN
  PROVE  /\ SamePlace(p, [p EXCEPT !.method = m, !.newCard = b])
         /\ [p EXCEPT !.method = m, !.newCard = b].step = p.step
  <1> DEFINE q == [p EXCEPT !.method = m]
             r == [q EXCEPT !.newCard = b]
  <1>1. SamePlace(p, q) /\ q.step = p.step
    BY FieldSet
  <1>2. q \in Page
    BY <1>1 DEF SamePlace
  <1> HIDE DEF q
  <1>3. SamePlace(q, r) /\ r.step = q.step
    BY <1>2, FieldSet
  <1> HIDE DEF r
  <1>4. SamePlace(p, r) /\ r.step = p.step
    BY <1>1, <1>3 DEF SamePlace
  <1>5. r = [p EXCEPT !.method = m, !.newCard = b]
    BY DEF r, q
  <1> QED
    BY <1>4, <1>5

LEMMA MethodsChange ==
  ASSUME page \in Page, page.step > 0 => FulfillmentChosen, MethodsArrive
  PROVE  FieldsChange
  <1> DEFINE answered == [page EXCEPT !.loads = page.loads - 1]
  <1>1. page.loads - 1 \in Nat
    BY DEF MethodsArrive, Page
  <1>2. SamePlace(page, answered) /\ answered.step = page.step
    BY <1>1, FieldSet
  <1>3. answered \in Page
    BY <1>2 DEF SamePlace
  <1>4. PICK q : /\ OnPage(q) /\ SamePlace(answered, q) /\ q.step = answered.step
    <2>1. CASE OnPage([page EXCEPT !.loads = @ - 1, !.method = DefaultMethod, !.newCard = FALSE])
      <3> DEFINE r == [answered EXCEPT !.method = DefaultMethod, !.newCard = FALSE]
      <3>1. OnPage(r)
        BY <2>1
      <3>2. FALSE \in BOOLEAN /\ DefaultMethod \in SavedMethods \cup {NoMethod}
        BY CheckoutAssumption
      <3> HIDE DEF answered
      <3>3. SamePlace(answered, r) /\ r.step = answered.step
        BY <1>3, <3>2, MethodSet
      <3> QED
        BY <3>1, <3>3
    <2>2. CASE OnPage([page EXCEPT !.loads = @ - 1, !.newCard = TRUE])
      <3> DEFINE r == [answered EXCEPT !.newCard = TRUE]
      <3>1. OnPage(r)
        BY <2>2
      <3>2. TRUE \in BOOLEAN
        OBVIOUS
      <3> HIDE DEF answered
      <3>3. SamePlace(answered, r) /\ r.step = answered.step
        BY <1>3, <3>2, FieldSet
      <3> QED
        BY <3>1, <3>3
    <2> QED
      BY <2>1, <2>2 DEF MethodsArrive
  <1> HIDE DEF answered
  <1>5. SamePlace(page, q) /\ q.step = page.step
    BY <1>2, <1>4 DEF SamePlace
  <1> QED
    BY <1>4, <1>5, SameFields

LEMMA PaymentChosen ==
  ASSUME page \in Page, page.step > 0 => FulfillmentChosen, ChoosePayment
  PROVE  FieldsChange
  <1>1. CASE \E method \in SavedMethods :
               OnPage([page EXCEPT !.method = method, !.newCard = FALSE])
    <2>1. PICK method \in SavedMethods : OnPage([page EXCEPT !.method = method, !.newCard = FALSE])
      BY <1>1
    <2> DEFINE q == [page EXCEPT !.method = method, !.newCard = FALSE]
    <2>2. FALSE \in BOOLEAN /\ method \in SavedMethods \cup {NoMethod}
      OBVIOUS
    <2>3. SamePlace(page, q) /\ q.step = page.step
      BY <2>2, MethodSet
    <2> HIDE DEF q
    <2> QED
      BY <2>1, <2>3, SameFields DEF q
  <1>2. CASE OnPage([page EXCEPT !.method = NoMethod, !.newCard = TRUE])
    <2> DEFINE q == [page EXCEPT !.method = NoMethod, !.newCard = TRUE]
    <2>2. TRUE \in BOOLEAN /\ NoMethod \in SavedMethods \cup {NoMethod}
      OBVIOUS
    <2>3. SamePlace(page, q) /\ q.step = page.step
      BY <2>2, MethodSet
    <2>4. OnPage(q)
      BY <1>2
    <2> HIDE DEF q
    <2> QED
      BY <2>3, <2>4, SameFields
  <1>3. CASE \E filled \in BOOLEAN : OnPage([page EXCEPT !.cardFilled = filled])
    <2>1. PICK filled \in BOOLEAN : OnPage([page EXCEPT !.cardFilled = filled])
      BY <1>3
    <2> DEFINE q == [page EXCEPT !.cardFilled = filled]
    <2>2. SamePlace(page, q) /\ q.step = page.step
      BY FieldSet
    <2>3. OnPage(q)
      BY <2>1
    <2> HIDE DEF q
    <2> QED
      BY <2>2, <2>3, SameFields
  <1> QED
    BY <1>1, <1>2, <1>3 DEF ChoosePayment

LEMMA OtherFieldsChange ==
  ASSUME page \in Page, page.step > 0 => FulfillmentChosen,
         ChooseTip \/ ToReview \/ GoBack \/ AcceptTerms
  PROVE  FieldsChange
  <1>1. PICK q : OnPage(q) /\ SamePlace(page, q) /\ (q.step > 0 => page.step > 0)
    <2>1. CASE ChooseTip
      <3>1. PICK cents \in Int : OnPage([page EXCEPT !.tip = cents])
        <4>1. \A percent \in TipPresets :
                (page.cart.subtotal * percent + 50) \div 100 \in Int
          <5> SUFFICES ASSUME NEW percent \in TipPresets
                       PROVE  (page.cart.subtotal * percent + 50) \div 100 \in Int
            OBVIOUS
          <5>1. page.cart.subtotal \in Int /\ percent \in Int
            BY PageIsTyped, CheckoutAssumption
          <5>2. page.cart.subtotal * percent + 50 \in Int
            BY <5>1
          <5> QED
            BY <5>2
        <4>2. \A cents \in CustomTips : cents \in Int
          BY CheckoutAssumption
        <4> QED
          BY <2>1, <4>1, <4>2 DEF ChooseTip
      <3>2. /\ SamePlace(page, [page EXCEPT !.tip = cents])
            /\ [page EXCEPT !.tip = cents].step = page.step
        BY FieldSet
      <3> QED
        BY <3>1, <3>2
    <2>2. CASE ToReview
      <3>1. page.step = 1 /\ OnPage([page EXCEPT !.step = 2])
        BY <2>2 DEF ToReview, Shows
      <3>2. SamePlace(page, [page EXCEPT !.step = 2])
        <4>1. 2 \in 0..2
          OBVIOUS
        <4> QED
          BY <4>1, FieldSet
      <3> QED
        BY <3>1, <3>2
    <2>3. CASE GoBack
      <3>1. page.step > 0 /\ OnPage([page EXCEPT !.step = page.step - 1])
        BY <2>3 DEF GoBack
      <3>2. page.step - 1 \in 0..2
        BY <3>1, PageIsTyped
      <3>3. SamePlace(page, [page EXCEPT !.step = page.step - 1])
        BY <3>2, FieldSet
      <3> QED
        BY <3>1, <3>3
    <2>4. CASE AcceptTerms
      <3>1. PICK accepted \in BOOLEAN : OnPage([page EXCEPT !.terms = accepted])
        BY <2>4 DEF AcceptTerms
      <3>2. /\ SamePlace(page, [page EXCEPT !.terms = accepted])
            /\ [page EXCEPT !.terms = accepted].step = page.step
        BY FieldSet
      <3> QED
        BY <3>1, <3>2
    <2> QED
      BY <2>1, <2>2, <2>3, <2>4
  <1> QED
    BY <1>1, SameFields

(* The steps that open the page, send a request and answer one.            *)
LEMMA VisitIsPage ==
  ASSUME stored \in QuotedCarts, NEW n \in Nat
  PROVE  /\ Visit(n) \in Page /\ Visit(n).visit = n /\ Visit(n).step = 0
         /\ Visit(n).submitting = FALSE
  BY DEF Visit, Page

LEMMA CheckoutOpened ==
  ASSUME CheckoutTypeOK, CheckoutInv, OpenCheckout
  PROVE  CheckoutTypeOK' /\ CheckoutInv'
  <1>1. page.visit \in Nat /\ page.visit + 1 \in Nat
    BY PageIsTyped DEF CheckoutTypeOK
  <1>2. /\ page' = Visit(page.visit + 1) /\ UNCHANGED <<stored, posts>>
    BY DEF OpenCheckout, OnPage
  <1>3. /\ page' \in Page /\ page'.visit = page.visit + 1 /\ page'.step = 0
    BY <1>1, <1>2, VisitIsPage DEF CheckoutTypeOK
  <1>4. \A r \in posts : r.visit \in Nat /\ r.visit <= page'.visit /\ r.visit # page'.visit
    BY <1>1, <1>3 DEF CheckoutInv
  <1> QED
    BY <1>2, <1>3, <1>4 DEF CheckoutTypeOK, CheckoutInv, SubmissionsAreReviewed

LEMMA OrderPlaced ==
  ASSUME CheckoutTypeOK, CheckoutInv, PlaceOrder
  PROVE  CheckoutTypeOK' /\ CheckoutInv'
  <1> DEFINE post == [session |-> TRUE, email |-> "null", visit |-> page.visit,
                      items |-> page.cart.items, mode |-> page.mode,
                      address |-> AddressSent, tip |-> page.tip, total |-> ReviewTotal]
  <1>1. /\ ~page.submitting /\ page.step = 2 /\ page.cart.items # << >>
        /\ page' = [page EXCEPT !.submitting = TRUE]
        /\ posts' = posts \cup {post} /\ UNCHANGED stored
    BY DEF PlaceOrder, Shows
  <1>2. /\ page' \in Page /\ page'.visit = page.visit /\ page'.submitting
        /\ page'.step = page.step /\ FulfillmentChosen' = FulfillmentChosen
    <2>1. PICK sent \in BOOLEAN : sent = TRUE /\ page' = [page EXCEPT !.submitting = sent]
      BY <1>1
    <2>2. /\ page' \in Page /\ page'.visit = page.visit /\ page'.submitting = sent
          /\ page'.step = page.step /\ page'.mode = page.mode
          /\ page'.address = page.address /\ page'.location = page.location
      BY <2>1 DEF CheckoutTypeOK, Page
    <2>3. FulfillmentChosen' = FulfillmentChosen
      BY <2>2 DEF FulfillmentChosen
    <2> QED
      BY <2>1, <2>2, <2>3
  <1>3. FulfillmentChosen
    BY <1>1 DEF CheckoutInv
  <1>4. page.cart \in QuotedCarts /\ page.visit \in Nat
    BY PageIsTyped DEF CheckoutTypeOK
  <1>5. page.cart = Quoted(page.cart.items)
    BY <1>4, CartIsQuoted
  <1>6. /\ post.visit = page.visit /\ post.items # << >>
        /\ post.mode = "delivery" => post.address = "filled"
        /\ post.total = Quoted(post.items).subtotal + post.tip
    <2>1. /\ post.visit = page.visit /\ post.items = page.cart.items
          /\ post.tip = page.tip /\ post.total = page.cart.subtotal + page.tip
      BY DEF ReviewTotal
    <2>2. post.mode = "delivery" => post.address = "filled"
      <3>1. post.mode = page.mode /\ post.address = AddressSent
        OBVIOUS
      <3> HIDE DEF post
      <3> QED
        BY <1>3, <3>1 DEF FulfillmentChosen, AddressSent
    <2> HIDE DEF post
    <2> QED
      BY <1>1, <1>5, <2>1, <2>2
  <1>7. \A r \in posts : r.visit # page.visit
    BY <1>1 DEF CheckoutInv
  <1> HIDE DEF post
  <1>8. SubmissionsAreReviewed'
    <2>1. \A r \in posts \cup {post} :
            /\ r.items # << >> /\ (r.mode = "delivery" => r.address = "filled")
            /\ r.total = Quoted(r.items).subtotal + r.tip
            /\ \A other \in posts \cup {post} : other.visit = r.visit => other = r
      BY <1>6, <1>7 DEF CheckoutInv, SubmissionsAreReviewed
    <2> QED
      BY <1>1, <2>1 DEF SubmissionsAreReviewed
  <1>9. \A r \in posts \cup {post} : /\ r.visit \in Nat /\ r.visit <= page.visit
    BY <1>4, <1>6 DEF CheckoutInv
  <1> QED
    BY <1>1, <1>2, <1>3, <1>8, <1>9 DEF CheckoutTypeOK, CheckoutInv

LEMMA OrderFailed ==
  ASSUME CheckoutTypeOK, CheckoutInv, NEW r \in posts, OrderFails(r)
  PROVE  CheckoutTypeOK' /\ CheckoutInv'
  <1> DEFINE still == page.submitting /\ r.visit # page.visit
  <1>1. posts' = posts \ {r} /\ page' = [page EXCEPT !.submitting = still] /\ UNCHANGED stored
    BY DEF OrderFails
  <1>2. still \in BOOLEAN
    OBVIOUS
  <1> HIDE DEF still
  <1>3. /\ page' \in Page /\ page'.visit = page.visit /\ page'.submitting = still
        /\ page'.step = page.step /\ page'.mode = page.mode
        /\ page'.address = page.address /\ page'.location = page.location
    BY <1>1, <1>2 DEF CheckoutTypeOK, Page
  <1>4. FulfillmentChosen' = FulfillmentChosen
    BY <1>3 DEF FulfillmentChosen
  <1>5. \A other \in posts' : other.visit = page.visit => still
    <2> SUFFICES ASSUME NEW other \in posts', other.visit = page.visit
                 PROVE  still
      OBVIOUS
    <2>1. other \in posts /\ other # r /\ page.submitting
      BY <1>1 DEF CheckoutInv
    <2>2. r.visit # page.visit
      BY <2>1 DEF CheckoutInv, SubmissionsAreReviewed
    <2> QED
      BY <2>1, <2>2 DEF still
  <1>6. SubmissionsAreReviewed'
    BY <1>1 DEF CheckoutInv, SubmissionsAreReviewed
  <1> QED
    BY <1>1, <1>3, <1>4, <1>5, <1>6 DEF CheckoutTypeOK, CheckoutInv

LEMMA FieldsKeep ==
  ASSUME CheckoutTypeOK, CheckoutInv, FieldsChange
  PROVE  CheckoutTypeOK' /\ CheckoutInv'
  BY DEF CheckoutTypeOK, CheckoutInv, FieldsChange, SubmissionsAreReviewed

LEMMA CartKept ==
  ASSUME CheckoutTypeOK, CheckoutInv, stored' \in QuotedCarts, UNCHANGED <<page, posts>>
  PROVE  CheckoutTypeOK' /\ CheckoutInv'
  BY DEF CheckoutTypeOK, CheckoutInv, SubmissionsAreReviewed, FulfillmentChosen

LEMMA AlwaysReviewed == CheckoutSpec => [](CheckoutTypeOK /\ CheckoutInv)
  <1>1. CheckoutInit => CheckoutTypeOK /\ CheckoutInv
    <2> SUFFICES ASSUME CheckoutInit
                 PROVE  CheckoutTypeOK /\ CheckoutInv
      OBVIOUS
    <2>1. stored \in QuotedCarts /\ page = Visit(0) /\ posts = {}
      BY EmptyIsQuoted DEF CheckoutInit
    <2>2. page \in Page /\ page.step = 0
      BY <2>1, VisitIsPage
    <2> QED
      BY <2>1, <2>2 DEF CheckoutTypeOK, CheckoutInv, SubmissionsAreReviewed
  <1>2. CheckoutTypeOK /\ CheckoutInv /\ [CheckoutNext]_checkoutVars
          => CheckoutTypeOK' /\ CheckoutInv'
    <2> SUFFICES ASSUME CheckoutTypeOK, CheckoutInv, [CheckoutNext]_checkoutVars
                 PROVE  CheckoutTypeOK' /\ CheckoutInv'
      OBVIOUS
    <2>1. CASE \E items \in Carts : CartArrives(items)
      <3>1. stored' \in QuotedCarts /\ UNCHANGED <<page, posts>>
        BY <2>1, CheckoutAssumption DEF CartArrives, CartEdited, QuotedCarts
      <3> QED
        BY <3>1, CartKept
    <2>2. CASE \E i \in DOMAIN stored.items :
                 (\E delta \in {-1, 1} : UpdateQuantity(i, delta)) \/ RemoveItem(i)
      <3>1. stored' \in QuotedCarts
        BY <2>2, QuantityUpdated, ItemRemoved DEF CheckoutTypeOK
      <3>2. UNCHANGED <<page, posts>>
        BY <2>2 DEF UpdateQuantity, RemoveItem, CartEdited
      <3> QED
        BY <3>1, <3>2, CartKept
    <2>3. CASE ClearCart
      <3>1. stored' \in QuotedCarts /\ UNCHANGED <<page, posts>>
        BY <2>3, EmptyIsQuoted DEF ClearCart, CartEdited
      <3> QED
        BY <3>1, CartKept
    <2>4. CASE \/ ChooseFulfillment \/ ToPayment \/ MethodsArrive
               \/ ChoosePayment \/ ChooseTip \/ ToReview \/ GoBack \/ AcceptTerms
      <3>1. page \in Page /\ (page.step > 0 => FulfillmentChosen)
        BY DEF CheckoutTypeOK, CheckoutInv
      <3>2. FieldsChange
        BY <2>4, <3>1, FirstStepChanges, MethodsChange, PaymentChosen, OtherFieldsChange
      <3> QED
        BY <3>2, FieldsKeep
    <2>5. CASE OpenCheckout
      BY <2>5, CheckoutOpened
    <2>6. CASE PlaceOrder
      BY <2>6, OrderPlaced
    <2>7. CASE \E r \in posts : OrderFails(r)
      BY <2>7, OrderFailed
    <2>8. CASE UNCHANGED checkoutVars
      BY <2>8 DEF checkoutVars, CheckoutTypeOK, CheckoutInv, SubmissionsAreReviewed,
                  FulfillmentChosen
    <2> QED
      BY <2>1, <2>2, <2>3, <2>4, <2>5, <2>6, <2>7, <2>8 DEF CheckoutNext
  <1> QED
    BY <1>1, <1>2, PTL DEF CheckoutSpec

(* The cart in storage and the page are always well formed, and their cart is
   what the pricing engine would quote of its items.                       *)
THEOREM CheckoutTypeCorrect == CheckoutSpec => []CheckoutTypeOK
  BY AlwaysReviewed, PTL

(* Whatever the customer edits on the way back and forth between two pages:
   what leaves the checkout page is reviewed, complete, and sent once a visit. *)
THEOREM SubmissionsAlwaysReviewed == CheckoutSpec => []SubmissionsAreReviewed
  BY AlwaysReviewed, PTL DEF CheckoutInv

-----------------------------------------------------------------------------
(* Carts.  First tables, and what they have at some of their places.       *)

(* The places of a set in their order. *)
Enumerates(e, n, P) ==
  /\ n \in Nat
  /\ \A k \in 1..n : e[k] \in P
  /\ \A j, k \in 1..n : j < k => e[j] < e[k]
  /\ \A p \in P : \E k \in 1..n : e[k] = p

Agree(e, f, m, i) == i \in 1..m /\ e[i] = f[i]

LEMMA SameEnumeration ==
  ASSUME NEW P, P \subseteq Nat, NEW e, NEW n, Enumerates(e, n, P),
         NEW f, NEW m, Enumerates(f, m, P), NEW i \in 1..n
  PROVE  Agree(e, f, m, i)
  <1> DEFINE Bad == {k \in Nat : k \in 1..n /\ ~(k \in 1..m /\ e[k] = f[k])}
  <1>1. Bad = {}
    <2> SUFFICES ASSUME Bad # {}
                 PROVE  FALSE
      OBVIOUS
    <2>1. PICK k \in Bad : \A j \in Bad : ~(j < k)
      <3>1. Bad \subseteq Nat
        OBVIOUS
      <3> HIDE DEF Bad
      <3> QED
        BY <3>1, SmallestNumber
    <2>2. k \in 1..n /\ n \in Nat /\ m \in Nat /\ ~(k \in 1..m /\ e[k] = f[k])
      BY <2>1 DEF Enumerates
    <2>3. ASSUME NEW j \in 1..n, j < k
          PROVE  j \in 1..m /\ e[j] = f[j]
      <3>1. j \notin Bad /\ j \in Nat
        BY <2>1, <2>3
      <3> QED
        BY <3>1
    <2> HIDE DEF Bad
    <2>4. PICK j \in 1..m : f[j] = e[k]
      BY <2>2 DEF Enumerates
    <2>5. ~(j < k)
      <3> SUFFICES ASSUME j < k
                   PROVE  FALSE
        OBVIOUS
      <3>1. j \in 1..n /\ e[j] = f[j]
        BY <2>2, <2>3
      <3>2. e[j] < e[k] /\ e[j] \in Nat
        BY <2>2, <3>1 DEF Enumerates
      <3> QED
        BY <2>4, <3>1, <3>2
    <2>6. k \in 1..m
      BY <2>2, <2>4, <2>5
    <2>7. PICK i1 \in 1..n : e[i1] = f[k]
      BY <2>6 DEF Enumerates
    <2>8. ~(i1 < k)
      <3> SUFFICES ASSUME i1 < k
                   PROVE  FALSE
        OBVIOUS
      <3>1. i1 \in 1..m /\ e[i1] = f[i1]
        BY <2>3
      <3>2. f[i1] < f[k] /\ f[i1] \in Nat
        BY <2>6, <3>1 DEF Enumerates
      <3> QED
        BY <2>7, <3>1, <3>2
    <2>9. e[k] = e[i1] \/ e[k] < e[i1]
      BY <2>2, <2>8 DEF Enumerates
    <2>10. f[k] = f[j] \/ f[k] < f[j]
      BY <2>5, <2>6 DEF Enumerates
    <2>11. e[k] \in Nat /\ f[k] \in Nat
      BY <2>2, <2>6 DEF Enumerates
    <2> QED
      BY <2>2, <2>4, <2>6, <2>7, <2>9, <2>10, <2>11
  <1>2. i \in Nat
    BY DEF Enumerates
  <1> QED
    BY <1>1, <1>2 DEF Agree

(* What a table has at some places, by their enumeration. *)
Picks(t, P, q) ==
  \E e : \E n \in Nat : Enumerates(e, n, P) /\ q = [k \in 1..n |-> t[e[k]]]

LEMMA OnePick ==
  ASSUME NEW t, NEW P, P \subseteq Nat, NEW q, NEW r, Picks(t, P, q), Picks(t, P, r)
  PROVE  q = r
  <1>1. PICK e : \E n \in Nat : Enumerates(e, n, P) /\ q = [k \in 1..n |-> t[e[k]]]
    BY DEF Picks
  <1>2. PICK n \in Nat : Enumerates(e, n, P) /\ q = [k \in 1..n |-> t[e[k]]]
    BY <1>1
  <1>3. PICK f : \E m \in Nat : Enumerates(f, m, P) /\ r = [k \in 1..m |-> t[f[k]]]
    BY DEF Picks
  <1>4. PICK m \in Nat : Enumerates(f, m, P) /\ r = [k \in 1..m |-> t[f[k]]]
    BY <1>3
  <1>a. Enumerates(e, n, P) /\ Enumerates(f, m, P)
    BY <1>2, <1>4
  <1>5. ASSUME NEW k \in 1..n
        PROVE  k \in 1..m /\ e[k] = f[k]
    <2>1. Agree(e, f, m, k)
      BY <1>a, SameEnumeration, Zenon
    <2> QED
      BY <2>1 DEF Agree
  <1>6. ASSUME NEW k \in 1..m
        PROVE  k \in 1..n
    <2>1. Agree(f, e, n, k)
      BY <1>a, SameEnumeration, Zenon
    <2> QED
      BY <2>1 DEF Agree
  <1>7. 1..n = 1..m
    BY <1>5, <1>6
  <1> QED
    BY <1>2, <1>4, <1>5, <1>7

LEMMA PickNothing ==
  ASSUME NEW t
  PROVE  Picks(t, {}, << >>)
  <1>1. Enumerates(<< >>, 0, {})
    BY DEF Enumerates
  <1>2. << >> = [k \in 1..0 |-> t[<< >>[k]]]
    OBVIOUS
  <1> QED
    BY <1>1, <1>2 DEF Picks

(* One place more, behind all others. *)
LEMMA PickOneMore ==
  ASSUME NEW T, NEW t \in Seq(T), NEW P, P \subseteq Nat, NEW p \in DOMAIN t,
         \A x \in P : x \in DOMAIN t /\ x < p, NEW q, Picks(t, P, q)
  PROVE  Picks(t, P \cup {p}, Append(q, t[p]))
  <1>1. PICK e : \E n \in Nat : Enumerates(e, n, P) /\ q = [k \in 1..n |-> t[e[k]]]
    BY DEF Picks
  <1>2. PICK n \in Nat : Enumerates(e, n, P) /\ q = [k \in 1..n |-> t[e[k]]]
    BY <1>1
  <1> DEFINE f == [k \in 1..(n + 1) |-> IF k = n + 1 THEN p ELSE e[k]]
  <1>3. p \in Nat
    OBVIOUS
  <1>4. Enumerates(f, n + 1, P \cup {p})
    <2>1. \A k \in 1..n : k \in 1..(n + 1) /\ k # n + 1 /\ f[k] = e[k] /\ e[k] \in P
      BY <1>2 DEF Enumerates
    <2>2. f[n + 1] = p /\ n + 1 \in 1..(n + 1)
      OBVIOUS
    <2>3. \A k \in 1..(n + 1) : k \in 1..n \/ k = n + 1
      OBVIOUS
    <2> HIDE DEF f
    <2>4. \A k \in 1..(n + 1) : f[k] \in P \cup {p}
      BY <2>1, <2>2, <2>3
    <2>5. ASSUME NEW j \in 1..(n + 1), NEW k \in 1..(n + 1), j < k
          PROVE  f[j] < f[k]
      <3>1. j \in 1..n
        BY <2>5
      <3>2. CASE k \in 1..n
        BY <1>2, <2>1, <2>5, <3>1, <3>2 DEF Enumerates
      <3>3. CASE k = n + 1
        BY <2>1, <2>2, <3>1, <3>3
      <3> QED
        BY <2>3, <3>2, <3>3
    <2>6. \A x \in P \cup {p} : \E k \in 1..(n + 1) : f[k] = x
      BY <1>2, <2>1, <2>2 DEF Enumerates
    <2> QED
      BY <2>4, <2>5, <2>6 DEF Enumerates
  <1>5. q \in Seq(T)
    <2>1. \A k \in 1..n : e[k] \in DOMAIN t
      BY <1>2 DEF Enumerates
    <2>3. \A x \in DOMAIN t : t[x] \in T
      OBVIOUS
    <2>4. \A k \in 1..n : t[e[k]] \in T
      BY <2>1, <2>3, Zenon
    <2>2. q \in [1..n -> T]
      BY <1>2, <2>4, Zenon
    <2> QED
      BY <2>2
  <1>6. Append(q, t[p]) = [k \in 1..(n + 1) |-> t[f[k]]]
    <2>1. Len(q) = n
      <3>1. DOMAIN q = 1..n
        BY <1>2
      <3>2. DOMAIN q = 1..Len(q) /\ Len(q) \in Nat
        BY <1>5
      <3> QED
        BY <3>1, <3>2
    <2>5. PICK x : x = t[p]
      OBVIOUS
    <2>6. Append(q, x) \in Seq(T) /\ Len(Append(q, x)) = n + 1
      <3>1. x \in T
        BY <2>5
      <3>2. Append(q, x) \in Seq(T) /\ Len(Append(q, x)) = Len(q) + 1
        BY <1>5, <3>1, AppendProperties
      <3> QED
        BY <2>1, <3>2, Zenon
    <2>7. Append(q, x) = [k \in 1..(n + 1) |-> Append(q, x)[k]]
      <3>1. PICK s : s = Append(q, x)
        OBVIOUS
      <3>2. s \in Seq(T) /\ Len(s) = n + 1
        BY <2>6, <3>1
      <3>3. s = [k \in 1..(n + 1) |-> s[k]]
        BY <3>2
      <3> QED
        BY <3>1, <3>3
    <2>8. \A k \in 1..(n + 1) : Append(q, x)[k] = IF k = n + 1 THEN x ELSE q[k]
      BY <1>5, <2>1
    <2>2. Append(q, t[p]) = [k \in 1..(n + 1) |-> IF k = n + 1 THEN t[p] ELSE q[k]]
      BY <2>5, <2>7, <2>8
    <2>3. \A k \in 1..(n + 1) : (IF k = n + 1 THEN t[p] ELSE q[k]) = t[f[k]]
      BY <1>2
    <2> HIDE DEF f
    <2> QED
      BY <2>2, <2>3
  <1> HIDE DEF f
  <1> QED
    BY <1>4, <1>6 DEF Picks

(* The recursion of At. *)
AtStep(t, P, f, n) ==
  IF n = 0 THEN << >> ELSE IF n \in P THEN Append(f[n - 1], t[n]) ELSE f[n - 1]

IsAt(f, t, P) == f = [n \in 0..Len(t) |-> AtStep(t, P, f, n)]

(* What has been picked up to a place. *)
PicksTo(t, P, n, q) == Picks(t, P \cap 1..n, q)

LEMMA OnePickTo ==
  ASSUME NEW t, NEW P, NEW n, NEW q, NEW r, PicksTo(t, P, n, q), PicksTo(t, P, n, r)
  PROVE  q = r
  <1>1. P \cap 1..n \subseteq Nat
    OBVIOUS
  <1> QED
    BY <1>1, OnePick DEF PicksTo

LEMMA PickStep ==
  ASSUME NEW T, NEW t \in Seq(T), NEW P, NEW n \in 1..Len(t), NEW q, PicksTo(t, P, n - 1, q)
  PROVE  PicksTo(t, P, n, IF n \in P THEN Append(q, t[n]) ELSE q)
  <1>1. CASE n \in P
    <2>1. P \cap 1..n = (P \cap 1..(n - 1)) \cup {n}
      BY <1>1
    <2>2. \A x \in P \cap 1..(n - 1) : x \in DOMAIN t /\ x < n
      OBVIOUS
    <2>3. Picks(t, (P \cap 1..(n - 1)) \cup {n}, Append(q, t[n]))
      BY <2>2, PickOneMore DEF PicksTo
    <2> QED
      BY <1>1, <2>1, <2>3 DEF PicksTo
  <1>2. CASE n \notin P
    <2>1. P \cap 1..n = P \cap 1..(n - 1)
      BY <1>2
    <2> QED
      BY <1>2, <2>1 DEF PicksTo
  <1> QED
    BY <1>1, <1>2

LEMMA PicksToStart ==
  ASSUME NEW t, NEW P
  PROVE  PicksTo(t, P, 0, << >>)
  <1>1. P \cap 1..0 = {}
    OBVIOUS
  <1> QED
    BY <1>1, PickNothing DEF PicksTo

LEMMA PicksExist ==
  ASSUME NEW T, NEW t \in Seq(T), NEW P, NEW i \in 0..Len(t)
  PROVE  \E q : PicksTo(t, P, i, q)
  <1> DEFINE Bad == {n \in Nat : n <= Len(t) /\ ~\E q : PicksTo(t, P, n, q)}
  <1>1. Bad = {}
    <2> SUFFICES ASSUME Bad # {}
                 PROVE  FALSE
      OBVIOUS
    <2>1. PICK n \in Bad : \A m \in Bad : ~(m < n)
      <3>1. Bad \subseteq Nat
        OBVIOUS
      <3> HIDE DEF Bad
      <3> QED
        BY <3>1, SmallestNumber
    <2>2. n \in Nat /\ n <= Len(t) /\ n # 0
      BY <2>1, PicksToStart
    <2>3. n - 1 \in Nat /\ n - 1 < n /\ n - 1 <= Len(t)
      BY <2>2
    <2>4. PICK q : PicksTo(t, P, n - 1, q)
      BY <2>1, <2>3
    <2>5. n \in 1..Len(t)
      BY <2>2
    <2>6. PicksTo(t, P, n, IF n \in P THEN Append(q, t[n]) ELSE q)
      BY <2>4, <2>5, PickStep
    <2> QED
      BY <2>1, <2>6
  <1> QED
    BY <1>1

LEMMA AtIsPicked ==
  ASSUME NEW T, NEW t \in Seq(T), NEW P, P \subseteq DOMAIN t
  PROVE  Picks(t, P, At(t, P))
  <1> DEFINE g == [n \in 0..Len(t) |-> CHOOSE q : PicksTo(t, P, n, q)]
             It(f) == IsAt(f, t, P)
             u == CHOOSE f : It(f)
  <1>1. ASSUME NEW n \in 0..Len(t)
        PROVE  PicksTo(t, P, n, g[n])
    <2>1. \E q : PicksTo(t, P, n, q)
      BY PicksExist
    <2>2. PicksTo(t, P, n, CHOOSE q : PicksTo(t, P, n, q))
      BY <2>1, Zenon
    <2> QED
      BY <2>2
  <1>2. g = [n \in 0..Len(t) |-> g[n]]
    OBVIOUS
  <1> HIDE DEF g
  <1>3. ASSUME NEW n \in 0..Len(t)
        PROVE  g[n] = AtStep(t, P, g, n)
    <2>1. CASE n = 0
      <3>1. PicksTo(t, P, 0, g[n])
        BY <1>1, <2>1
      <3>2. g[n] = << >>
        BY <3>1, PicksToStart, OnePickTo
      <3> QED
        BY <2>1, <3>2 DEF AtStep
    <2>2. CASE n # 0
      <3>1. n \in 1..Len(t) /\ n - 1 \in 0..Len(t)
        BY <2>2
      <3>2. PICK q : q = IF n \in P THEN Append(g[n - 1], t[n]) ELSE g[n - 1]
        OBVIOUS
      <3>3. PicksTo(t, P, n, q)
        <4>1. PICK r : r = g[n - 1]
          OBVIOUS
        <4>2. PicksTo(t, P, n - 1, r)
          BY <1>1, <3>1, <4>1
        <4>3. PicksTo(t, P, n, IF n \in P THEN Append(r, t[n]) ELSE r)
          BY <3>1, <4>2, PickStep
        <4> QED
          BY <3>2, <4>1, <4>3
      <3>4. g[n] = q
        BY <1>1, <3>3, OnePickTo
      <3> QED
        BY <2>2, <3>2, <3>4 DEF AtStep
    <2> QED
      BY <2>1, <2>2
  <1>4. It(g)
    BY <1>2, <1>3 DEF IsAt
  <1>5. It(u)
    <2> HIDE DEF It
    <2> QED
      BY <1>4, Zenon
  <1>6. At(t, P) = u[Len(t)]
    BY DEF At, IsAt, AtStep
  <1>7. \A n \in 0..Len(t) : u[n] = AtStep(t, P, u, n)
    <2> HIDE DEF u
    <2> QED
      BY <1>5 DEF IsAt
  <1> HIDE DEF u, It
  <1> DEFINE Bad == {n \in Nat : n <= Len(t) /\ ~PicksTo(t, P, n, u[n])}
  <1>8. Bad = {}
    <2> SUFFICES ASSUME Bad # {}
                 PROVE  FALSE
      OBVIOUS
    <2>1. PICK n \in Bad : \A m \in Bad : ~(m < n)
      <3>1. Bad \subseteq Nat
        OBVIOUS
      <3> HIDE DEF Bad
      <3> QED
        BY <3>1, SmallestNumber
    <2>2. n \in 0..Len(t) /\ ~PicksTo(t, P, n, u[n])
      BY <2>1
    <2>3. n # 0
      <3>1. 0 \in 0..Len(t)
        OBVIOUS
      <3>2. u[0] = << >>
        BY <1>7, <3>1 DEF AtStep
      <3>3. PicksTo(t, P, 0, u[0])
        BY <3>2, PicksToStart
      <3> QED
        BY <2>2, <3>3
    <2>4. n - 1 \in Nat /\ n - 1 < n /\ n - 1 <= Len(t) /\ n \in 1..Len(t)
      BY <2>2, <2>3
    <2>5. PicksTo(t, P, n - 1, u[n - 1])
      BY <2>1, <2>4
    <2>6. u[n] = IF n \in P THEN Append(u[n - 1], t[n]) ELSE u[n - 1]
      BY <1>7, <2>2, <2>3 DEF AtStep
    <2>7. PICK q : q = u[n - 1]
      OBVIOUS
    <2>8. PicksTo(t, P, n, IF n \in P THEN Append(q, t[n]) ELSE q)
      BY <2>4, <2>5, <2>7, PickStep
    <2> QED
      BY <2>2, <2>6, <2>7, <2>8
  <1>9. PicksTo(t, P, Len(t), u[Len(t)])
    BY <1>8
  <1>10. P \cap 1..Len(t) = P
    OBVIOUS
  <1> QED
    BY <1>6, <1>9, <1>10 DEF PicksTo


(* The places of a table with an enumeration: what At returns. *)
LEMMA PlacesEnumerated ==
  ASSUME NEW T, NEW t \in Seq(T), NEW P, P \subseteq DOMAIN t
  PROVE  \E e : \E n \in Nat : Enumerates(e, n, P)
  BY AtIsPicked DEF Picks

LEMMA AtEnumerated ==
  ASSUME NEW T, NEW t \in Seq(T), NEW P, P \subseteq DOMAIN t,
         NEW e, NEW n \in Nat, Enumerates(e, n, P)
  PROVE  At(t, P) = [k \in 1..n |-> t[e[k]]]
  <1>1. Picks(t, P, [k \in 1..n |-> t[e[k]]])
    BY DEF Picks
  <1>2. Picks(t, P, At(t, P))
    BY AtIsPicked
  <1>3. P \subseteq Nat
    OBVIOUS
  <1> QED
    BY <1>1, <1>2, <1>3, OnePick

LEMMA AtIsSequence ==
  ASSUME NEW T, NEW t \in Seq(T), NEW P, P \subseteq DOMAIN t
  PROVE  At(t, P) \in Seq(T)
  <1>1. PICK e : \E n \in Nat : Enumerates(e, n, P)
    BY PlacesEnumerated
  <1>2. PICK n \in Nat : Enumerates(e, n, P)
    BY <1>1
  <1>3. At(t, P) = [k \in 1..n |-> t[e[k]]]
    BY <1>2, AtEnumerated
  <1>4. \A k \in 1..n : e[k] \in DOMAIN t
    BY <1>2 DEF Enumerates
  <1>5. \A x \in DOMAIN t : t[x] \in T
    OBVIOUS
  <1>6. \A k \in 1..n : t[e[k]] \in T
    BY <1>4, <1>5, Zenon
  <1>7. At(t, P) \in [1..n -> T]
    BY <1>3, <1>6, Zenon
  <1> QED
    BY <1>7

LEMMA AtNothing ==
  ASSUME NEW T, NEW t \in Seq(T)
  PROVE  At(t, {}) = << >>
  <1>1. Enumerates(<< >>, 0, {})
    BY DEF Enumerates
  <1>2. At(t, {}) = [k \in 1..0 |-> t[<< >>[k]]]
    BY <1>1, AtEnumerated
  <1> QED
    BY <1>2

(* Places that two tables have in common. *)
LEMMA AtSame ==
  ASSUME NEW T, NEW t \in Seq(T), NEW u \in Seq(T), NEW P, P \subseteq DOMAIN t,
         P \subseteq DOMAIN u, \A p \in P : t[p] = u[p]
  PROVE  At(u, P) = At(t, P)
  <1>1. PICK e : \E n \in Nat : Enumerates(e, n, P)
    BY PlacesEnumerated
  <1>2. PICK n \in Nat : Enumerates(e, n, P)
    BY <1>1
  <1>3. At(t, P) = [k \in 1..n |-> t[e[k]]]
    BY <1>2, AtEnumerated
  <1>4. At(u, P) = [k \in 1..n |-> u[e[k]]]
    BY <1>2, AtEnumerated
  <1>5. \A k \in 1..n : t[e[k]] = u[e[k]]
    BY <1>2 DEF Enumerates
  <1> QED
    BY <1>3, <1>4, <1>5

(* One place more, behind all others. *)
LEMMA AtOneMore ==
  ASSUME NEW T, NEW t \in Seq(T), NEW P, P \subseteq DOMAIN t, NEW p \in DOMAIN t,
         \A x \in P : x < p
  PROVE  At(t, P \cup {p}) = Append(At(t, P), t[p])
  <1>1. Picks(t, P, At(t, P))
    BY AtIsPicked
  <1>2. P \subseteq Nat /\ P \cup {p} \subseteq Nat /\ P \cup {p} \subseteq DOMAIN t
    OBVIOUS
  <1>3. PICK q : q = At(t, P)
    OBVIOUS
  <1>4. Picks(t, P \cup {p}, Append(q, t[p]))
    BY <1>1, <1>2, <1>3, PickOneMore
  <1>5. Picks(t, P \cup {p}, At(t, P \cup {p}))
    BY <1>2, AtIsPicked
  <1> QED
    BY <1>2, <1>3, <1>4, <1>5, OnePick

(* Picking from what was picked. *)
Where(t, D) == {i \in DOMAIN t : t[i] \in D}

LEMMA AtAt ==
  ASSUME NEW T, NEW t \in Seq(T), NEW Q, Q \subseteq DOMAIN t, NEW D
  PROVE  At(At(t, Q), Where(At(t, Q), D)) = At(t, Q \cap Where(t, D))
  <1>1. PICK h : \E m \in Nat : Enumerates(h, m, Q)
    BY PlacesEnumerated
  <1>2. PICK m \in Nat : Enumerates(h, m, Q)
    BY <1>1
  <1>3. PICK u : u = At(t, Q)
    OBVIOUS
  <1>4. u = [k \in 1..m |-> t[h[k]]]
    BY <1>2, <1>3, AtEnumerated
  <1>5. u \in Seq(T) /\ DOMAIN u = 1..m
    BY <1>3, <1>4, AtIsSequence
  <1>6. PICK P : P = Where(u, D)
    OBVIOUS
  <1>7. P \subseteq DOMAIN u /\ \A j : j \in P <=> j \in 1..m /\ u[j] \in D
    BY <1>5, <1>6 DEF Where
  <1>8. PICK f : \E n \in Nat : Enumerates(f, n, P)
    BY <1>5, <1>7, PlacesEnumerated
  <1>9. PICK n \in Nat : Enumerates(f, n, P)
    BY <1>8
  <1>10. At(u, P) = [k \in 1..n |-> u[f[k]]]
    BY <1>5, <1>7, <1>9, AtEnumerated
  <1>11. PICK R : R = Q \cap Where(t, D)
    OBVIOUS
  <1>12. R \subseteq DOMAIN t /\ \A i : i \in R <=> i \in Q /\ t[i] \in D
    BY <1>11 DEF Where
  <1> DEFINE g == [k \in 1..n |-> h[f[k]]]
  <1>13. Enumerates(g, n, R)
    <2>1. \A k \in 1..n : f[k] \in 1..m /\ u[f[k]] \in D
      BY <1>7, <1>9 DEF Enumerates
    <2>2. \A k \in 1..n : g[k] = h[f[k]]
      OBVIOUS
    <2>3. \A k \in 1..n : g[k] \in R
      <3> SUFFICES ASSUME NEW k \in 1..n
                   PROVE  g[k] \in R
        OBVIOUS
      <3>1. PICK j : j = f[k]
        OBVIOUS
      <3>2. j \in 1..m /\ u[j] \in D /\ u[j] = t[h[j]] /\ h[j] \in Q
        BY <1>2, <1>4, <2>1, <3>1 DEF Enumerates
      <3> QED
        BY <1>12, <2>2, <3>1, <3>2
    <2>4. ASSUME NEW j \in 1..n, NEW k \in 1..n, j < k
          PROVE  g[j] < g[k]
      <3>1. f[j] < f[k] /\ f[j] \in 1..m /\ f[k] \in 1..m
        BY <1>9, <2>1, <2>4 DEF Enumerates
      <3>2. h[f[j]] < h[f[k]]
        BY <1>2, <3>1 DEF Enumerates
      <3> QED
        BY <2>2, <3>2
    <2>5. \A i \in R : \E k \in 1..n : g[k] = i
      <3> SUFFICES ASSUME NEW i \in R
                   PROVE  \E k \in 1..n : g[k] = i
        OBVIOUS
      <3>1. i \in Q /\ t[i] \in D
        BY <1>12
      <3>2. PICK j \in 1..m : h[j] = i
        BY <1>2, <3>1 DEF Enumerates
      <3>3. j \in P
        BY <1>4, <1>7, <3>1, <3>2
      <3>4. PICK k \in 1..n : f[k] = j
        BY <1>9, <3>3 DEF Enumerates
      <3> QED
        BY <2>2, <3>2, <3>4
    <2> HIDE DEF g
    <2> QED
      BY <2>3, <2>4, <2>5 DEF Enumerates
  <1>14. At(t, R) = [k \in 1..n |-> t[g[k]]]
    <2> HIDE DEF g
    <2> QED
      BY <1>12, <1>13, AtEnumerated
  <1>15. \A k \in 1..n : u[f[k]] = t[g[k]]
    <2>1. \A k \in 1..n : f[k] \in 1..m
      BY <1>7, <1>9 DEF Enumerates
    <2> QED
      BY <1>4, <2>1
  <1> HIDE DEF g
  <1>16. At(u, P) = At(t, R)
    BY <1>10, <1>14, <1>15
  <1> QED
    BY <1>3, <1>6, <1>11, <1>16

(* One place less. *)
Skip(k, j) == IF j < k THEN j ELSE j + 1

LEMMA EnumerateOneLess ==
  ASSUME NEW P, P \subseteq Nat, NEW e, NEW n \in Nat, Enumerates(e, n, P), NEW k \in 1..n
  PROVE  Enumerates([j \in 1..(n - 1) |-> e[Skip(k, j)]], n - 1, P \ {e[k]})
  <1> DEFINE f == [j \in 1..(n - 1) |-> e[Skip(k, j)]]
  <1>1. n - 1 \in Nat
    OBVIOUS
  <1>2. \A j \in 1..(n - 1) : Skip(k, j) \in 1..n /\ Skip(k, j) # k
    BY DEF Skip
  <1>3. \A j \in 1..(n - 1) : f[j] = e[Skip(k, j)]
    OBVIOUS
  <1>4. \A i, j \in 1..n : i # j => e[i] # e[j]
    <2> SUFFICES ASSUME NEW i \in 1..n, NEW j \in 1..n, i # j, e[i] = e[j]
                 PROVE  FALSE
      OBVIOUS
    <2>1. i < j \/ j < i
      OBVIOUS
    <2>2. e[i] < e[j] \/ e[j] < e[i]
      BY <2>1 DEF Enumerates
    <2>3. e[i] \in Nat /\ e[j] \in Nat
      BY DEF Enumerates
    <2> QED
      BY <2>2, <2>3
  <1> HIDE DEF f
  <1>5. \A j \in 1..(n - 1) : f[j] \in P \ {e[k]}
    <2> SUFFICES ASSUME NEW j \in 1..(n - 1)
                 PROVE  f[j] \in P \ {e[k]}
      OBVIOUS
    <2>1. PICK i : i = Skip(k, j)
      OBVIOUS
    <2>2. i \in 1..n /\ i # k /\ f[j] = e[i]
      BY <1>2, <1>3, <2>1
    <2> QED
      BY <1>4, <2>2 DEF Enumerates
  <1>6. ASSUME NEW i \in 1..(n - 1), NEW j \in 1..(n - 1), i < j
        PROVE  f[i] < f[j]
    <2>1. Skip(k, i) < Skip(k, j)
      BY <1>6 DEF Skip
    <2>2. PICK a : a = Skip(k, i)
      OBVIOUS
    <2>3. PICK b : b = Skip(k, j)
      OBVIOUS
    <2>4. a \in 1..n /\ b \in 1..n /\ a < b /\ f[i] = e[a] /\ f[j] = e[b]
      BY <1>2, <1>3, <2>1, <2>2, <2>3
    <2> QED
      BY <2>4 DEF Enumerates
  <1>7. ASSUME NEW p \in P \ {e[k]}
        PROVE  \E j \in 1..(n - 1) : f[j] = p
    <2>1. PICK i \in 1..n : e[i] = p
      BY DEF Enumerates
    <2>2. i # k
      BY <2>1
    <2>3. PICK j \in 1..(n - 1) : Skip(k, j) = i
      <3>1. CASE i < k
        <4>1. i \in 1..(n - 1) /\ Skip(k, i) = i
          BY <3>1 DEF Skip
        <4> QED
          BY <4>1
      <3>2. CASE k < i
        <4>1. i - 1 \in 1..(n - 1) /\ Skip(k, i - 1) = i
          BY <3>2 DEF Skip
        <4> QED
          BY <4>1
      <3> QED
        BY <2>2, <3>1, <3>2
    <2> QED
      BY <1>3, <2>1, <2>3
  <1>8. Enumerates(f, n - 1, P \ {e[k]})
    BY <1>1, <1>5, <1>6, <1>7 DEF Enumerates
  <1> QED
    BY <1>8 DEF f

LEMMA RemovedIsAt ==
  ASSUME NEW T, NEW t \in Seq(T), NEW i \in DOMAIN t
  PROVE  RemoveAt(t, i) = At(t, DOMAIN t \ {i})
  <1> DEFINE n == Len(t)
             id == [k \in 1..n |-> k]
             e == [j \in 1..(n - 1) |-> id[Skip(i, j)]]
  <1>1. n \in Nat /\ DOMAIN t = 1..n /\ i \in 1..n
    OBVIOUS
  <1>2. \A k \in 1..n : id[k] = k
    OBVIOUS
  <1> HIDE DEF id, n
  <1>3. Enumerates(id, n, 1..n)
    BY <1>1, <1>2 DEF Enumerates
  <1>4. Enumerates(e, n - 1, (1..n) \ {i})
    <2>1. 1..n \subseteq Nat /\ id[i] = i
      BY <1>1, <1>2
    <2> QED
      BY <1>1, <1>3, <2>1, EnumerateOneLess
  <1>5. n - 1 \in Nat /\ (1..n) \ {i} \subseteq DOMAIN t
    BY <1>1
  <1>6. \A j \in 1..(n - 1) : e[j] = IF j < i THEN j ELSE j + 1
    <2>1. \A j \in 1..(n - 1) : Skip(i, j) \in 1..n
      BY <1>1 DEF Skip
    <2> QED
      BY <1>2, <2>1 DEF Skip
  <1> HIDE DEF e
  <1>7. At(t, (1..n) \ {i}) = [k \in 1..(n - 1) |-> t[e[k]]]
    BY <1>4, <1>5, AtEnumerated
  <1>8. PICK r : r = RemoveAt(t, i)
    OBVIOUS
  <1>9. /\ r \in Seq(T) /\ DOMAIN r = 1..(n - 1)
        /\ \A j \in 1..(n - 1) : r[j] = IF j < i THEN t[j] ELSE t[j + 1]
    BY <1>8, OneRemoved DEF n
  <1>10. r = [k \in 1..(n - 1) |-> r[k]]
    BY <1>9
  <1>11. \A k \in 1..(n - 1) : r[k] = t[e[k]]
    BY <1>6, <1>9
  <1> QED
    BY <1>1, <1>7, <1>8, <1>10, <1>11

(* A place less. *)
LEMMA AtOneLess ==
  ASSUME NEW T, NEW t \in Seq(T), NEW P, P \subseteq DOMAIN t, NEW e, NEW n \in Nat,
         Enumerates(e, n, P), NEW k \in 1..n
  PROVE  k \in DOMAIN At(t, P) /\ At(t, P \ {e[k]}) = RemoveAt(At(t, P), k)
  <1> DEFINE f == [j \in 1..(n - 1) |-> e[Skip(k, j)]]
  <1>1. P \subseteq Nat /\ P \ {e[k]} \subseteq DOMAIN t /\ n - 1 \in Nat
    OBVIOUS
  <1>2. Enumerates(f, n - 1, P \ {e[k]})
    BY <1>1, EnumerateOneLess
  <1>3. \A j \in 1..(n - 1) : f[j] = IF j < k THEN e[j] ELSE e[j + 1]
    BY DEF Skip
  <1> HIDE DEF f
  <1>4. At(t, P \ {e[k]}) = [j \in 1..(n - 1) |-> t[f[j]]]
    BY <1>1, <1>2, AtEnumerated
  <1>5. PICK q : q = At(t, P)
    OBVIOUS
  <1>6. q = [j \in 1..n |-> t[e[j]]] /\ q \in Seq(T)
    BY <1>5, AtEnumerated, AtIsSequence
  <1>7. DOMAIN q = 1..n /\ Len(q) = n
    <2>1. DOMAIN q = 1..n
      BY <1>6
    <2>2. DOMAIN q = 1..Len(q) /\ Len(q) \in Nat
      BY <1>6
    <2> QED
      BY <2>1, <2>2
  <1>8. PICK r : r = RemoveAt(q, k)
    OBVIOUS
  <1>9. /\ r \in Seq(T) /\ DOMAIN r = 1..(n - 1)
        /\ \A j \in 1..(n - 1) : r[j] = IF j < k THEN q[j] ELSE q[j + 1]
    BY <1>6, <1>7, <1>8, OneRemoved
  <1>10. r = [j \in 1..(n - 1) |-> r[j]]
    BY <1>9
  <1>11. \A j \in 1..(n - 1) : r[j] = t[f[j]]
    <2> SUFFICES ASSUME NEW j \in 1..(n - 1)
                 PROVE  r[j] = t[f[j]]
      OBVIOUS
    <2>1. j \in 1..n /\ j + 1 \in 1..n
      OBVIOUS
    <2>2. q[j] = t[e[j]] /\ q[j + 1] = t[e[j + 1]]
      BY <1>6, <2>1
    <2> QED
      BY <1>3, <1>9, <2>2
  <1> QED
    BY <1>4, <1>5, <1>7, <1>8, <1>10, <1>11

(* Two tables in a row. *)
LEMMA AtSecond ==
  ASSUME NEW T, NEW t \in Seq(T), NEW u \in Seq(T), NEW D,
         \A i \in DOMAIN t : t[i] \notin D, \A i \in DOMAIN u : u[i] \in D
  PROVE  At(t \o u, Where(t \o u, D)) = u
  <1> DEFINE m == Len(t)
             n == Len(u)
             e == [k \in 1..n |-> m + k]
  <1>1. m \in Nat /\ n \in Nat /\ DOMAIN t = 1..m /\ DOMAIN u = 1..n
    OBVIOUS
  <1>2. PICK w : w = t \o u
    OBVIOUS
  <1>3. /\ w \in Seq(T) /\ DOMAIN w = 1..(m + n)
        /\ \A i \in 1..(m + n) : w[i] = IF i <= m THEN t[i] ELSE u[i - m]
    <2>1. w \in Seq(T) /\ Len(w) = m + n
      BY <1>2, ConcatProperties
    <2>2. DOMAIN w = 1..Len(w)
      BY <2>1
    <2>3. \A i \in 1..(m + n) : w[i] = IF i <= m THEN t[i] ELSE u[i - m]
      BY <1>2, ConcatProperties
    <2> QED
      BY <2>1, <2>2, <2>3
  <1>4. u = [k \in 1..n |-> u[k]]
    OBVIOUS
  <1>5. \A k \in 1..n : e[k] = m + k
    OBVIOUS
  <1> HIDE DEF m, n, e
  <1>6. \A i : i \in Where(w, D) <=> i \in (m + 1)..(m + n)
    <2>1. ASSUME NEW i \in 1..(m + n)
          PROVE  w[i] \in D <=> i > m
      <3>1. CASE i <= m
        <4>1. i \in DOMAIN t /\ w[i] = t[i] /\ ~(i > m)
          BY <1>1, <1>3, <3>1
        <4>2. t[i] \notin D
          BY <4>1
        <4> QED
          BY <4>1, <4>2, Zenon
      <3>2. CASE i > m
        <4>1. i - m \in DOMAIN u /\ w[i] = u[i - m]
          BY <1>1, <1>3, <3>2
        <4>2. u[i - m] \in D
          BY <4>1
        <4> QED
          BY <3>2, <4>1, <4>2, Zenon
      <3> QED
        BY <1>1, <3>1, <3>2
    <2>2. \A i : i \in Where(w, D) <=> i \in 1..(m + n) /\ w[i] \in D
      BY <1>3 DEF Where
    <2> QED
      BY <1>1, <2>1, <2>2
  <1>7. Enumerates(e, n, Where(w, D))
    <2>1. \A k \in 1..n : e[k] \in Where(w, D)
      BY <1>1, <1>5, <1>6
    <2>2. \A p \in Where(w, D) : \E k \in 1..n : e[k] = p
      <3> SUFFICES ASSUME NEW p \in Where(w, D)
                   PROVE  \E k \in 1..n : e[k] = p
        OBVIOUS
      <3>1. p \in (m + 1)..(m + n)
        BY <1>6
      <3>2. p - m \in 1..n /\ m + (p - m) = p
        BY <1>1, <3>1
      <3> QED
        BY <1>5, <3>2
    <2>3. \A j, k \in 1..n : j < k => e[j] < e[k]
      BY <1>1, <1>5
    <2> QED
      BY <1>1, <2>1, <2>2, <2>3 DEF Enumerates
  <1>8. Where(w, D) \subseteq DOMAIN w
    BY DEF Where
  <1>9. At(w, Where(w, D)) = [k \in 1..n |-> w[e[k]]]
    BY <1>1, <1>3, <1>7, <1>8, AtEnumerated
  <1>10. \A k \in 1..n : w[e[k]] = u[k]
    <2> SUFFICES ASSUME NEW k \in 1..n
                 PROVE  w[e[k]] = u[k]
      OBVIOUS
    <2>1. m + k \in 1..(m + n) /\ ~(m + k <= m) /\ (m + k) - m = k
      BY <1>1
    <2> QED
      BY <1>3, <1>5, <2>1
  <1> QED
    BY <1>2, <1>4, <1>9, <1>10

LEMMA AtFirst ==
  ASSUME NEW T, NEW t \in Seq(T), NEW u \in Seq(T), NEW D, \A i \in DOMAIN u : u[i] \notin D
  PROVE  At(t \o u, Where(t \o u, D)) = At(t, Where(t, D))
  <1> DEFINE m == Len(t)
             n == Len(u)
  <1>1. m \in Nat /\ n \in Nat /\ DOMAIN t = 1..m /\ DOMAIN u = 1..n
    OBVIOUS
  <1>2. PICK w : w = t \o u
    OBVIOUS
  <1>3. /\ w \in Seq(T) /\ DOMAIN w = 1..(m + n)
        /\ \A i \in 1..(m + n) : w[i] = IF i <= m THEN t[i] ELSE u[i - m]
    <2>1. w \in Seq(T) /\ Len(w) = m + n
      BY <1>2, ConcatProperties
    <2>2. DOMAIN w = 1..Len(w)
      BY <2>1
    <2>3. \A i \in 1..(m + n) : w[i] = IF i <= m THEN t[i] ELSE u[i - m]
      BY <1>2, ConcatProperties
    <2> QED
      BY <2>1, <2>2, <2>3
  <1> HIDE DEF m, n
  <1>4. ASSUME NEW i \in 1..m
        PROVE  i \in 1..(m + n) /\ w[i] = t[i]
    BY <1>1, <1>3, <1>4
  <1>5. ASSUME NEW i \in 1..(m + n), w[i] \in D
        PROVE  i \in 1..m
    <2> SUFFICES ASSUME i > m
                 PROVE  FALSE
      BY <1>1
    <2>1. i - m \in 1..n /\ ~(i <= m)
      BY <1>1
    <2> QED
      BY <1>1, <1>3, <1>5, <2>1
  <1>6. Where(w, D) = Where(t, D)
    <2>1. \A i : i \in Where(w, D) <=> i \in 1..(m + n) /\ w[i] \in D
      BY <1>3 DEF Where
    <2>2. \A i : i \in Where(t, D) <=> i \in 1..m /\ t[i] \in D
      BY <1>1 DEF Where
    <2> QED
      BY <1>4, <1>5, <2>1, <2>2
  <1>7. Where(t, D) \subseteq DOMAIN t /\ Where(t, D) \subseteq DOMAIN w
    BY <1>6 DEF Where
  <1>8. \A p \in Where(t, D) : t[p] = w[p]
    BY <1>1, <1>4 DEF Where
  <1>9. At(w, Where(t, D)) = At(t, Where(t, D))
    BY <1>3, <1>7, <1>8, AtSame
  <1> QED
    BY <1>2, <1>6, <1>9


-----------------------------------------------------------------------------
(* Carts.                                                                  *)

CartRow == [id: Nat, session: Nat, item: STRING, price: Nat, quantity: Nat \ {0}]

ModifierRow == [item: Nat, price: Nat]

(* The tables of items and modifiers, with n ids given and S the sessions. *)
CartTables(t, u, n, S) ==
  /\ t \in Seq(CartRow) /\ u \in Seq(ModifierRow) /\ n \in Nat
  /\ \A i \in DOMAIN t : t[i].id <= n /\ t[i].session \in S
  /\ \A i, j \in DOMAIN t : t[i].id = t[j].id => i = j
  /\ \A m \in DOMAIN u : u[m].item <= n

RowsOf(s) == {x \in CartRow : x.session = s}

OwnRows(id) == {x \in ModifierRow : x.item = id}

RowsIn(t, s) == At(t, Where(t, RowsOf(s)))

PricesIn(u, id) == LET own == At(u, Where(u, OwnRows(id))) IN [k \in DOMAIN own |-> own[k].price]

LineIn(u, x) ==
  [item |-> x.item, price |-> x.price, quantity |-> x.quantity, modifiers |-> PricesIn(u, x.id)]

LinesIn(t, u, s) == [k \in DOMAIN RowsIn(t, s) |-> LineIn(u, RowsIn(t, s)[k])]

Others(u, ids) == At(u, {m \in DOMAIN u : u[m].item \notin ids})

ModifierRows(id, prices) == [k \in DOMAIN prices |-> [item |-> id, price |-> prices[k]]]

LEMMA WherePlaces ==
  ASSUME NEW t, NEW D
  PROVE  Where(t, D) \subseteq DOMAIN t
  BY DEF Where

(* The rows of a session are those of its places. *)
PlacesInOrder(t, s, e, n) ==
  /\ Enumerates(e, n, Where(t, RowsOf(s)))
  /\ RowsIn(t, s) = [k \in 1..n |-> t[e[k]]]
  /\ \A k \in 1..n : e[k] \in DOMAIN t /\ t[e[k]] \in CartRow /\ t[e[k]].session = s

LEMMA RowsEnumerated ==
  ASSUME NEW t \in Seq(CartRow), NEW s
  PROVE  \E e : \E n \in Nat : PlacesInOrder(t, s, e, n)
  <1>1. PICK e : \E n \in Nat : Enumerates(e, n, Where(t, RowsOf(s)))
    BY PlacesEnumerated, WherePlaces
  <1>2. PICK n \in Nat : Enumerates(e, n, Where(t, RowsOf(s)))
    BY <1>1
  <1>3. RowsIn(t, s) = [k \in 1..n |-> t[e[k]]]
    BY <1>2, AtEnumerated, WherePlaces DEF RowsIn
  <1>4. \A k \in 1..n : e[k] \in DOMAIN t /\ t[e[k]] \in RowsOf(s)
    BY <1>2 DEF Enumerates, Where
  <1>5. \A x \in RowsOf(s) : x \in CartRow /\ x.session = s
    BY DEF RowsOf
  <1>6. \A k \in 1..n : e[k] \in DOMAIN t /\ t[e[k]] \in CartRow /\ t[e[k]].session = s
    BY <1>4, <1>5
  <1> QED
    BY <1>2, <1>3, <1>6 DEF PlacesInOrder

LEMMA RowsAreRows ==
  ASSUME NEW t \in Seq(CartRow), NEW s
  PROVE  /\ RowsIn(t, s) \in Seq(CartRow)
         /\ \A k \in DOMAIN RowsIn(t, s) : \E i \in DOMAIN t :
              RowsIn(t, s)[k] = t[i] /\ t[i] \in CartRow /\ t[i].session = s
  <1>1. RowsIn(t, s) \in Seq(CartRow)
    BY AtIsSequence, WherePlaces DEF RowsIn
  <1>2. PICK e : \E n \in Nat : PlacesInOrder(t, s, e, n)
    BY RowsEnumerated
  <1>3. PICK n \in Nat :
           /\ RowsIn(t, s) = [k \in 1..n |-> t[e[k]]]
           /\ \A k \in 1..n : e[k] \in DOMAIN t /\ t[e[k]] \in CartRow /\ t[e[k]].session = s
    BY <1>2 DEF PlacesInOrder
  <1>4. PICK r : r = RowsIn(t, s)
    OBVIOUS
  <1>5. DOMAIN r = 1..n /\ \A k \in 1..n : r[k] = t[e[k]]
    BY <1>3, <1>4
  <1>6. \A k \in DOMAIN r : \E i \in DOMAIN t :
          r[k] = t[i] /\ t[i] \in CartRow /\ t[i].session = s
    BY <1>3, <1>5
  <1> QED
    BY <1>1, <1>4, <1>6

(* Lines that keep their rows, and the rows their modifiers. *)
LEMMA LinesStay ==
  ASSUME NEW t, NEW u, NEW v, NEW w, NEW s, RowsIn(v, s) = RowsIn(t, s),
         \A k \in DOMAIN RowsIn(t, s) :
           PricesIn(w, RowsIn(t, s)[k].id) = PricesIn(u, RowsIn(t, s)[k].id)
  PROVE  LinesIn(v, w, s) = LinesIn(t, u, s)
  BY DEF LinesIn, LineIn

(* Modifiers of some items deleted. *)
LEMMA OthersIsTable ==
  ASSUME NEW u \in Seq(ModifierRow), NEW n \in Nat, \A m \in DOMAIN u : u[m].item <= n, NEW ids
  PROVE  /\ Others(u, ids) \in Seq(ModifierRow)
         /\ \A m \in DOMAIN Others(u, ids) : Others(u, ids)[m].item <= n
         /\ \A m \in DOMAIN Others(u, ids) : Others(u, ids)[m].item \notin ids
  <1> DEFINE Q == {m \in DOMAIN u : u[m].item \notin ids}
  <1>1. Q \subseteq DOMAIN u /\ \A m \in Q : u[m].item \notin ids
    OBVIOUS
  <1>2. Others(u, ids) = At(u, Q)
    BY DEF Others
  <1> HIDE DEF Q
  <1>3. Others(u, ids) \in Seq(ModifierRow)
    BY <1>1, <1>2, AtIsSequence
  <1>4. PICK e : \E l \in Nat : Enumerates(e, l, Q)
    BY <1>1, PlacesEnumerated
  <1>5. PICK l \in Nat : Enumerates(e, l, Q)
    BY <1>4
  <1>6. Others(u, ids) = [k \in 1..l |-> u[e[k]]]
    BY <1>1, <1>2, <1>5, AtEnumerated
  <1>7. \A k \in 1..l : e[k] \in Q
    BY <1>5 DEF Enumerates
  <1>8. \A k \in 1..l : u[e[k]].item <= n /\ u[e[k]].item \notin ids
    BY <1>1, <1>7
  <1>9. PICK o : o = Others(u, ids)
    OBVIOUS
  <1>10. DOMAIN o = 1..l /\ \A k \in 1..l : o[k] = u[e[k]]
    BY <1>6, <1>9
  <1>11. \A m \in DOMAIN o : o[m].item <= n /\ o[m].item \notin ids
    BY <1>8, <1>10
  <1> QED
    BY <1>3, <1>9, <1>11

LEMMA OthersKeepPrices ==
  ASSUME NEW u \in Seq(ModifierRow), NEW ids, NEW id, id \notin ids
  PROVE  PricesIn(Others(u, ids), id) = PricesIn(u, id)
  <1> DEFINE Q == {m \in DOMAIN u : u[m].item \notin ids}
  <1>1. Q \subseteq DOMAIN u
    OBVIOUS
  <1>2. Q \cap Where(u, OwnRows(id)) = Where(u, OwnRows(id))
    BY DEF Where, OwnRows
  <1>3. Others(u, ids) = At(u, Q)
    BY DEF Others
  <1> HIDE DEF Q
  <1>4. At(At(u, Q), Where(At(u, Q), OwnRows(id))) = At(u, Q \cap Where(u, OwnRows(id)))
    BY <1>1, AtAt
  <1> QED
    BY <1>2, <1>3, <1>4 DEF PricesIn

LEMMA NoPrices ==
  ASSUME NEW u \in Seq(ModifierRow), NEW id, \A m \in DOMAIN u : u[m].item # id
  PROVE  PricesIn(u, id) = << >> /\ \A m \in DOMAIN u : u[m] \notin OwnRows(id)
  <1>1. \A m \in DOMAIN u : u[m] \notin OwnRows(id)
    BY DEF OwnRows
  <1>2. Where(u, OwnRows(id)) = {}
    BY <1>1 DEF Where
  <1>3. At(u, {}) = << >>
    BY AtNothing
  <1>4. DOMAIN << >> = {}
    OBVIOUS
  <1>5. PricesIn(u, id) = [k \in {} |-> << >>[k].price]
    BY <1>2, <1>3, <1>4 DEF PricesIn
  <1> QED
    BY <1>1, <1>5

(* Modifiers of an item appended. *)
LEMMA RowsOfModifiers ==
  ASSUME NEW id \in Nat, NEW prices \in Seq(Nat)
  PROVE  /\ ModifierRows(id, prices) \in Seq(ModifierRow)
         /\ DOMAIN ModifierRows(id, prices) = DOMAIN prices
         /\ \A k \in DOMAIN prices :
              /\ ModifierRows(id, prices)[k].item = id
              /\ ModifierRows(id, prices)[k].price = prices[k]
              /\ ModifierRows(id, prices)[k] \in OwnRows(id)
  <1> DEFINE n == Len(prices)
  <1>1. n \in Nat /\ DOMAIN prices = 1..n /\ \A k \in 1..n : prices[k] \in Nat
    OBVIOUS
  <1> HIDE DEF n
  <1>2. PICK rows : rows = ModifierRows(id, prices)
    OBVIOUS
  <1>3. rows = [k \in 1..n |-> [item |-> id, price |-> prices[k]]]
    BY <1>1, <1>2 DEF ModifierRows
  <1>4. \A k \in 1..n : [item |-> id, price |-> prices[k]] \in ModifierRow
    BY <1>1 DEF ModifierRow
  <1>5. rows \in [1..n -> ModifierRow]
    BY <1>3, <1>4
  <1>6. rows \in Seq(ModifierRow) /\ DOMAIN rows = 1..n
    BY <1>1, <1>5
  <1>7. \A k \in 1..n : rows[k].item = id /\ rows[k].price = prices[k] /\ rows[k] \in OwnRows(id)
    BY <1>3, <1>4 DEF OwnRows
  <1> QED
    BY <1>1, <1>2, <1>6, <1>7

ModifiersUpTo(u, n) == u \in Seq(ModifierRow) /\ \A m \in DOMAIN u : u[m].item <= n

Modified(u, v, id, prices) ==
  /\ PricesIn(v, id) = prices
  /\ \A other : other # id => PricesIn(v, other) = PricesIn(u, other)

LEMMA PricesAppended ==
  ASSUME NEW u, NEW n \in Nat, ModifiersUpTo(u, n), NEW id \in Nat, id <= n,
         \A m \in DOMAIN u : u[m].item # id, NEW prices \in Seq(Nat)
  PROVE  LET v == u \o ModifierRows(id, prices) IN ModifiersUpTo(v, n) /\ Modified(u, v, id, prices)
  <1>0. u \in Seq(ModifierRow) /\ \A m \in DOMAIN u : u[m].item <= n
    BY DEF ModifiersUpTo
  <1> PICK v : v = u \o ModifierRows(id, prices)
    OBVIOUS
  <1>1. PICK rows : rows = ModifierRows(id, prices)
    OBVIOUS
  <1>2. /\ rows \in Seq(ModifierRow)
        /\ DOMAIN rows = DOMAIN prices
        /\ \A k \in DOMAIN prices : /\ rows[k].item = id
                                    /\ rows[k].price = prices[k]
                                    /\ rows[k] \in OwnRows(id)
    BY <1>1, RowsOfModifiers
  <1>3. v = u \o rows
    BY <1>1
  <1>4. v \in Seq(ModifierRow) /\ Len(v) = Len(u) + Len(rows)
        /\ \A i \in 1..(Len(u) + Len(rows)) : v[i] = IF i <= Len(u) THEN u[i] ELSE rows[i - Len(u)]
    BY <1>0, <1>2, <1>3, ConcatProperties
  <1>5. ASSUME NEW m \in DOMAIN v
        PROVE  v[m].item <= n
    <2>1. m \in 1..(Len(u) + Len(rows)) /\ Len(u) \in Nat /\ Len(rows) \in Nat
      BY <1>0, <1>2, <1>4
    <2>2. CASE m <= Len(u)
      <3>1. m \in DOMAIN u /\ v[m] = u[m]
        BY <1>0, <1>4, <2>1, <2>2
      <3> QED
        BY <1>0, <3>1
    <2>3. CASE ~(m <= Len(u))
      <3>1. m - Len(u) \in DOMAIN rows /\ v[m] = rows[m - Len(u)]
        BY <1>2, <1>4, <2>1, <2>3
      <3> QED
        BY <1>2, <3>1
    <2> QED
      BY <2>2, <2>3
  <1>6. PricesIn(v, id) = prices
    <2>1. \A m \in DOMAIN u : u[m] \notin OwnRows(id)
      BY <1>0, NoPrices
    <2>2. At(v, Where(v, OwnRows(id))) = rows
      BY <1>0, <1>2, <1>3, <2>1, AtSecond
    <2>3. prices = [k \in DOMAIN prices |-> prices[k]]
      OBVIOUS
    <2> QED
      BY <1>2, <2>2, <2>3 DEF PricesIn
  <1>7. ASSUME NEW other, other # id
        PROVE  PricesIn(v, other) = PricesIn(u, other)
    <2>1. \A m \in DOMAIN rows : rows[m] \notin OwnRows(other)
      BY <1>2, <1>7 DEF OwnRows
    <2>2. At(v, Where(v, OwnRows(other))) = At(u, Where(u, OwnRows(other)))
      BY <1>0, <1>2, <1>3, <2>1, AtFirst
    <2> QED
      BY <2>2 DEF PricesIn
  <1> QED
    BY <1>4, <1>5, <1>6, <1>7 DEF ModifiersUpTo, Modified


(* A part of the table of items, and of the modifiers those of the rest. *)
LEMMA PartOfTables ==
  ASSUME NEW t, NEW u, NEW n, NEW S, CartTables(t, u, n, S), NEW Q, Q \subseteq DOMAIN t, NEW ids
  PROVE  CartTables(At(t, Q), Others(u, ids), n, S)
  <1>1. /\ t \in Seq(CartRow) /\ u \in Seq(ModifierRow) /\ n \in Nat
        /\ \A i \in DOMAIN t : t[i].id <= n /\ t[i].session \in S
        /\ \A i, j \in DOMAIN t : t[i].id = t[j].id => i = j
        /\ \A m \in DOMAIN u : u[m].item <= n
    BY DEF CartTables
  <1>2. PICK e : \E l \in Nat : Enumerates(e, l, Q)
    BY <1>1, PlacesEnumerated
  <1>3. PICK l \in Nat : Enumerates(e, l, Q)
    BY <1>2
  <1>4. PICK v : v = At(t, Q)
    OBVIOUS
  <1>5. v \in Seq(CartRow) /\ v = [k \in 1..l |-> t[e[k]]]
    BY <1>1, <1>3, <1>4, AtEnumerated, AtIsSequence
  <1>6. \A k \in 1..l : e[k] \in DOMAIN t
    BY <1>3 DEF Enumerates
  <1>7. \A j, k \in 1..l : e[j] = e[k] => j = k
    <2> SUFFICES ASSUME NEW j \in 1..l, NEW k \in 1..l, e[j] = e[k], j # k
                 PROVE  FALSE
      OBVIOUS
    <2>1. j < k \/ k < j
      OBVIOUS
    <2>2. e[j] < e[k] \/ e[k] < e[j]
      BY <1>3, <2>1 DEF Enumerates
    <2>3. e[j] \in DOMAIN t /\ DOMAIN t \subseteq Nat
      BY <1>1, <1>6
    <2> QED
      BY <2>2, <2>3
  <1>8. DOMAIN v = 1..l /\ \A k \in 1..l : v[k] = t[e[k]]
    BY <1>5
  <1>9. \A i \in DOMAIN v : v[i].id <= n /\ v[i].session \in S
    BY <1>1, <1>6, <1>8
  <1>10. \A i, j \in DOMAIN v : v[i].id = v[j].id => i = j
    <2> SUFFICES ASSUME NEW i \in 1..l, NEW j \in 1..l, v[i].id = v[j].id
                 PROVE  i = j
      BY <1>8
    <2>1. e[i] = e[j]
      BY <1>1, <1>6, <1>8
    <2> QED
      BY <1>7, <2>1
  <1>11. /\ Others(u, ids) \in Seq(ModifierRow)
         /\ \A m \in DOMAIN Others(u, ids) : Others(u, ids)[m].item <= n
    BY <1>1, OthersIsTable
  <1> QED
    BY <1>1, <1>4, <1>5, <1>9, <1>10, <1>11 DEF CartTables

(* The rows of a session in a part of the table. *)
LEMMA RowsOfPart ==
  ASSUME NEW t \in Seq(CartRow), NEW Q, Q \subseteq DOMAIN t, NEW s
  PROVE  RowsIn(At(t, Q), s) = At(t, Q \cap Where(t, RowsOf(s)))
  BY AtAt DEF RowsIn

(* Lines of a session whose rows are left in the table and none of whose
   modifiers are deleted.                                                  *)
LEMMA LinesLeft ==
  ASSUME NEW t, NEW u, NEW n, NEW S, CartTables(t, u, n, S), NEW Q, Q \subseteq DOMAIN t, NEW ids,
         NEW s, \A i \in DOMAIN t : t[i].session = s => i \in Q /\ t[i].id \notin ids
  PROVE  LinesIn(At(t, Q), Others(u, ids), s) = LinesIn(t, u, s)
  <1>1. t \in Seq(CartRow) /\ u \in Seq(ModifierRow)
    BY DEF CartTables
  <1>2. Q \cap Where(t, RowsOf(s)) = Where(t, RowsOf(s))
    BY DEF Where, RowsOf
  <1>3. RowsIn(At(t, Q), s) = RowsIn(t, s)
    BY <1>1, <1>2, RowsOfPart DEF RowsIn
  <1>4. ASSUME NEW k \in DOMAIN RowsIn(t, s)
        PROVE  PricesIn(Others(u, ids), RowsIn(t, s)[k].id) = PricesIn(u, RowsIn(t, s)[k].id)
    <2>1. PICK i \in DOMAIN t : RowsIn(t, s)[k] = t[i] /\ t[i].session = s
      BY <1>1, RowsAreRows
    <2>2. RowsIn(t, s)[k].id \notin ids
      BY <2>1
    <2> QED
      BY <1>1, <2>2, OthersKeepPrices
  <1> QED
    BY <1>3, <1>4, LinesStay

(* What a call on session s does to the tables and to all other sessions. *)
OtherLinesStay(t, u, v, w, n, S, s) ==
  /\ CartTables(v, w, n, S)
  /\ \A r : r # s => LinesIn(v, w, r) = LinesIn(t, u, r)

RowsWith(t, s) == {i \in DOMAIN t : t[i].session = s}

LEMMA ClearedLines ==
  ASSUME NEW t, NEW u, NEW n, NEW S, CartTables(t, u, n, S), NEW s,
         NEW v, v = At(t, DOMAIN t \ RowsWith(t, s)),
         NEW w, w = Others(u, {t[i].id : i \in RowsWith(t, s)})
  PROVE  OtherLinesStay(t, u, v, w, n, S, s) /\ LinesIn(v, w, s) = << >>
  <1> PICK Q : Q = DOMAIN t \ RowsWith(t, s)
    OBVIOUS
  <1> PICK ids : ids = {t[i].id : i \in RowsWith(t, s)}
    OBVIOUS
  <1>0. \A i : i \in Q <=> i \in DOMAIN t /\ t[i].session # s
    BY DEF RowsWith
  <1>1. /\ t \in Seq(CartRow)
        /\ \A i, j \in DOMAIN t : t[i].id = t[j].id => i = j
    BY DEF CartTables
  <1>2. Q \subseteq DOMAIN t
    BY <1>0
  <1>3. CartTables(At(t, Q), Others(u, ids), n, S)
    BY <1>2, PartOfTables
  <1>4. ASSUME NEW r, r # s
        PROVE  LinesIn(At(t, Q), Others(u, ids), r) = LinesIn(t, u, r)
    <2>1. ASSUME NEW i \in DOMAIN t, t[i].session = r
          PROVE  i \in Q /\ t[i].id \notin ids
      <3>1. i \in Q
        BY <1>0, <1>4, <2>1
      <3>2. \A j \in DOMAIN t : t[j].session = s => t[j].id # t[i].id
        BY <1>1, <1>4, <2>1
      <3>3. t[i].id \notin ids
        BY <3>2 DEF RowsWith
      <3> QED
        BY <3>1, <3>3
    <2> QED
      BY <1>2, <2>1, LinesLeft
  <1>5. LinesIn(At(t, Q), Others(u, ids), s) = << >>
    <2>1. Q \cap Where(t, RowsOf(s)) = {}
      BY <1>0 DEF Where, RowsOf
    <2>2. RowsIn(At(t, Q), s) = << >>
      <3>1. t \in Seq(CartRow)
        BY <1>1
      <3>2. RowsIn(At(t, Q), s) = At(t, Q \cap Where(t, RowsOf(s)))
        BY <1>2, <3>1, RowsOfPart
      <3>3. At(t, {}) = << >>
        BY <3>1, AtNothing
      <3> QED
        BY <2>1, <3>2, <3>3
    <2>3. DOMAIN << >> = {}
      OBVIOUS
    <2>4. LinesIn(At(t, Q), Others(u, ids), s)
            = [k \in {} |-> LineIn(Others(u, ids), << >>[k])]
      BY <2>2, <2>3 DEF LinesIn
    <2> QED
      BY <2>4
  <1> QED
    BY <1>3, <1>4, <1>5 DEF OtherLinesStay

LinesTaken(old, new) == \E k \in DOMAIN old : new = RemoveAt(old, k)

LEMMA TakenLine ==
  ASSUME NEW t, NEW u, NEW n, NEW S, CartTables(t, u, n, S), NEW i \in DOMAIN t,
         NEW s, t[i].session = s, NEW v, v = RemoveAt(t, i), NEW w, w = Others(u, {t[i].id})
  PROVE  OtherLinesStay(t, u, v, w, n, S, s) /\ LinesTaken(LinesIn(t, u, s), LinesIn(v, w, s))
  <1>1. /\ t \in Seq(CartRow) /\ u \in Seq(ModifierRow)
        /\ \A j, k \in DOMAIN t : t[j].id = t[k].id => j = k
    BY DEF CartTables
  <1>3. PICK Q : Q = DOMAIN t \ {i}
    OBVIOUS
  <1>4. v = At(t, Q) /\ Q \subseteq DOMAIN t
    BY <1>1, <1>3, RemovedIsAt
  <1>5. PICK ids : ids = {t[i].id}
    OBVIOUS
  <1>6. w = Others(u, ids)
    BY <1>5
  <1>7. CartTables(v, w, n, S)
    BY <1>4, <1>6, PartOfTables
  <1>8. ASSUME NEW r, r # s
        PROVE  LinesIn(v, w, r) = LinesIn(t, u, r)
    <2>1. ASSUME NEW j \in DOMAIN t, t[j].session = r
          PROVE  j \in Q /\ t[j].id \notin ids
      <3>1. j # i
        BY <1>8, <2>1
      <3>2. t[j].id # t[i].id
        BY <1>1, <3>1
      <3> QED
        BY <1>3, <1>5, <3>1, <3>2
    <2>2. LinesIn(At(t, Q), Others(u, ids), r) = LinesIn(t, u, r)
      BY <1>4, <2>1, LinesLeft
    <2> QED
      BY <1>4, <1>6, <2>2
  <1>9. \E k \in DOMAIN LinesIn(t, u, s) : LinesIn(v, w, s) = RemoveAt(LinesIn(t, u, s), k)
    <2>1. PICK e : \E l \in Nat : PlacesInOrder(t, s, e, l)
      BY <1>1, RowsEnumerated
    <2>2. PICK l \in Nat :
             /\ Enumerates(e, l, Where(t, RowsOf(s)))
             /\ RowsIn(t, s) = [k \in 1..l |-> t[e[k]]]
             /\ \A k \in 1..l : e[k] \in DOMAIN t /\ t[e[k]] \in CartRow /\ t[e[k]].session = s
      BY <2>1 DEF PlacesInOrder
    <2>3. i \in Where(t, RowsOf(s))
      <3>1. t[i] \in CartRow
        BY <1>1
      <3> QED
        BY <3>1 DEF Where, RowsOf
    <2>4. PICK k \in 1..l : e[k] = i
      BY <2>2, <2>3 DEF Enumerates
    <2>5. Q \cap Where(t, RowsOf(s)) = Where(t, RowsOf(s)) \ {e[k]}
      BY <1>3, <2>4 DEF Where
    <2>6. RowsIn(v, s) = RemoveAt(RowsIn(t, s), k) /\ k \in DOMAIN RowsIn(t, s)
      <3>1. RowsIn(v, s) = At(t, Where(t, RowsOf(s)) \ {e[k]})
        BY <1>1, <1>4, <2>5, RowsOfPart
      <3>2. /\ k \in DOMAIN At(t, Where(t, RowsOf(s)))
            /\ At(t, Where(t, RowsOf(s)) \ {e[k]}) = RemoveAt(At(t, Where(t, RowsOf(s))), k)
        <4>1. PICK P : P = Where(t, RowsOf(s))
          OBVIOUS
        <4>2. P \subseteq DOMAIN t /\ Enumerates(e, l, P)
          BY <2>2, <4>1, WherePlaces
        <4>3. k \in DOMAIN At(t, P) /\ At(t, P \ {e[k]}) = RemoveAt(At(t, P), k)
          BY <1>1, <4>2, AtOneLess
        <4> QED
          BY <4>1, <4>3
      <3> QED
        BY <3>1, <3>2 DEF RowsIn
    <2>7. PICK q : q = RowsIn(t, s)
      OBVIOUS
    <2>8. q \in Seq(CartRow) /\ k \in DOMAIN q
      BY <1>1, <2>6, <2>7, RowsAreRows
    <2>9. PICK r : r = RemoveAt(q, k)
      OBVIOUS
    <2>10. /\ DOMAIN r = 1..(Len(q) - 1)
           /\ \A j \in 1..(Len(q) - 1) : r[j] = IF j < k THEN q[j] ELSE q[j + 1]
      BY <2>8, <2>9, OneRemoved
    <2>11. DOMAIN q = 1..Len(q) /\ Len(q) \in Nat /\ Len(q) = l /\ k \in 1..Len(q)
      <3>1. DOMAIN q = 1..Len(q) /\ Len(q) \in Nat
        BY <2>8
      <3>2. DOMAIN q = 1..l
        BY <2>2, <2>7
      <3>3. PICK m \in Nat : m = Len(q) /\ 1..m = 1..l
        BY <3>1, <3>2
      <3>4. m = l
        <4>1. \A a, b \in Nat : 1..a = 1..b => a = b
          OBVIOUS
        <4> QED
          BY <3>3, <4>1
      <3> QED
        BY <2>8, <3>1, <3>3, <3>4
    <2>12. ASSUME NEW j \in 1..Len(q), j # k
           PROVE  LineIn(w, q[j]) = LineIn(u, q[j])
      <3>1. q[j] = t[e[j]] /\ e[j] \in DOMAIN t
        BY <2>2, <2>7, <2>11
      <3>2. e[j] # i
        <4>1. e[j] < e[k] \/ e[k] < e[j]
          BY <2>2, <2>4, <2>11, <2>12 DEF Enumerates
        <4>2. e[j] \in Nat /\ i \in Nat
          BY <1>1, <3>1
        <4> QED
          BY <2>4, <4>1, <4>2
      <3>3. q[j].id \notin ids
        BY <1>1, <1>5, <3>1, <3>2
      <3>4. PricesIn(w, q[j].id) = PricesIn(u, q[j].id)
        BY <1>1, <1>6, <3>3, OthersKeepPrices
      <3> QED
        BY <3>4 DEF LineIn
    <2>13. PICK old : old = LinesIn(t, u, s)
      OBVIOUS
    <2>14. old = [j \in 1..Len(q) |-> LineIn(u, q[j])]
      BY <2>7, <2>11, <2>13 DEF LinesIn
    <2>15. LinesIn(v, w, s) = [j \in 1..(Len(q) - 1) |-> LineIn(w, r[j])]
      BY <2>6, <2>7, <2>9, <2>10 DEF LinesIn
    <2> DEFINE L == {LineIn(u, q[j]) : j \in 1..Len(q)}
    <2>16. old \in [1..Len(q) -> L]
      BY <2>14
    <2>17. old \in Seq(L) /\ DOMAIN old = 1..Len(q) /\ Len(old) = Len(q)
      <3> HIDE DEF L
      <3> QED
        BY <2>11, <2>16
    <2> HIDE DEF L
    <2>18. PICK x : x = RemoveAt(old, k)
      OBVIOUS
    <2>19. /\ x \in Seq(L) /\ DOMAIN x = 1..(Len(q) - 1)
           /\ \A j \in 1..(Len(q) - 1) : x[j] = IF j < k THEN old[j] ELSE old[j + 1]
      BY <2>11, <2>17, <2>18, OneRemoved
    <2>20. ASSUME NEW j \in 1..(Len(q) - 1)
           PROVE  x[j] = LineIn(w, r[j])
      <3>1. j \in 1..Len(q) /\ j + 1 \in 1..Len(q)
        BY <2>11
      <3>2. CASE j < k
        <4>1. x[j] = old[j] /\ r[j] = q[j] /\ j # k
          BY <2>10, <2>11, <2>19, <3>2
        <4>2. old[j] = LineIn(u, q[j])
          BY <2>14, <3>1
        <4> QED
          BY <2>12, <3>1, <4>1, <4>2
      <3>3. CASE ~(j < k)
        <4>1. x[j] = old[j + 1] /\ r[j] = q[j + 1] /\ j + 1 # k
          BY <2>10, <2>11, <2>19, <3>3
        <4>2. old[j + 1] = LineIn(u, q[j + 1])
          BY <2>14, <3>1
        <4> QED
          BY <2>12, <3>1, <4>1, <4>2
      <3> QED
        BY <3>2, <3>3
    <2>21. x = [j \in 1..(Len(q) - 1) |-> x[j]]
      BY <2>19
    <2>22. LinesIn(v, w, s) = x
      BY <2>15, <2>20, <2>21
    <2> QED
      BY <2>11, <2>13, <2>17, <2>18, <2>22
  <1> QED
    BY <1>7, <1>8, <1>9 DEF OtherLinesStay, LinesTaken


(* What is shown of a session is a sequence of lines, each like a request. *)
LEMMA LineIsLine ==
  ASSUME NEW u \in Seq(ModifierRow), NEW x \in CartRow
  PROVE  LineIn(u, x) \in CartRequest
  <1> DEFINE own == At(u, Where(u, OwnRows(x.id)))
  <1>1. own \in Seq(ModifierRow)
    BY AtIsSequence, WherePlaces
  <1>2. PricesIn(u, x.id) = [k \in DOMAIN own |-> own[k].price]
    BY DEF PricesIn
  <1> HIDE DEF own
  <1>3. Len(own) \in Nat /\ DOMAIN own = 1..Len(own)
    BY <1>1
  <1>4. \A k \in DOMAIN own : own[k].price \in Nat
    <2>1. \A k \in DOMAIN own : own[k] \in ModifierRow
      BY <1>1
    <2>2. \A y \in ModifierRow : y.price \in Nat
      BY DEF ModifierRow
    <2> QED
      BY <2>1, <2>2
  <1>5. PricesIn(u, x.id) \in [1..Len(own) -> Nat]
    BY <1>2, <1>3, <1>4
  <1>6. PricesIn(u, x.id) \in Seq(Nat)
    BY <1>3, <1>5
  <1> QED
    BY <1>6 DEF LineIn, CartRow, CartRequest

LEMMA LinesAreLines ==
  ASSUME NEW t \in Seq(CartRow), NEW u \in Seq(ModifierRow), NEW s
  PROVE  LinesIn(t, u, s) \in Seq(CartRequest)
  <1>1. PICK q : q = RowsIn(t, s)
    OBVIOUS
  <1>2. q \in Seq(CartRow)
    BY <1>1, RowsAreRows
  <1>3. Len(q) \in Nat /\ DOMAIN q = 1..Len(q) /\ \A k \in 1..Len(q) : q[k] \in CartRow
    BY <1>2
  <1>4. \A k \in 1..Len(q) : LineIn(u, q[k]) \in CartRequest
    BY <1>3, LineIsLine
  <1>5. LinesIn(t, u, s) = [k \in 1..Len(q) |-> LineIn(u, q[k])]
    BY <1>1, <1>3 DEF LinesIn
  <1>6. LinesIn(t, u, s) \in [1..Len(q) -> CartRequest]
    BY <1>4, <1>5
  <1> QED
    BY <1>3, <1>6

LineAdded(old, new, x, prices) ==
  new = Append(old, [item |-> x.item, price |-> x.price, quantity |-> x.quantity,
                     modifiers |-> prices])

LEMMA AddedLine ==
  ASSUME NEW t, NEW u, NEW n, NEW S, CartTables(t, u, n, S), NEW x \in CartRow, x.id = n + 1,
         NEW s \in S, x.session = s, NEW prices \in Seq(Nat),
         NEW v, v = Append(t, x), NEW w, w = u \o ModifierRows(n + 1, prices)
  PROVE  /\ OtherLinesStay(t, u, v, w, n + 1, S, s)
         /\ LineAdded(LinesIn(t, u, s), LinesIn(v, w, s), x, prices)
  <1>1. /\ t \in Seq(CartRow) /\ u \in Seq(ModifierRow) /\ n \in Nat
        /\ \A i \in DOMAIN t : t[i].id <= n /\ t[i].session \in S
        /\ \A i, j \in DOMAIN t : t[i].id = t[j].id => i = j
        /\ \A m \in DOMAIN u : u[m].item <= n
    BY DEF CartTables
  <1>2. PICK l \in Nat : l = Len(t)
    BY <1>1
  <1>3. /\ DOMAIN t = 1..l /\ v \in Seq(CartRow) /\ DOMAIN v = 1..(l + 1)
        /\ \A i \in 1..l : v[i] = t[i]
        /\ v[l + 1] = x
    <2>1. v \in Seq(CartRow) /\ Len(v) = l + 1
      BY <1>1, <1>2, AppendProperties
    <2>2. v[l + 1] = x /\ \A i \in 1..l : v[i] = t[i]
      BY <1>1, <1>2, AppendProperties
    <2>3. DOMAIN t = 1..l
      BY <1>1, <1>2
    <2>4. DOMAIN v = 1..(l + 1)
      BY <2>1
    <2> QED
      BY <2>1, <2>2, <2>3, <2>4
  <1>4. \A i \in DOMAIN t : t[i] \in CartRow /\ t[i].id \in Nat
    <2>1. \A i \in DOMAIN t : t[i] \in CartRow
      BY <1>1
    <2>2. \A y \in CartRow : y.id \in Nat
      BY DEF CartRow
    <2> QED
      BY <2>1, <2>2
  <1>5. PICK id \in Nat : id = n + 1
    BY <1>1
  <1>6. /\ w \in Seq(ModifierRow)
        /\ \A m \in DOMAIN w : w[m].item <= id
        /\ PricesIn(w, id) = prices
        /\ \A other : other # id => PricesIn(w, other) = PricesIn(u, other)
    <2>1. \A m \in DOMAIN u : u[m].item <= id /\ u[m].item # id
      <3>1. \A m \in DOMAIN u : u[m].item \in Nat
        <4>1. \A m \in DOMAIN u : u[m] \in ModifierRow
          BY <1>1
        <4>2. \A y \in ModifierRow : y.item \in Nat
          BY DEF ModifierRow
        <4> QED
          BY <4>1, <4>2
      <3> QED
        BY <1>1, <1>5, <3>1
    <2>2. w = u \o ModifierRows(id, prices)
      BY <1>5
    <2>3. id <= id /\ ModifiersUpTo(u, id)
      BY <1>1, <2>1 DEF ModifiersUpTo
    <2>4. \A m \in DOMAIN u : u[m].item # id
      BY <2>1
    <2>5. ModifiersUpTo(w, id) /\ Modified(u, w, id, prices)
      BY <2>2, <2>3, <2>4, PricesAppended
    <2> QED
      BY <2>5 DEF ModifiersUpTo, Modified
  <1>7. CartTables(v, w, n + 1, S)
    <2>1. \A i \in 1..(l + 1) : i \in 1..l \/ i = l + 1
      OBVIOUS
    <2>2. \A i \in DOMAIN v : v[i].id <= n + 1 /\ v[i].session \in S
      <3> SUFFICES ASSUME NEW i \in 1..(l + 1)
                   PROVE  v[i].id <= n + 1 /\ v[i].session \in S
        BY <1>3
      <3>1. CASE i \in 1..l
        <4>1. i \in DOMAIN t /\ v[i] = t[i]
          BY <1>3, <3>1
        <4>2. t[i].id <= n /\ t[i].id \in Nat /\ t[i].session \in S
          BY <1>1, <1>4, <4>1
        <4>3. t[i].id <= n + 1
          BY <1>1, <4>2
        <4> QED
          BY <4>1, <4>2, <4>3
      <3>2. CASE i = l + 1
        BY <1>1, <1>3, <3>2
      <3> QED
        BY <2>1, <3>1, <3>2
    <2>3. ASSUME NEW i \in 1..l
          PROVE  v[i].id # x.id
      <3>1. i \in DOMAIN t /\ v[i] = t[i]
        BY <1>3
      <3>2. t[i].id <= n /\ t[i].id \in Nat
        BY <1>1, <1>4, <3>1
      <3>3. t[i].id # n + 1
        BY <1>1, <3>2
      <3> QED
        BY <3>1, <3>3
    <2>4. \A i, j \in DOMAIN v : v[i].id = v[j].id => i = j
      <3> SUFFICES ASSUME NEW i \in 1..(l + 1), NEW j \in 1..(l + 1), v[i].id = v[j].id
                   PROVE  i = j
        BY <1>3
      <3>1. CASE i \in 1..l /\ j \in 1..l
        BY <1>1, <1>3, <3>1
      <3>2. CASE i = l + 1 \/ j = l + 1
        BY <1>3, <2>1, <2>3, <3>2
      <3> QED
        BY <2>1, <3>1, <3>2
    <2>5. n + 1 \in Nat
      BY <1>1
    <2> QED
      BY <1>3, <1>5, <1>6, <2>2, <2>4, <2>5 DEF CartTables
  <1>8. \A r : \A i \in Where(t, RowsOf(r)) : i \in 1..l /\ v[i] = t[i]
    BY <1>3 DEF Where
  <1>9. \A r : Where(t, RowsOf(r)) \subseteq DOMAIN t /\ Where(t, RowsOf(r)) \subseteq DOMAIN v
    BY <1>3 DEF Where
  <1>10. \A r : At(v, Where(t, RowsOf(r))) = RowsIn(t, r)
    <2> SUFFICES ASSUME NEW r
                 PROVE  At(v, Where(t, RowsOf(r))) = RowsIn(t, r)
      OBVIOUS
    <2>1. PICK P : P = Where(t, RowsOf(r))
      OBVIOUS
    <2>2. P \subseteq DOMAIN t /\ P \subseteq DOMAIN v /\ \A i \in P : t[i] = v[i]
      BY <1>8, <1>9, <2>1
    <2>3. At(v, P) = At(t, P)
      <3>1. t \in Seq(CartRow) /\ v \in Seq(CartRow)
        BY <1>1, <1>3
      <3> QED
        BY <2>2, <3>1, AtSame
    <2> QED
      BY <2>1, <2>3 DEF RowsIn
  <1>11. \A r : \A k \in DOMAIN RowsIn(t, r) :
           PricesIn(w, RowsIn(t, r)[k].id) = PricesIn(u, RowsIn(t, r)[k].id)
    <2> SUFFICES ASSUME NEW r, NEW k \in DOMAIN RowsIn(t, r)
                 PROVE  PricesIn(w, RowsIn(t, r)[k].id) = PricesIn(u, RowsIn(t, r)[k].id)
      OBVIOUS
    <2>1. PICK i \in DOMAIN t : RowsIn(t, r)[k] = t[i]
      BY <1>1, RowsAreRows
    <2>2. t[i].id # id
      BY <1>1, <1>4, <1>5
    <2>3. RowsIn(t, r)[k].id # id
      BY <2>1, <2>2
    <2> QED
      BY <1>6, <2>3
  <1>12. ASSUME NEW r, r # s
         PROVE  LinesIn(v, w, r) = LinesIn(t, u, r)
    <2>1. Where(v, RowsOf(r)) = Where(t, RowsOf(r))
      <3>1. x \notin RowsOf(r)
        BY <1>12 DEF RowsOf
      <3> QED
        BY <1>3, <3>1 DEF Where
    <2>2. RowsIn(v, r) = RowsIn(t, r)
      BY <1>10, <2>1 DEF RowsIn
    <2> QED
      BY <1>11, <2>2, LinesStay
  <1>13. LinesIn(v, w, s)
           = Append(LinesIn(t, u, s), [item |-> x.item, price |-> x.price,
                                       quantity |-> x.quantity, modifiers |-> prices])
    <2>1. Where(v, RowsOf(s)) = Where(t, RowsOf(s)) \cup {l + 1}
      <3>1. x \in RowsOf(s)
        BY DEF RowsOf
      <3> QED
        BY <1>3, <3>1 DEF Where
    <2>2. PICK q : q = RowsIn(t, s)
      OBVIOUS
    <2>3. PICK y : y = RowsIn(v, s)
      OBVIOUS
    <2>4. y = Append(q, x)
      <3>1. PICK P : P = Where(t, RowsOf(s))
        OBVIOUS
      <3>2. P \subseteq DOMAIN v /\ l + 1 \in DOMAIN v /\ \A i \in P : i < l + 1
        BY <1>3, <1>9, <3>1
      <3>3. At(v, P \cup {l + 1}) = Append(At(v, P), v[l + 1])
        BY <1>3, <3>2, AtOneMore
      <3> QED
        BY <1>3, <1>10, <2>1, <2>2, <2>3, <3>1, <3>3 DEF RowsIn
    <2>5. q \in Seq(CartRow)
      BY <1>1, <2>2, RowsAreRows
    <2>6. PICK k \in Nat : k = Len(q)
      BY <2>5
    <2>7. /\ DOMAIN q = 1..k /\ DOMAIN y = 1..(k + 1)
          /\ \A j \in 1..k : y[j] = q[j]
          /\ y[k + 1] = x
      <3>1. y \in Seq(CartRow) /\ Len(y) = k + 1
        BY <2>4, <2>5, <2>6, AppendProperties
      <3>2. y[k + 1] = x /\ \A j \in 1..k : y[j] = q[j]
        BY <2>4, <2>5, <2>6, AppendProperties
      <3>3. DOMAIN q = 1..k
        BY <2>5, <2>6
      <3>4. DOMAIN y = 1..(k + 1)
        BY <3>1
      <3> QED
        BY <3>2, <3>3, <3>4
    <2>8. PICK old : old = LinesIn(t, u, s)
      OBVIOUS
    <2>9. old = [j \in 1..k |-> LineIn(u, q[j])]
      BY <2>2, <2>7, <2>8 DEF LinesIn
    <2>10. LinesIn(v, w, s) = [j \in 1..(k + 1) |-> LineIn(w, y[j])]
      BY <2>3, <2>7 DEF LinesIn
    <2>11. PICK line : line = LineIn(w, x)
      OBVIOUS
    <2>12. line = [item |-> x.item, price |-> x.price, quantity |-> x.quantity,
                   modifiers |-> prices]
      BY <1>5, <1>6, <2>11 DEF LineIn
    <2>13. line \in CartRequest /\ old \in Seq(CartRequest)
      BY <1>1, <1>6, <2>8, <2>11, LineIsLine, LinesAreLines
    <2>14. PICK new : new = Append(old, line)
      OBVIOUS
    <2>15. Len(old) = k
      <3>1. DOMAIN old = 1..k
        BY <2>9
      <3>2. DOMAIN old = 1..Len(old) /\ Len(old) \in Nat
        BY <2>13
      <3> QED
        BY <3>1, <3>2
    <2>16. /\ DOMAIN new = 1..(k + 1)
           /\ \A j \in 1..k : new[j] = old[j]
           /\ new[k + 1] = line
           /\ new \in Seq(CartRequest)
      <3>1. new \in Seq(CartRequest) /\ Len(new) = k + 1
        BY <2>13, <2>14, <2>15, AppendProperties
      <3>2. new[k + 1] = line /\ \A j \in 1..k : new[j] = old[j]
        BY <2>13, <2>14, <2>15, AppendProperties
      <3>3. DOMAIN new = 1..(k + 1)
        BY <3>1
      <3> QED
        BY <3>1, <3>2, <3>3
    <2>17. new = [j \in 1..(k + 1) |-> new[j]]
      BY <2>16
    <2>18. ASSUME NEW j \in 1..(k + 1)
           PROVE  new[j] = LineIn(w, y[j])
      <3>1. CASE j \in 1..k
        <4>1. new[j] = LineIn(u, q[j]) /\ y[j] = q[j]
          BY <2>7, <2>9, <2>16, <3>1
        <4>2. PricesIn(w, q[j].id) = PricesIn(u, q[j].id)
          BY <1>11, <2>2, <2>7, <3>1
        <4> QED
          BY <4>1, <4>2 DEF LineIn
      <3>2. CASE j = k + 1
        BY <2>7, <2>11, <2>16, <3>2
      <3> QED
        BY <3>1, <3>2
    <2>19. LinesIn(v, w, s) = new
      BY <2>10, <2>17, <2>18
    <2> QED
      BY <2>8, <2>12, <2>14, <2>19
  <1> QED
    BY <1>7, <1>12, <1>13 DEF OtherLinesStay, LineAdded


LEMMA ModifiersReplaced ==
  ASSUME NEW u, NEW n \in Nat, ModifiersUpTo(u, n), NEW id \in Nat, id <= n, NEW prices \in Seq(Nat)
  PROVE  LET w == Others(u, {id}) \o ModifierRows(id, prices)
         IN  ModifiersUpTo(w, n) /\ Modified(u, w, id, prices)
  <1>1. u \in Seq(ModifierRow) /\ \A m \in DOMAIN u : u[m].item <= n
    BY DEF ModifiersUpTo
  <1>2. PICK o : o = Others(u, {id})
    OBVIOUS
  <1>3. ModifiersUpTo(o, n) /\ \A m \in DOMAIN o : o[m].item # id
    BY <1>1, <1>2, OthersIsTable DEF ModifiersUpTo
  <1>4. ModifiersUpTo(o \o ModifierRows(id, prices), n)
        /\ Modified(o, o \o ModifierRows(id, prices), id, prices)
    BY <1>3, PricesAppended
  <1>5. \A other : other # id => PricesIn(o, other) = PricesIn(u, other)
    <2> SUFFICES ASSUME NEW other, other # id
                 PROVE  PricesIn(o, other) = PricesIn(u, other)
      OBVIOUS
    <2>1. other \notin {id}
      OBVIOUS
    <2> QED
      BY <1>1, <1>2, <2>1, OthersKeepPrices
  <1> QED
    BY <1>2, <1>4, <1>5 DEF Modified

(* What a change leaves of a line. *)
CartLineChanged(old, new) ==
  \E k \in DOMAIN old : \E line \in CartRequest :
    /\ line = [old[k] EXCEPT !.quantity = line.quantity, !.modifiers = line.modifiers]
    /\ new = [old EXCEPT ![k] = line]

QuantitySet(t, i, quantity, v) == v = [t EXCEPT ![i].quantity = quantity]

LEMMA ChangedLine ==
  ASSUME NEW t, NEW u, NEW n, NEW S, CartTables(t, u, n, S), NEW i \in DOMAIN t,
         NEW s, t[i].session = s, NEW quantity \in Nat \ {0},
         NEW v, QuantitySet(t, i, quantity, v), NEW w, ModifiersUpTo(w, n),
         \A other : other # t[i].id => PricesIn(w, other) = PricesIn(u, other)
  PROVE  /\ OtherLinesStay(t, u, v, w, n, S, s)
         /\ CartLineChanged(LinesIn(t, u, s), LinesIn(v, w, s))
  <1>1. /\ t \in Seq(CartRow) /\ u \in Seq(ModifierRow) /\ n \in Nat
        /\ \A j \in DOMAIN t : t[j].id <= n /\ t[j].session \in S
        /\ \A j, k \in DOMAIN t : t[j].id = t[k].id => j = k
    BY DEF CartTables
  <1>2. w \in Seq(ModifierRow) /\ \A m \in DOMAIN w : w[m].item <= n
    BY DEF ModifiersUpTo
  <1>3. PICK l \in Nat : l = Len(t) /\ DOMAIN t = 1..l
    BY <1>1
  <1>4. PICK x : x = [t[i] EXCEPT !.quantity = quantity]
    OBVIOUS
  <1>5. t[i] \in CartRow
    BY <1>1
  <1>6. /\ x \in CartRow /\ x.id = t[i].id /\ x.session = s /\ x.item = t[i].item
        /\ x.price = t[i].price /\ x.quantity = quantity
    BY <1>4, <1>5 DEF CartRow
  <1>7. v = [t EXCEPT ![i] = x]
    BY <1>1, <1>4, <1>5 DEF QuantitySet
  <1>8. /\ v \in Seq(CartRow) /\ DOMAIN v = 1..l
        /\ v[i] = x /\ \A j \in 1..l : j # i => v[j] = t[j]
    BY <1>1, <1>3, <1>6, <1>7
  <1>9. \A j \in 1..l : v[j].id = t[j].id /\ v[j].session = t[j].session
    <2> SUFFICES ASSUME NEW j \in 1..l
                 PROVE  v[j].id = t[j].id /\ v[j].session = t[j].session
      OBVIOUS
    <2>1. CASE j = i
      BY <1>6, <1>8, <2>1
    <2>2. CASE j # i
      BY <1>8, <2>2
    <2> QED
      BY <2>1, <2>2
  <1>10. CartTables(v, w, n, S)
    <2>1. \A j \in DOMAIN v : v[j].id <= n /\ v[j].session \in S
      BY <1>1, <1>3, <1>8, <1>9
    <2>2. \A j, k \in DOMAIN v : v[j].id = v[k].id => j = k
      BY <1>1, <1>3, <1>8, <1>9
    <2> QED
      BY <1>1, <1>2, <1>8, <2>1, <2>2 DEF CartTables
  <1>11. \A j \in 1..l : v[j] \in CartRow /\ t[j] \in CartRow
    BY <1>1, <1>3, <1>8
  <1>12. \A r : Where(v, RowsOf(r)) = Where(t, RowsOf(r))
    <2>1. \A r : \A j \in 1..l : v[j] \in RowsOf(r) <=> t[j] \in RowsOf(r)
      BY <1>9, <1>11 DEF RowsOf
    <2> QED
      BY <1>3, <1>8, <2>1 DEF Where
  <1>13. ASSUME NEW r, r # s
         PROVE  LinesIn(v, w, r) = LinesIn(t, u, r)
    <2>1. PICK P : P = Where(t, RowsOf(r))
      OBVIOUS
    <2>2. P \subseteq DOMAIN t /\ P \subseteq DOMAIN v /\ \A p \in P : t[p].session = r
      BY <1>3, <1>8, <2>1 DEF Where, RowsOf
    <2>3. \A p \in P : t[p] = v[p]
      BY <1>3, <1>8, <1>13, <2>2
    <2>4. At(v, P) = At(t, P)
      <3>1. t \in Seq(CartRow) /\ v \in Seq(CartRow)
        BY <1>1, <1>8
      <3>2. P \subseteq DOMAIN t /\ P \subseteq DOMAIN v
        BY <2>2
      <3> QED
        BY <2>3, <3>1, <3>2, AtSame
    <2>5. RowsIn(v, r) = RowsIn(t, r)
      BY <1>12, <2>1, <2>4 DEF RowsIn
    <2>6. ASSUME NEW k \in DOMAIN RowsIn(t, r)
          PROVE  PricesIn(w, RowsIn(t, r)[k].id) = PricesIn(u, RowsIn(t, r)[k].id)
      <3>1. PICK j \in DOMAIN t : RowsIn(t, r)[k] = t[j] /\ t[j].session = r
        BY <1>1, RowsAreRows
      <3>2. t[j].id # t[i].id
        BY <1>1, <1>13, <3>1
      <3> QED
        BY <3>1, <3>2
    <2> QED
      BY <2>5, <2>6, LinesStay
  <1>14. CartLineChanged(LinesIn(t, u, s), LinesIn(v, w, s))
    <2>1. PICK e : \E m \in Nat : PlacesInOrder(t, s, e, m)
      BY <1>1, RowsEnumerated
    <2>2. PICK m \in Nat :
             /\ Enumerates(e, m, Where(t, RowsOf(s)))
             /\ RowsIn(t, s) = [k \in 1..m |-> t[e[k]]]
             /\ \A k \in 1..m : e[k] \in DOMAIN t /\ t[e[k]] \in CartRow /\ t[e[k]].session = s
      BY <2>1 DEF PlacesInOrder
    <2>3. i \in Where(t, RowsOf(s))
      BY <1>5 DEF Where, RowsOf
    <2>4. PICK k \in 1..m : e[k] = i
      BY <2>2, <2>3 DEF Enumerates
    <2>5. \A j \in 1..m : j # k => e[j] # i
      <3> SUFFICES ASSUME NEW j \in 1..m, j # k
                   PROVE  e[j] # i
        OBVIOUS
      <3>1. e[j] < e[k] \/ e[k] < e[j]
        BY <2>2 DEF Enumerates
      <3>2. e[j] \in Nat /\ i \in Nat
        BY <1>3, <2>2
      <3> QED
        BY <2>4, <3>1, <3>2
    <2>6. RowsIn(v, s) = [j \in 1..m |-> v[e[j]]]
      <3>1. PICK P : P = Where(t, RowsOf(s))
        OBVIOUS
      <3>2. P \subseteq DOMAIN v /\ Enumerates(e, m, P)
        BY <1>3, <1>8, <2>2, <3>1 DEF Where
      <3>3. At(v, P) = [j \in 1..m |-> v[e[j]]]
        <4>1. v \in Seq(CartRow)
          BY <1>8
        <4> QED
          BY <3>2, <4>1, AtEnumerated
      <3> QED
        BY <1>12, <3>1, <3>3 DEF RowsIn
    <2>7. PICK old : old = LinesIn(t, u, s)
      OBVIOUS
    <2>8. PICK new : new = LinesIn(v, w, s)
      OBVIOUS
    <2>9. old = [j \in 1..m |-> LineIn(u, t[e[j]])]
      <3>1. PICK q : q = RowsIn(t, s)
        OBVIOUS
      <3>2. DOMAIN q = 1..m /\ \A j \in 1..m : q[j] = t[e[j]]
        BY <2>2, <3>1
      <3>3. old = [j \in 1..m |-> LineIn(u, q[j])]
        BY <2>7, <3>1, <3>2 DEF LinesIn
      <3> QED
        BY <3>2, <3>3
    <2>10. new = [j \in 1..m |-> LineIn(w, v[e[j]])]
      <3>1. PICK q : q = RowsIn(v, s)
        OBVIOUS
      <3>2. DOMAIN q = 1..m /\ \A j \in 1..m : q[j] = v[e[j]]
        BY <2>6, <3>1
      <3>3. new = [j \in 1..m |-> LineIn(w, q[j])]
        BY <2>8, <3>1, <3>2 DEF LinesIn
      <3> QED
        BY <3>2, <3>3
    <2>11. PICK line : line = LineIn(w, x)
      OBVIOUS
    <2>12. line \in CartRequest
      BY <1>2, <1>6, <2>11, LineIsLine
    <2>13. line = [old[k] EXCEPT !.quantity = line.quantity, !.modifiers = line.modifiers]
      <3>1. old[k] = LineIn(u, t[i])
        BY <2>4, <2>9
      <3>2. PICK a : a = PricesIn(w, x.id)
        OBVIOUS
      <3>3. line = [item |-> t[i].item, price |-> t[i].price, quantity |-> quantity,
                    modifiers |-> a]
        BY <1>6, <2>11, <3>2 DEF LineIn
      <3>4. PICK b : b = PricesIn(u, t[i].id)
        OBVIOUS
      <3>5. old[k] = [item |-> t[i].item, price |-> t[i].price, quantity |-> t[i].quantity,
                      modifiers |-> b]
        BY <3>1, <3>4 DEF LineIn
      <3>6. PICK y : y = old[k]
        OBVIOUS
      <3>7. y = [item |-> t[i].item, price |-> t[i].price, quantity |-> t[i].quantity,
                 modifiers |-> b]
        BY <3>5, <3>6
      <3>8. line.quantity = quantity /\ line.modifiers = a
        BY <3>3
      <3>9. line = [y EXCEPT !.quantity = quantity, !.modifiers = a]
        <4>1. PICK z : z = [y EXCEPT !.quantity = quantity]
          OBVIOUS
        <4>2. z = [item |-> t[i].item, price |-> t[i].price, quantity |-> quantity,
                   modifiers |-> b]
          BY <3>7, <4>1
        <4>3. line = [z EXCEPT !.modifiers = a]
          BY <3>3, <4>2
        <4>4. [y EXCEPT !.quantity = quantity, !.modifiers = a]
                = [[y EXCEPT !.quantity = quantity] EXCEPT !.modifiers = a]
          BY <3>7
        <4> QED
          BY <4>1, <4>3, <4>4, Zenon
      <3>10. PICK c, d : c = line.quantity /\ d = line.modifiers
        OBVIOUS
      <3>11. line = [y EXCEPT !.quantity = c, !.modifiers = d]
        BY <3>8, <3>9, <3>10, Zenon
      <3>12. line = [old[k] EXCEPT !.quantity = c, !.modifiers = d]
        BY <3>6, <3>11
      <3> QED
        BY <3>10, <3>12, Zenon
    <2>14. \A j \in 1..m : j # k => LineIn(w, v[e[j]]) = LineIn(u, t[e[j]])
      <3> SUFFICES ASSUME NEW j \in 1..m, j # k
                   PROVE  LineIn(w, v[e[j]]) = LineIn(u, t[e[j]])
        OBVIOUS
      <3>1. PICK p : p = e[j]
        OBVIOUS
      <3>2. p \in DOMAIN t /\ p # i
        BY <2>2, <2>5, <3>1
      <3>3. v[p] = t[p] /\ t[p].id # t[i].id
        BY <1>1, <1>3, <1>8, <3>2
      <3>4. PricesIn(w, t[p].id) = PricesIn(u, t[p].id)
        BY <3>3
      <3>5. LineIn(w, t[p]) = LineIn(u, t[p])
        BY <3>4 DEF LineIn
      <3> QED
        BY <3>1, <3>3, <3>5
    <2>15. new = [old EXCEPT ![k] = line]
      <3>1. LineIn(w, v[e[k]]) = line
        BY <1>8, <2>4, <2>11
      <3>2. DOMAIN old = 1..m /\ \A j \in 1..m : old[j] = LineIn(u, t[e[j]])
        BY <2>9
      <3>3. \A j \in 1..m : LineIn(w, v[e[j]]) = IF j = k THEN line ELSE old[j]
        BY <2>14, <3>1, <3>2
      <3>4. [old EXCEPT ![k] = line] = [j \in 1..m |-> IF j = k THEN line ELSE old[j]]
        BY <3>2
      <3> QED
        BY <2>10, <3>3, <3>4
    <2>16. k \in DOMAIN old
      BY <2>9
    <2>17. CartLineChanged(old, new)
      BY <2>12, <2>13, <2>15, <2>16 DEF CartLineChanged
    <2> QED
      BY <2>7, <2>8, <2>17
  <1> QED
    BY <1>10, <1>13, <1>14 DEF OtherLinesStay


(* Through the tables, sessions show as the baskets of their owners. *)
CartSession ==
  [tenant: Tenants, customer: Customers \cup {None}, mode: FulfillmentModes, address: BOOLEAN]

CartInv ==
  /\ sessions \in Seq(CartSession)
  /\ \A r, s \in DOMAIN sessions : OwnerOf(r) = OwnerOf(s) => r = s
  /\ CartTables(cartItems, modifiers, itemIds, DOMAIN sessions)
  /\ \A call \in cartCall : call.session \in DOMAIN sessions

Basket(lines, mode, address) == [lines |-> lines, mode |-> mode, address |-> address]

BasketIn(ss, t, u, s) == Basket(LinesIn(t, u, s), ss[s].mode, ss[s].address)

LEMMA LinesAreOfTables ==
  ASSUME cartItems \in Seq(CartRow), modifiers \in Seq(ModifierRow), NEW s
  PROVE  LinesOf(s) = LinesIn(cartItems, modifiers, s)
  <1>1. \A i \in DOMAIN cartItems : cartItems[i] \in CartRow
    OBVIOUS
  <1>2. PlacesOf(s) = Where(cartItems, RowsOf(s))
    BY <1>1 DEF PlacesOf, Where, RowsOf
  <1>3. ItemsOf(s) = RowsIn(cartItems, s)
    BY <1>2 DEF ItemsOf, RowsIn
  <1>4. ASSUME NEW id
        PROVE  PricesOf(id) = PricesIn(modifiers, id)
    <2>1. \A m \in DOMAIN modifiers : modifiers[m] \in ModifierRow
      OBVIOUS
    <2>2. {m \in DOMAIN modifiers : modifiers[m].item = id} = Where(modifiers, OwnRows(id))
      BY <2>1 DEF Where, OwnRows
    <2> QED
      BY <2>2 DEF PricesOf, PricesIn, ModifiersOf
  <1>5. \A x : Shown(x) = LineIn(modifiers, x)
    BY <1>4 DEF Shown, LineIn
  <1> QED
    BY <1>3, <1>5 DEF LinesOf, LinesIn

BasketsShow ==
  /\ AllBaskets = [o \in SessionOwners |-> AllBaskets[o]]
  /\ \A s \in DOMAIN sessions :
       /\ OwnerOf(s) \in SessionOwners
       /\ AllBaskets[OwnerOf(s)] = BasketIn(sessions, cartItems, modifiers, s)

LEMMA BasketsAreOfSessions == CartInv => BasketsShow
  <1> SUFFICES ASSUME CartInv
               PROVE  BasketsShow
    OBVIOUS
  <1>1. AllBaskets = [o \in SessionOwners |-> AllBaskets[o]]
    BY DEF AllBaskets
  <1>2. ASSUME NEW s \in DOMAIN sessions
        PROVE  /\ OwnerOf(s) \in SessionOwners
               /\ AllBaskets[OwnerOf(s)] = BasketIn(sessions, cartItems, modifiers, s)
    <2>1. OwnerOf(s) \in SessionOwners
      BY DEF SessionOwners
    <2>2. AllBaskets[OwnerOf(s)] = BasketOf(OwnerOf(s))
      BY <2>1 DEF AllBaskets
    <2>3. \A r \in DOMAIN sessions : IsSessionOf(r, OwnerOf(s)) <=> r = s
      <3>1. \A r, q \in DOMAIN sessions : OwnerOf(r) = OwnerOf(q) => r = q
        BY DEF CartInv
      <3>2. DOMAIN sessions = 1..Len(sessions) /\ Len(sessions) \in Nat
        BY DEF CartInv
      <3>3. \A r \in 1..(s - 1) : r \in DOMAIN sessions /\ r # s
        BY <3>2
      <3>4. \A r \in 1..(s - 1) : OwnerOf(r) # OwnerOf(s)
        BY <3>1, <3>3
      <3> QED
        BY <3>1, <3>4 DEF IsSessionOf
    <2>4. (CHOOSE r \in DOMAIN sessions : IsSessionOf(r, OwnerOf(s))) = s
      BY <2>3
    <2>5. BasketOf(OwnerOf(s))
            = [lines |-> LinesOf(s), mode |-> sessions[s].mode, address |-> sessions[s].address]
      BY <2>4 DEF BasketOf
    <2>6. LinesOf(s) = LinesIn(cartItems, modifiers, s)
      BY LinesAreOfTables DEF CartInv, CartTables
    <2> QED
      BY <2>1, <2>2, <2>5, <2>6 DEF BasketIn, Basket
  <1> QED
    BY <1>1, <1>2 DEF BasketsShow

(* What becomes of one basket. *)
LEMMA OtherLines ==
  ASSUME NEW lines, NEW now, NEW mode, NEW address
  PROVE  /\ Basket(lines, mode, address).lines = lines
         /\ OwnBaskets!WithLines(Basket(lines, mode, address), Basket(now, mode, address), now)
  <1>1. PICK old : old = Basket(lines, mode, address)
    OBVIOUS
  <1>2. PICK new : new = Basket(now, mode, address)
    OBVIOUS
  <1>3. new = [old EXCEPT !.lines = now] /\ old.lines = lines
    BY <1>1, <1>2 DEF Basket
  <1> QED
    BY <1>1, <1>2, <1>3 DEF OwnBaskets!WithLines

LEMMA ACallPuts ==
  ASSUME NEW lines \in Seq(CartRequest), NEW line \in CartRequest, NEW mode, NEW address
  PROVE  OwnBaskets!Put(Basket(lines, mode, address), Basket(Append(lines, line), mode, address))
  <1>1. PICK old : old = Basket(lines, mode, address)
    OBVIOUS
  <1>2. PICK new : new = Basket(Append(lines, line), mode, address)
    OBVIOUS
  <1>3. PICK now : now = Append(lines, line)
    OBVIOUS
  <1>4. /\ now \in Seq(CartRequest) /\ now # << >> /\ Len(now) = Len(lines) + 1
        /\ now[Len(lines) + 1] = line
    BY <1>3, AppendProperties
  <1>5. Last(now) = line
    BY <1>4 DEF Last
  <1>6. new.lines = now /\ old.lines = lines /\ OwnBaskets!WithLines(old, new, now)
    BY <1>1, <1>2, <1>3, OtherLines
  <1>7. line \in OwnBaskets!Line
    BY DEF CartRequest, OwnBaskets!Line
  <1>8. OwnBaskets!WithLines(old, new, Append(old.lines, Last(new.lines)))
    BY <1>3, <1>5, <1>6
  <1>9. OwnBaskets!Put(old, new)
    <2>1. new.lines # << >>
      BY <1>4, <1>6
    <2>2. Last(new.lines) \in OwnBaskets!Line
      BY <1>5, <1>6, <1>7
    <2>3. OwnBaskets!Last(new.lines) = Last(new.lines)
      BY DEF OwnBaskets!Last, Last
    <2> QED
      BY <1>8, <2>1, <2>2, <2>3 DEF OwnBaskets!Put
  <1> QED
    BY <1>1, <1>2, <1>9

LEMMA ACallChanges ==
  ASSUME NEW lines, NEW now, CartLineChanged(lines, now), NEW mode, NEW address
  PROVE  OwnBaskets!Change(Basket(lines, mode, address), Basket(now, mode, address))
  <1>1. PICK k \in DOMAIN lines : \E line \in CartRequest :
          /\ line = [lines[k] EXCEPT !.quantity = line.quantity, !.modifiers = line.modifiers]
          /\ now = [lines EXCEPT ![k] = line]
    BY DEF CartLineChanged
  <1>2. PICK line \in CartRequest :
          /\ line = [lines[k] EXCEPT !.quantity = line.quantity, !.modifiers = line.modifiers]
          /\ now = [lines EXCEPT ![k] = line]
    BY <1>1
  <1>3. PICK old : old = Basket(lines, mode, address)
    OBVIOUS
  <1>4. PICK new : new = Basket(now, mode, address)
    OBVIOUS
  <1>5. new.lines = now /\ old.lines = lines /\ OwnBaskets!WithLines(old, new, now)
    BY <1>3, <1>4, OtherLines
  <1>6. DOMAIN now = DOMAIN lines /\ now[k] = line
    BY <1>2
  <1>7. line \in OwnBaskets!Line
    BY DEF CartRequest, OwnBaskets!Line
  <1>8. OwnBaskets!WithLines(old, new, [old.lines EXCEPT ![k] = line])
    BY <1>2, <1>5
  <1>9. line = new.lines[k] /\ k \in DOMAIN old.lines \cap DOMAIN new.lines
    BY <1>5, <1>6
  <1>10. line = [old.lines[k] EXCEPT !.quantity = line.quantity, !.modifiers = line.modifiers]
    BY <1>2, <1>5
  <1>11. OwnBaskets!Change(old, new)
    BY <1>7, <1>8, <1>9, <1>10 DEF OwnBaskets!Change
  <1> QED
    BY <1>3, <1>4, <1>11

LEMMA ACallTakes ==
  ASSUME NEW lines, NEW k \in DOMAIN lines, NEW mode, NEW address
  PROVE  OwnBaskets!Take(Basket(lines, mode, address), Basket(RemoveAt(lines, k), mode, address))
  <1>1. PICK old : old = Basket(lines, mode, address)
    OBVIOUS
  <1>2. PICK new : new = Basket(RemoveAt(lines, k), mode, address)
    OBVIOUS
  <1>3. old.lines = lines /\ OwnBaskets!WithLines(old, new, RemoveAt(lines, k))
    <2>1. PICK now : now = RemoveAt(lines, k)
      OBVIOUS
    <2>2. old.lines = lines /\ OwnBaskets!WithLines(old, new, now)
      BY <1>1, <1>2, <2>1, OtherLines
    <2> QED
      BY <2>1, <2>2
  <1>4. OwnBaskets!Take(old, new)
    <2>1. OwnBaskets!RemoveAt(old.lines, k) = RemoveAt(old.lines, k)
      BY DEF OwnBaskets!RemoveAt, RemoveAt
    <2>2. k \in DOMAIN old.lines /\ OwnBaskets!WithLines(old, new, OwnBaskets!RemoveAt(old.lines, k))
      BY <1>3, <2>1
    <2> QED
      BY <2>2 DEF OwnBaskets!Take
  <1> QED
    BY <1>1, <1>2, <1>4

LEMMA ACallClears ==
  ASSUME NEW lines, NEW mode, NEW address
  PROVE  OwnBaskets!Clear(Basket(lines, mode, address), Basket(<< >>, mode, address))
  BY OtherLines DEF OwnBaskets!Clear

LEMMA ACallShips ==
  ASSUME NEW lines, NEW mode, NEW address, NEW m, NEW a, m = "delivery" => a
  PROVE  OwnBaskets!Ship(Basket(lines, mode, address), Basket(lines, m, a))
  <1>1. PICK old : old = Basket(lines, mode, address)
    OBVIOUS
  <1>2. PICK new : new = Basket(lines, m, a)
    OBVIOUS
  <1>3. new.mode = m /\ new.address = a
    BY <1>2 DEF Basket
  <1>4. PICK z : z = [old EXCEPT !.mode = m]
    OBVIOUS
  <1>5. z = [lines |-> lines, mode |-> m, address |-> address]
    BY <1>1, <1>4 DEF Basket
  <1>6. new = [z EXCEPT !.address = a]
    BY <1>2, <1>5 DEF Basket
  <1>7. [old EXCEPT !.mode = m, !.address = a] = [[old EXCEPT !.mode = m] EXCEPT !.address = a]
    BY <1>1 DEF Basket
  <1>8. new = [old EXCEPT !.mode = m, !.address = a]
    BY <1>4, <1>6, <1>7, Zenon
  <1>9. new = [old EXCEPT !.mode = new.mode, !.address = new.address]
    BY <1>3, <1>8, Zenon
  <1>10. new.mode = "delivery" => new.address
    BY <1>3
  <1>11. OwnBaskets!Ship(old, new)
    BY <1>9, <1>10 DEF OwnBaskets!Ship
  <1> QED
    BY <1>1, <1>2, <1>11


(* A call on a session that leaves its owner, and all other sessions, alone. *)
Relates(old, new) ==
  \/ OwnBaskets!Put(old, new) \/ OwnBaskets!Change(old, new) \/ OwnBaskets!Take(old, new)
  \/ OwnBaskets!Clear(old, new) \/ OwnBaskets!Ship(old, new)

LEMMA ACallIsAStep ==
  ASSUME CartInv, CartInv', NEW tenant, NEW s \in DOMAIN sessions, Named(tenant, s),
         DOMAIN sessions' = DOMAIN sessions,
         \A r \in DOMAIN sessions : OwnerOf(r)' = OwnerOf(r),
         \A r \in DOMAIN sessions : r # s =>
           BasketIn(sessions', cartItems', modifiers', r) = BasketIn(sessions, cartItems, modifiers, r),
         Relates(BasketIn(sessions, cartItems, modifiers, s),
                 BasketIn(sessions', cartItems', modifiers', s))
  PROVE  OwnBaskets!Next
  <1>1. /\ AllBaskets = [o \in SessionOwners |-> AllBaskets[o]]
        /\ \A r \in DOMAIN sessions :
             OwnerOf(r) \in SessionOwners
             /\ AllBaskets[OwnerOf(r)] = BasketIn(sessions, cartItems, modifiers, r)
    BY BasketsAreOfSessions DEF BasketsShow
  <1>2. /\ AllBaskets' = [o \in SessionOwners' |-> AllBaskets'[o]]
        /\ \A r \in DOMAIN sessions' :
             OwnerOf(r)' \in SessionOwners'
             /\ AllBaskets'[OwnerOf(r)'] = BasketIn(sessions', cartItems', modifiers', r)
    <2>1. BasketsShow'
      BY BasketsAreOfSessions, PTL
    <2>2. \A r : BasketIn(sessions, cartItems, modifiers, r)'
                  = BasketIn(sessions', cartItems', modifiers', r)
      BY DEF BasketIn
    <2> QED
      BY <2>1, <2>2 DEF BasketsShow
  <1>3. SessionOwners' = SessionOwners
    BY DEF SessionOwners
  <1>4. PICK o : o = OwnerOf(s)
    OBVIOUS
  <1>5. PICK old : old = BasketIn(sessions, cartItems, modifiers, s)
    OBVIOUS
  <1>6. PICK new : new = BasketIn(sessions', cartItems', modifiers', s)
    OBVIOUS
  <1>7. Relates(old, new)
    BY <1>5, <1>6
  <1>8. o \in SessionOwners /\ AllBaskets[o] = old /\ AllBaskets'[o] = new
    BY <1>1, <1>2, <1>4, <1>5, <1>6
  <1>9. \A p \in SessionOwners : p # o => AllBaskets'[p] = AllBaskets[p]
    <2> SUFFICES ASSUME NEW p \in SessionOwners, p # o
                 PROVE  AllBaskets'[p] = AllBaskets[p]
      OBVIOUS
    <2>1. PICK r \in DOMAIN sessions : p = OwnerOf(r)
      BY DEF SessionOwners
    <2>2. r # s /\ OwnerOf(r)' = p
      BY <1>4, <2>1
    <2>3. AllBaskets[p] = BasketIn(sessions, cartItems, modifiers, r)
      BY <1>1, <2>1
    <2>4. AllBaskets'[p] = BasketIn(sessions', cartItems', modifiers', r)
      BY <1>2, <2>2
    <2> QED
      BY <2>2, <2>3, <2>4
  <1>10. PICK b : b = AllBaskets
    OBVIOUS
  <1>11. PICK c : c = AllBaskets'
    OBVIOUS
  <1>12. PICK D : D = SessionOwners
    OBVIOUS
  <1>13. /\ b = [p \in D |-> b[p]] /\ c = [p \in D |-> c[p]] /\ o \in D
         /\ b[o] = old /\ c[o] = new /\ \A p \in D : p # o => c[p] = b[p]
    <2>1. b = [p \in D |-> b[p]]
      BY <1>1, <1>10, <1>12
    <2>2. c = [p \in D |-> c[p]]
      BY <1>2, <1>3, <1>11, <1>12
    <2>3. o \in D /\ b[o] = old /\ c[o] = new
      BY <1>8, <1>10, <1>11, <1>12
    <2>4. \A p \in D : p # o => c[p] = b[p]
      BY <1>9, <1>10, <1>11, <1>12
    <2> QED
      BY <2>1, <2>2, <2>3, <2>4
  <1>14. c = [b EXCEPT ![o] = new] /\ o \in DOMAIN b
    BY <1>13
  <1>15. PICK call : call = [tenant |-> tenant, owner |-> o]
    OBVIOUS
  <1>16. call \in NamedOwner' /\ call.owner = o /\ call.tenant = tenant
    <2>1. cartCall' = {[tenant |-> tenant, session |-> s]}
      BY DEF Named
    <2>2. NamedOwner' = {[tenant |-> x.tenant, owner |-> OwnerOf(x.session)'] : x \in cartCall'}
      BY DEF NamedOwner
    <2>3. OwnerOf(s)' = o
      BY <1>4
    <2>4. [tenant |-> tenant, session |-> s] \in cartCall'
      BY <2>1
    <2>5. [tenant |-> tenant, owner |-> o] \in NamedOwner'
      <3>1. PICK x \in cartCall' : x = [tenant |-> tenant, session |-> s]
        BY <2>4
      <3>2. x.tenant = tenant /\ x.session = s
        BY <3>1
      <3>3. OwnerOf(x.session)' = o
        BY <2>3, <3>2 DEF OwnerOf
      <3> QED
        BY <2>2, <3>2, <3>3
    <2> QED
      BY <1>15, <2>5
  <1>17. o.tenant = tenant
    BY <1>4 DEF Named, OwnerOf
  <1>18. \E old2 \in {b[o]}, new2 \in {c[o]} :
           /\ \/ OwnBaskets!Put(old2, new2) \/ OwnBaskets!Change(old2, new2)
              \/ OwnBaskets!Take(old2, new2)
              \/ OwnBaskets!Clear(old2, new2) \/ OwnBaskets!Ship(old2, new2)
           /\ c = [b EXCEPT ![o] = new2]
    BY <1>7, <1>13, <1>14 DEF Relates
  <1>19. /\ call.owner \in DOMAIN b /\ call.owner.tenant = call.tenant
         /\ \E old2 \in {b[call.owner]}, new2 \in {c[call.owner]} :
              /\ \/ OwnBaskets!Put(old2, new2) \/ OwnBaskets!Change(old2, new2)
                 \/ OwnBaskets!Take(old2, new2)
                 \/ OwnBaskets!Clear(old2, new2) \/ OwnBaskets!Ship(old2, new2)
              /\ c = [b EXCEPT ![call.owner] = new2]
    BY <1>14, <1>16, <1>17, <1>18
  <1>20. b \in {AllBaskets} /\ c \in {AllBaskets'}
    BY <1>10, <1>11
  <1>21. \E before \in {AllBaskets}, after \in {AllBaskets'} :
           /\ call.owner \in DOMAIN before /\ call.owner.tenant = call.tenant
           /\ \E old2 \in {before[call.owner]}, new2 \in {after[call.owner]} :
                /\ \/ OwnBaskets!Put(old2, new2) \/ OwnBaskets!Change(old2, new2)
                   \/ OwnBaskets!Take(old2, new2)
                   \/ OwnBaskets!Clear(old2, new2) \/ OwnBaskets!Ship(old2, new2)
                /\ after = [before EXCEPT ![call.owner] = new2]
    BY <1>19, <1>20, Zenon
  <1> QED
    BY <1>16, <1>21, Zenon DEF OwnBaskets!Next


(* Calls on the lines of one session. *)
LEMMA ACallOnLines ==
  ASSUME CartInv, NEW tenant, NEW s \in DOMAIN sessions, Named(tenant, s), sessions' = sessions,
         OtherLinesStay(cartItems, modifiers, cartItems', modifiers', itemIds', DOMAIN sessions, s),
         \A mode, address :
           Relates(Basket(LinesIn(cartItems, modifiers, s), mode, address),
                   Basket(LinesIn(cartItems', modifiers', s), mode, address))
  PROVE  CartInv' /\ OwnBaskets!Next
  <1>1. \A r : OwnerOf(r)' = OwnerOf(r)
    BY DEF OwnerOf
  <1>2. CartInv'
    <2>1. /\ sessions' \in Seq(CartSession)
          /\ \A r, q \in DOMAIN sessions' : OwnerOf(r)' = OwnerOf(q)' => r = q
      BY <1>1 DEF CartInv
    <2>2. CartTables(cartItems', modifiers', itemIds', DOMAIN sessions')
      BY DEF OtherLinesStay
    <2>3. \A call \in cartCall' : call.session \in DOMAIN sessions'
      BY DEF Named
    <2> QED
      BY <2>1, <2>2, <2>3 DEF CartInv, CartTables
  <1>3. DOMAIN sessions' = DOMAIN sessions
    OBVIOUS
  <1>4. \A r \in DOMAIN sessions : r # s =>
          BasketIn(sessions', cartItems', modifiers', r) = BasketIn(sessions, cartItems, modifiers, r)
    BY DEF BasketIn, OtherLinesStay
  <1>5. Relates(BasketIn(sessions, cartItems, modifiers, s),
                BasketIn(sessions', cartItems', modifiers', s))
    BY DEF BasketIn
  <1>6. \A r \in DOMAIN sessions : OwnerOf(r)' = OwnerOf(r)
    BY <1>1
  <1>7. OwnBaskets!Next
    BY <1>2, <1>3, <1>4, <1>5, <1>6, ACallIsAStep
  <1> QED
    BY <1>2, <1>7

LEMMA TheTables ==
  ASSUME CartInv
  PROVE  /\ CartTables(cartItems, modifiers, itemIds, DOMAIN sessions)
         /\ cartItems \in Seq(CartRow) /\ modifiers \in Seq(ModifierRow) /\ itemIds \in Nat
         /\ \A i \in DOMAIN cartItems :
              /\ cartItems[i] \in CartRow
              /\ cartItems[i].id \in Nat /\ cartItems[i].id <= itemIds
              /\ cartItems[i].quantity \in Nat \ {0}
         /\ ModifiersUpTo(modifiers, itemIds)
  <1>1. CartTables(cartItems, modifiers, itemIds, DOMAIN sessions)
    BY DEF CartInv
  <1>2. \A i \in DOMAIN cartItems : cartItems[i] \in CartRow
    BY <1>1 DEF CartTables
  <1>3. \A x \in CartRow : x.id \in Nat /\ x.quantity \in Nat \ {0}
    BY DEF CartRow
  <1> QED
    BY <1>1, <1>2, <1>3 DEF CartTables, ModifiersUpTo

LEMMA AddItemPuts ==
  ASSUME CartInv, NEW tenant, NEW s \in DOMAIN sessions, Named(tenant, s),
         NEW r \in CartRequests, AddItem(s, r)
  PROVE  CartInv' /\ OwnBaskets!Next
  <1> DEFINE x == [id |-> itemIds + 1, session |-> s, item |-> r.item,
                   price |-> r.price, quantity |-> r.quantity]
  <1>1. r \in CartRequest
    BY CartAssumption
  <1>2. /\ r.item \in STRING /\ r.price \in Nat /\ r.quantity \in Nat \ {0}
        /\ r.modifiers \in Seq(Nat)
    BY <1>1 DEF CartRequest
  <1>3. s \in Nat
    BY DEF CartInv
  <1>4. x \in CartRow /\ x.id = itemIds + 1 /\ x.session = s
    BY <1>2, <1>3, TheTables DEF CartRow
  <1>5. [item |-> x.item, price |-> x.price, quantity |-> x.quantity, modifiers |-> r.modifiers]
          \in CartRequest
    BY <1>2 DEF CartRequest
  <1>6. cartItems' = Append(cartItems, x)
    BY DEF AddItem
  <1>7. modifiers' = modifiers \o ModifierRows(itemIds + 1, r.modifiers)
    BY DEF AddItem, Modifiers, ModifierRows
  <1>8. itemIds' = itemIds + 1 /\ sessions' = sessions
    BY DEF AddItem
  <1> HIDE DEF x
  <1>9. CartTables(cartItems, modifiers, itemIds, DOMAIN sessions)
    BY TheTables
  <1>10. /\ OtherLinesStay(cartItems, modifiers, cartItems', modifiers', itemIds + 1,
                           DOMAIN sessions, s)
         /\ LinesIn(cartItems', modifiers', s)
              = Append(LinesIn(cartItems, modifiers, s),
                       [item |-> x.item, price |-> x.price, quantity |-> x.quantity,
                        modifiers |-> r.modifiers])
    <2>1. PICK n : n = itemIds
      OBVIOUS
    <2>2. PICK prices : prices = r.modifiers
      OBVIOUS
    <2>3. x \in CartRow /\ x.id = n + 1 /\ x.session = s /\ prices \in Seq(Nat)
      BY <1>2, <1>4, <2>1, <2>2
    <2>4. modifiers' = modifiers \o ModifierRows(n + 1, prices)
      BY <1>7, <2>1, <2>2
    <2>5. CartTables(cartItems, modifiers, n, DOMAIN sessions)
      BY <1>9, <2>1
    <2>6. /\ OtherLinesStay(cartItems, modifiers, cartItems', modifiers', n + 1, DOMAIN sessions, s)
          /\ LineAdded(LinesIn(cartItems, modifiers, s), LinesIn(cartItems', modifiers', s), x, prices)
      BY <1>6, <2>3, <2>4, <2>5, AddedLine
    <2> QED
      BY <2>1, <2>2, <2>6 DEF LineAdded
  <1>11. LinesIn(cartItems, modifiers, s) \in Seq(CartRequest)
    BY TheTables, LinesAreLines
  <1>12. \A mode, address :
           Relates(Basket(LinesIn(cartItems, modifiers, s), mode, address),
                   Basket(LinesIn(cartItems', modifiers', s), mode, address))
    BY <1>5, <1>10, <1>11, ACallPuts DEF Relates
  <1>13. OtherLinesStay(cartItems, modifiers, cartItems', modifiers', itemIds', DOMAIN sessions, s)
    BY <1>8, <1>10
  <1> QED
    BY <1>8, <1>12, <1>13, ACallOnLines

LEMMA UpdateItemChanges ==
  ASSUME CartInv, NEW tenant, NEW s \in DOMAIN sessions, Named(tenant, s), NEW id \in 1..itemIds,
         NEW quantity \in CartQuantities \cup {None}, NEW prices \in CartModifiers \cup {None},
         UpdateItem(s, id, quantity, prices)
  PROVE  CartInv' /\ OwnBaskets!Next
  <1>1. PICK i \in DOMAIN cartItems :
          /\ IsItem(i, s, id)
          /\ cartItems' = IF quantity = None THEN cartItems
                          ELSE [cartItems EXCEPT ![i].quantity = quantity]
    BY DEF UpdateItem
  <1>2. cartItems[i].session = s /\ cartItems[i].id = id
    BY <1>1 DEF IsItem
  <1>3. PICK now \in Nat \ {0} : QuantitySet(cartItems, i, now, cartItems')
    <2>1. CASE quantity = None
      <3>1. cartItems[i].quantity \in Nat \ {0} /\ cartItems \in Seq(CartRow)
        BY TheTables
      <3>2. cartItems[i] \in CartRow
        BY TheTables
      <3>3. [cartItems[i] EXCEPT !.quantity = cartItems[i].quantity] = cartItems[i]
        BY <3>2 DEF CartRow
      <3>4. [cartItems EXCEPT ![i].quantity = cartItems[i].quantity] = cartItems
        BY <3>1, <3>3
      <3> QED
        BY <1>1, <2>1, <3>1, <3>4 DEF QuantitySet
    <2>2. CASE quantity # None
      <3>1. quantity \in Nat \ {0}
        BY <2>2, CartAssumption
      <3> QED
        BY <1>1, <2>2, <3>1 DEF QuantitySet
    <2> QED
      BY <2>1, <2>2
  <1>4. itemIds \in Nat /\ id \in Nat /\ id <= itemIds
    BY TheTables
  <1>5. /\ ModifiersUpTo(modifiers', itemIds)
        /\ \A other : other # id => PricesIn(modifiers', other) = PricesIn(modifiers, other)
    <2>1. CASE prices = None
      <3>1. modifiers' = modifiers
        BY <2>1 DEF UpdateItem
      <3> QED
        BY <3>1, TheTables
    <2>2. CASE prices # None
      <3>1. prices \in Seq(Nat)
        BY <2>2, CartAssumption
      <3>2. modifiers' = Others(modifiers, {id}) \o ModifierRows(id, prices)
        BY <2>2 DEF UpdateItem, OtherModifiers, Others, Modifiers, ModifierRows
      <3>3. ModifiersUpTo(modifiers, itemIds)
        BY TheTables
      <3>4. ModifiersUpTo(modifiers', itemIds) /\ Modified(modifiers, modifiers', id, prices)
        BY <1>4, <3>1, <3>2, <3>3, ModifiersReplaced
      <3> QED
        BY <3>4 DEF Modified
    <2> QED
      BY <2>1, <2>2
  <1>6. CartTables(cartItems, modifiers, itemIds, DOMAIN sessions)
    BY TheTables
  <1>7. \A other : other # cartItems[i].id => PricesIn(modifiers', other) = PricesIn(modifiers, other)
    BY <1>2, <1>5
  <1>8. /\ OtherLinesStay(cartItems, modifiers, cartItems', modifiers', itemIds, DOMAIN sessions, s)
        /\ CartLineChanged(LinesIn(cartItems, modifiers, s), LinesIn(cartItems', modifiers', s))
    BY <1>2, <1>3, <1>5, <1>6, <1>7, ChangedLine
  <1>9. sessions' = sessions /\ itemIds' = itemIds
    BY DEF UpdateItem
  <1>10. \A mode, address :
           Relates(Basket(LinesIn(cartItems, modifiers, s), mode, address),
                   Basket(LinesIn(cartItems', modifiers', s), mode, address))
    BY <1>8, ACallChanges DEF Relates
  <1>11. OtherLinesStay(cartItems, modifiers, cartItems', modifiers', itemIds', DOMAIN sessions, s)
    BY <1>8, <1>9
  <1> QED
    BY <1>9, <1>10, <1>11, ACallOnLines

LEMMA RemoveCartItemTakes ==
  ASSUME CartInv, NEW tenant, NEW s \in DOMAIN sessions, Named(tenant, s), NEW id \in 1..itemIds,
         RemoveCartItem(s, id)
  PROVE  CartInv' /\ OwnBaskets!Next
  <1>1. PICK i \in DOMAIN cartItems : IsItem(i, s, id) /\ cartItems' = RemoveAt(cartItems, i)
    BY DEF RemoveCartItem
  <1>2. cartItems[i].session = s /\ cartItems[i].id = id
    BY <1>1 DEF IsItem
  <1>3. modifiers' = Others(modifiers, {cartItems[i].id})
    BY <1>2 DEF RemoveCartItem, OtherModifiers, Others
  <1>4. CartTables(cartItems, modifiers, itemIds, DOMAIN sessions)
    BY TheTables
  <1>5. /\ OtherLinesStay(cartItems, modifiers, cartItems', modifiers', itemIds, DOMAIN sessions, s)
        /\ LinesTaken(LinesIn(cartItems, modifiers, s), LinesIn(cartItems', modifiers', s))
    BY <1>1, <1>2, <1>3, <1>4, TakenLine
  <1>6. sessions' = sessions /\ itemIds' = itemIds
    BY DEF RemoveCartItem
  <1>7. \A mode, address :
           Relates(Basket(LinesIn(cartItems, modifiers, s), mode, address),
                   Basket(LinesIn(cartItems', modifiers', s), mode, address))
    BY <1>5, ACallTakes DEF Relates, LinesTaken
  <1>8. OtherLinesStay(cartItems, modifiers, cartItems', modifiers', itemIds', DOMAIN sessions, s)
    BY <1>5, <1>6
  <1> QED
    BY <1>6, <1>7, <1>8, ACallOnLines

LEMMA ClearItemsClears ==
  ASSUME CartInv, NEW tenant, NEW s \in DOMAIN sessions, Named(tenant, s), ClearItems(s)
  PROVE  CartInv' /\ OwnBaskets!Next
  <1>1. PlacesOf(s) = RowsWith(cartItems, s)
    BY DEF PlacesOf, RowsWith
  <1>2. cartItems' = At(cartItems, DOMAIN cartItems \ RowsWith(cartItems, s))
    BY <1>1 DEF ClearItems
  <1>3. modifiers' = Others(modifiers, {cartItems[i].id : i \in RowsWith(cartItems, s)})
    BY <1>1 DEF ClearItems, OtherModifiers, Others
  <1>4. CartTables(cartItems, modifiers, itemIds, DOMAIN sessions)
    BY TheTables
  <1>5. /\ OtherLinesStay(cartItems, modifiers, cartItems', modifiers', itemIds, DOMAIN sessions, s)
        /\ LinesIn(cartItems', modifiers', s) = << >>
    BY <1>2, <1>3, <1>4, ClearedLines
  <1>6. sessions' = sessions /\ itemIds' = itemIds
    BY DEF ClearItems
  <1>7. \A mode, address :
           Relates(Basket(LinesIn(cartItems, modifiers, s), mode, address),
                   Basket(LinesIn(cartItems', modifiers', s), mode, address))
    BY <1>5, ACallClears DEF Relates
  <1>8. OtherLinesStay(cartItems, modifiers, cartItems', modifiers', itemIds', DOMAIN sessions, s)
    BY <1>5, <1>6
  <1> QED
    BY <1>6, <1>7, <1>8, ACallOnLines


LEMMA SetFulfillmentShips ==
  ASSUME CartInv, NEW tenant, NEW s \in DOMAIN sessions, Named(tenant, s),
         NEW f \in Fulfillments, SetFulfillment(s, f)
  PROVE  CartInv' /\ OwnBaskets!Next
  <1>1. sessions \in Seq(CartSession) /\ f.mode \in FulfillmentModes /\ f.address \in BOOLEAN
    BY CartAssumption DEF CartInv
  <1>2. PICK old : old = sessions[s]
    OBVIOUS
  <1>3. old \in CartSession
    BY <1>1, <1>2
  <1>4. PICK new : new = [tenant |-> old.tenant, customer |-> old.customer,
                          mode |-> f.mode, address |-> f.address]
    OBVIOUS
  <1>5. new \in CartSession
    BY <1>1, <1>3, <1>4 DEF CartSession
  <1>6. sessions' = [sessions EXCEPT ![s] = new]
    <2>1. sessions' = [sessions EXCEPT ![s].mode = f.mode, ![s].address = f.address]
      BY DEF SetFulfillment
    <2>2. [sessions EXCEPT ![s].mode = f.mode, ![s].address = f.address]
            = [[sessions EXCEPT ![s].mode = f.mode] EXCEPT ![s].address = f.address]
      BY <1>1
    <2>3. PICK z : z = [old EXCEPT !.mode = f.mode]
      OBVIOUS
    <2>4. z = [tenant |-> old.tenant, customer |-> old.customer,
               mode |-> f.mode, address |-> old.address]
      BY <1>3, <2>3 DEF CartSession
    <2>5. [z EXCEPT !.address = f.address] = new
      BY <1>4, <2>4
    <2>6. PICK y : y = [sessions EXCEPT ![s] = z]
      OBVIOUS
    <2>7. y = [sessions EXCEPT ![s].mode = f.mode]
      BY <1>1, <1>2, <2>3, <2>6
    <2>8. [y EXCEPT ![s].address = f.address] = [sessions EXCEPT ![s] = new]
      BY <1>1, <2>5, <2>6
    <2> QED
      BY <2>1, <2>2, <2>7, <2>8, Zenon
  <1>7. /\ sessions' \in Seq(CartSession) /\ DOMAIN sessions' = DOMAIN sessions
        /\ sessions'[s] = new
        /\ \A r \in DOMAIN sessions : r # s => sessions'[r] = sessions[r]
    BY <1>1, <1>5, <1>6
  <1>8. \A r \in DOMAIN sessions : OwnerOf(r)' = OwnerOf(r)
    <2> SUFFICES ASSUME NEW r \in DOMAIN sessions
                 PROVE  OwnerOf(r)' = OwnerOf(r)
      OBVIOUS
    <2>1. CASE r = s
      <3>1. new.tenant = old.tenant /\ new.customer = old.customer
        BY <1>4
      <3> QED
        BY <1>2, <1>7, <2>1, <3>1 DEF OwnerOf
    <2>2. CASE r # s
      BY <1>7, <2>2 DEF OwnerOf
    <2> QED
      BY <2>1, <2>2
  <1>9. cartItems' = cartItems /\ modifiers' = modifiers /\ itemIds' = itemIds
    BY DEF SetFulfillment
  <1>10. CartInv'
    <2>1. \A r, q \in DOMAIN sessions' : OwnerOf(r)' = OwnerOf(q)' => r = q
      BY <1>7, <1>8 DEF CartInv
    <2>2. CartTables(cartItems', modifiers', itemIds', DOMAIN sessions')
      BY <1>7, <1>9 DEF CartInv
    <2>3. \A call \in cartCall' : call.session \in DOMAIN sessions'
      BY <1>7 DEF Named
    <2> QED
      BY <1>7, <2>1, <2>2, <2>3 DEF CartInv, CartTables
  <1>11. \A r \in DOMAIN sessions : r # s =>
           BasketIn(sessions', cartItems', modifiers', r) = BasketIn(sessions, cartItems, modifiers, r)
    BY <1>7, <1>9 DEF BasketIn
  <1>12. Relates(BasketIn(sessions, cartItems, modifiers, s),
                 BasketIn(sessions', cartItems', modifiers', s))
    <2>1. new.mode = f.mode /\ new.address = f.address
      BY <1>4
    <2>2. BasketIn(sessions', cartItems', modifiers', s)
            = Basket(LinesIn(cartItems, modifiers, s), f.mode, f.address)
      BY <1>7, <1>9, <2>1 DEF BasketIn
    <2>3. f.mode = "delivery" => f.address
      BY DEF SetFulfillment
    <2>4. \A lines, mode, address :
            OwnBaskets!Ship(Basket(lines, mode, address), Basket(lines, f.mode, f.address))
      BY <2>3, ACallShips
    <2> QED
      BY <2>2, <2>4 DEF BasketIn, Relates
  <1>13. OwnBaskets!Next
    BY <1>7, <1>8, <1>10, <1>11, <1>12, ACallIsAStep
  <1> QED
    BY <1>10, <1>13

LEMMA CreateSessionOpens ==
  ASSUME CartInv, NEW tenant \in Tenants, NEW customer \in Customers \cup {None},
         CreateSession(tenant, customer)
  PROVE  CartInv' /\ OwnBaskets!Next
  <1>1. PICK new : new = [tenant |-> tenant, customer |-> customer,
                          mode |-> "pickup", address |-> FALSE]
    OBVIOUS
  <1>2. new \in CartSession
    BY <1>1 DEF CartSession, FulfillmentModes
  <1>3. sessions \in Seq(CartSession) /\ sessions' = Append(sessions, new)
    BY <1>1 DEF CreateSession, CartInv
  <1>4. PICK n \in Nat : n = Len(sessions) /\ DOMAIN sessions = 1..n
    BY <1>3
  <1>5. /\ sessions' \in Seq(CartSession) /\ DOMAIN sessions' = 1..(n + 1)
        /\ sessions'[n + 1] = new
        /\ \A r \in 1..n : sessions'[r] = sessions[r]
    <2>1. sessions' \in Seq(CartSession) /\ Len(sessions') = n + 1
      BY <1>2, <1>3, <1>4, AppendProperties
    <2>2. sessions'[n + 1] = new /\ \A r \in 1..n : sessions'[r] = sessions[r]
      BY <1>2, <1>3, <1>4, AppendProperties
    <2>3. DOMAIN sessions' = 1..(n + 1)
      BY <2>1
    <2> QED
      BY <2>1, <2>2, <2>3
  <1>6. /\ cartItems' = cartItems /\ modifiers' = modifiers /\ itemIds' = itemIds
        /\ cartCall' = cartCall
    BY DEF CreateSession
  <1>7. \A r \in 1..n : OwnerOf(r)' = OwnerOf(r)
    BY <1>5 DEF OwnerOf
  <1>8. PICK o : o = [tenant |-> tenant, customer |-> customer]
    OBVIOUS
  <1>9. OwnerOf(n + 1)' = o
    <2>1. new.tenant = tenant /\ new.customer = customer
      BY <1>1
    <2> QED
      BY <1>5, <1>8, <2>1 DEF OwnerOf
  <1>10. \A r \in 1..n : OwnerOf(r) # o
    <2> SUFFICES ASSUME NEW r \in 1..n
                 PROVE  OwnerOf(r) # o
      OBVIOUS
    <2>1. sessions[r].tenant # tenant \/ sessions[r].customer # customer
      BY <1>4 DEF CreateSession
    <2>2. OwnerOf(r).tenant = sessions[r].tenant /\ OwnerOf(r).customer = sessions[r].customer
      BY DEF OwnerOf
    <2>3. o.tenant = tenant /\ o.customer = customer
      BY <1>8
    <2> QED
      BY <2>1, <2>2, <2>3
  <1>11. \A r \in 1..(n + 1) : r \in 1..n \/ r = n + 1
    OBVIOUS
  <1>12. CartInv'
    <2>1. \A r, q \in 1..(n + 1) : OwnerOf(r)' = OwnerOf(q)' => r = q
      <3> SUFFICES ASSUME NEW r \in 1..(n + 1), NEW q \in 1..(n + 1), OwnerOf(r)' = OwnerOf(q)'
                   PROVE  r = q
        OBVIOUS
      <3>1. CASE r \in 1..n /\ q \in 1..n
        BY <1>4, <1>7, <3>1 DEF CartInv
      <3>2. CASE r \in 1..n /\ q = n + 1
        <4>1. OwnerOf(q)' = o
          BY <1>9, <3>2
        <4> QED
          BY <1>7, <1>10, <3>2, <4>1
      <3>3. CASE r = n + 1 /\ q \in 1..n
        <4>1. OwnerOf(r)' = o
          BY <1>9, <3>3
        <4> QED
          BY <1>7, <1>10, <3>3, <4>1
      <3> QED
        BY <1>11, <3>1, <3>2, <3>3
    <2>2. 1..n \subseteq 1..(n + 1)
      OBVIOUS
    <2>3. CartTables(cartItems, modifiers, itemIds, 1..(n + 1))
      <3>1. CartTables(cartItems, modifiers, itemIds, 1..n)
        BY <1>4 DEF CartInv
      <3> QED
        BY <2>2, <3>1 DEF CartTables
    <2>4. \A call \in cartCall : call.session \in 1..(n + 1)
      BY <1>4, <2>2 DEF CartInv
    <2> QED
      BY <1>5, <1>6, <2>1, <2>3, <2>4 DEF CartInv, CartTables
  <1>13. BasketsShow /\ BasketsShow'
    <2>1. BasketsShow
      BY BasketsAreOfSessions
    <2>2. BasketsShow'
      BY <1>12, BasketsAreOfSessions, PTL
    <2> QED
      BY <2>1, <2>2
  <1>14. SessionOwners' = SessionOwners \cup {o} /\ o \notin SessionOwners
    <2>1. \A p : p \in SessionOwners <=> \E r \in 1..n : p = OwnerOf(r)
      BY <1>4 DEF SessionOwners
    <2>2. \A p : p \in SessionOwners' <=> \E r \in 1..(n + 1) : p = OwnerOf(r)'
      BY <1>5 DEF SessionOwners
    <2>3. n + 1 \in 1..(n + 1) /\ 1..n \subseteq 1..(n + 1)
      OBVIOUS
    <2>4. \A p : p \in SessionOwners' <=> p \in SessionOwners \/ p = o
      <3> SUFFICES ASSUME NEW p
                   PROVE  p \in SessionOwners' <=> p \in SessionOwners \/ p = o
        OBVIOUS
      <3>1. ASSUME p \in SessionOwners'
            PROVE  p \in SessionOwners \/ p = o
        <4>1. PICK r \in 1..(n + 1) : p = OwnerOf(r)'
          BY <2>2, <3>1
        <4>2. CASE r \in 1..n
          BY <1>7, <2>1, <4>1, <4>2
        <4>3. CASE r = n + 1
          <5>1. OwnerOf(r)' = o
            BY <1>9, <4>3
          <5> QED
            BY <4>1, <5>1
        <4> QED
          BY <1>11, <4>2, <4>3
      <3>2. ASSUME p \in SessionOwners
            PROVE  p \in SessionOwners'
        <4>1. PICK r \in 1..n : p = OwnerOf(r)
          BY <2>1, <3>2
        <4> QED
          BY <1>7, <2>2, <2>3, <4>1
      <3>3. o \in SessionOwners'
        BY <1>9, <2>2, <2>3
      <3> QED
        BY <3>1, <3>2, <3>3
    <2> QED
      BY <1>10, <2>1, <2>4
  <1>15. \A p \in SessionOwners : AllBaskets'[p] = AllBaskets[p]
    <2> SUFFICES ASSUME NEW p \in SessionOwners
                 PROVE  AllBaskets'[p] = AllBaskets[p]
      OBVIOUS
    <2>1. PICK r \in 1..n : p = OwnerOf(r)
      BY <1>4 DEF SessionOwners
    <2>2. AllBaskets[OwnerOf(r)] = BasketIn(sessions, cartItems, modifiers, r)
      BY <1>4, <1>13 DEF BasketsShow
    <2>3. AllBaskets'[OwnerOf(r)'] = BasketIn(sessions, cartItems, modifiers, r)'
      BY <1>5, <1>13 DEF BasketsShow
    <2>4. BasketIn(sessions, cartItems, modifiers, r)' = BasketIn(sessions, cartItems, modifiers, r)
      BY <1>5, <1>6 DEF BasketIn
    <2> QED
      BY <1>7, <2>1, <2>2, <2>3, <2>4
  <1>16. AllBaskets'[o] = OwnBaskets!EmptyBasket
    <2>1. PICK s : s = n + 1
      OBVIOUS
    <2>2. s \in DOMAIN sessions' /\ OwnerOf(s)' = o
      BY <1>5, <1>9, <2>1
    <2>3. AllBaskets'[OwnerOf(s)'] = BasketIn(sessions, cartItems, modifiers, s)'
      BY <1>13, <2>2 DEF BasketsShow
    <2>4. LinesIn(cartItems, modifiers, s) = << >>
      <3>1. \A i \in DOMAIN cartItems : cartItems[i].session # s
        BY <1>4, <2>1 DEF CartInv, CartTables
      <3>2. Where(cartItems, RowsOf(s)) = {}
        BY <3>1 DEF Where, RowsOf
      <3>3. RowsIn(cartItems, s) = << >>
        BY <3>2, TheTables, AtNothing DEF RowsIn
      <3>4. DOMAIN << >> = {}
        OBVIOUS
      <3>5. LinesIn(cartItems, modifiers, s) = [k \in {} |-> LineIn(modifiers, << >>[k])]
        BY <3>3, <3>4 DEF LinesIn
      <3> QED
        BY <3>5
    <2>5. BasketIn(sessions, cartItems, modifiers, s)' = Basket(<< >>, "pickup", FALSE)
      <3>1. new.mode = "pickup" /\ new.address = FALSE
        BY <1>1
      <3>2. sessions'[s] = new
        BY <1>5, <2>1
      <3> QED
        BY <1>6, <2>4, <3>1, <3>2 DEF BasketIn
    <2> QED
      BY <2>2, <2>3, <2>5 DEF Basket, OwnBaskets!EmptyBasket
  <1>17. NamedOwner' = NamedOwner
    <2>1. \A call \in cartCall : OwnerOf(call.session)' = OwnerOf(call.session)
      <3> SUFFICES ASSUME NEW call \in cartCall
                   PROVE  OwnerOf(call.session)' = OwnerOf(call.session)
        OBVIOUS
      <3>1. PICK r : r = call.session
        OBVIOUS
      <3>2. r \in 1..n /\ OwnerOf(r)' = OwnerOf(r)
        BY <1>4, <1>7, <3>1 DEF CartInv
      <3>3. sessions'[call.session] = sessions[call.session]
        BY <1>5, <3>1, <3>2
      <3>4. call' = call
        OBVIOUS
      <3> QED
        BY <3>3 DEF OwnerOf
    <2> QED
      BY <1>6, <2>1 DEF NamedOwner
  <1>18. o \in [tenant: Tenants, customer: Customers \cup {None}]
    BY <1>8
  <1>19. PICK b : b = AllBaskets
    OBVIOUS
  <1>20. PICK c : c = AllBaskets'
    OBVIOUS
  <1>21. PICK D : D = SessionOwners
    OBVIOUS
  <1>22. PICK e : e = OwnBaskets!EmptyBasket
    OBVIOUS
  <1>23. /\ b = [p \in D |-> b[p]] /\ c = [p \in D \cup {o} |-> c[p]] /\ o \notin D
         /\ c[o] = e /\ \A p \in D : c[p] = b[p]
    <2>1. b = [p \in D |-> b[p]]
      BY <1>13, <1>19, <1>21 DEF BasketsShow
    <2>2. AllBaskets' = [p \in SessionOwners' |-> AllBaskets'[p]]
      BY <1>13 DEF BasketsShow
    <2>3. c = [p \in D \cup {o} |-> c[p]]
      BY <1>14, <1>20, <1>21, <2>2
    <2>4. o \notin D /\ c[o] = e
      BY <1>14, <1>16, <1>20, <1>21, <1>22
    <2>5. \A p \in D : c[p] = b[p]
      BY <1>15, <1>19, <1>20, <1>21
    <2> QED
      BY <2>1, <2>3, <2>4, <2>5
  <1>24. DOMAIN b = D /\ DOMAIN c = D \cup {o}
    BY <1>23
  <1>25. c = [p \in DOMAIN b \cup {o} |-> IF p = o THEN e ELSE b[p]]
    BY <1>23, <1>24
  <1>26. OwnBaskets!Open(o)
    BY <1>17, <1>18, <1>19, <1>20, <1>22, <1>25 DEF OwnBaskets!Open
  <1>27. o \in DOMAIN AllBaskets' \ DOMAIN AllBaskets
    BY <1>19, <1>20, <1>23, <1>24
  <1>28. OwnBaskets!Next
    BY <1>26, <1>27, Zenon DEF OwnBaskets!Next
  <1> QED
    BY <1>12, <1>28

LEMMA CartsStartEmpty == CartInit => CartInv /\ OwnBaskets!Init
  <1> SUFFICES ASSUME CartInit
               PROVE  CartInv /\ OwnBaskets!Init
    OBVIOUS
  <1>1. /\ sessions = << >> /\ cartItems = << >> /\ modifiers = << >>
        /\ itemIds = 0 /\ cartCall = {}
    BY DEF CartInit
  <1>2. CartInv
    BY <1>1 DEF CartInv, CartTables
  <1>3. SessionOwners = {}
    BY <1>1 DEF SessionOwners
  <1>4. AllBaskets = [o \in {} |-> OwnBaskets!EmptyBasket]
    BY <1>3 DEF AllBaskets
  <1>5. NamedOwner = {}
    BY <1>1 DEF NamedOwner
  <1> QED
    BY <1>2, <1>4, <1>5 DEF OwnBaskets!Init

LEMMA CartStep ==
  CartInv /\ [CartNext]_cartVars => CartInv' /\ [OwnBaskets!Next]_<<AllBaskets, NamedOwner>>
  <1> SUFFICES ASSUME CartInv, [CartNext]_cartVars
               PROVE  CartInv' /\ [OwnBaskets!Next]_<<AllBaskets, NamedOwner>>
    OBVIOUS
  <1>1. CASE UNCHANGED cartVars
    <2>1. CartInv'
      BY <1>1 DEF CartInv, CartTables, OwnerOf, cartVars
    <2>2. UNCHANGED <<AllBaskets, NamedOwner>>
      BY <1>1 DEF cartVars, AllBaskets, NamedOwner, SessionOwners, OwnerOf, BasketOf, IsSessionOf,
                  LinesOf, ItemsOf, PlacesOf, Shown, PricesOf, ModifiersOf
    <2> QED
      BY <2>1, <2>2
  <1>2. CASE CartNext
    <2>1. ASSUME NEW t \in Tenants, NEW customer \in Customers \cup {None},
                 CreateSession(t, customer)
          PROVE  CartInv' /\ OwnBaskets!Next
      BY <2>1, CreateSessionOpens
    <2>2. ASSUME NEW t \in Tenants, NEW s \in DOMAIN sessions, Named(t, s),
                 NEW r \in CartRequests, AddItem(s, r)
          PROVE  CartInv' /\ OwnBaskets!Next
      BY <2>2, AddItemPuts
    <2>3. ASSUME NEW t \in Tenants, NEW s \in DOMAIN sessions, Named(t, s), NEW id \in 1..itemIds,
                 NEW quantity \in CartQuantities \cup {None},
                 NEW prices \in CartModifiers \cup {None}, UpdateItem(s, id, quantity, prices)
          PROVE  CartInv' /\ OwnBaskets!Next
      BY <2>3, UpdateItemChanges
    <2>4. ASSUME NEW t \in Tenants, NEW s \in DOMAIN sessions, Named(t, s), NEW id \in 1..itemIds,
                 RemoveCartItem(s, id)
          PROVE  CartInv' /\ OwnBaskets!Next
      BY <2>4, RemoveCartItemTakes
    <2>5. ASSUME NEW t \in Tenants, NEW s \in DOMAIN sessions, Named(t, s), ClearItems(s)
          PROVE  CartInv' /\ OwnBaskets!Next
      BY <2>5, ClearItemsClears
    <2>6. ASSUME NEW t \in Tenants, NEW s \in DOMAIN sessions, Named(t, s),
                 NEW f \in Fulfillments, SetFulfillment(s, f)
          PROVE  CartInv' /\ OwnBaskets!Next
      BY <2>6, SetFulfillmentShips
    <2>7. CartInv' /\ OwnBaskets!Next
      BY <1>2, <2>1, <2>2, <2>3, <2>4, <2>5, <2>6 DEF CartNext
    <2> QED
      BY <2>7
  <1> QED
    BY <1>1, <1>2

(* The flat tables of sessions, items and modifiers are baskets, one of each
   owner: a call changes one thing in the cart it names, a cart of its tenant,
   and no other cart, whatever ids of items it brings.                     *)
THEOREM CartsAreBaskets == CartSpec => BasketSpec
  <1>1. CartInit => CartInv /\ OwnBaskets!Init
    BY CartsStartEmpty
  <1>2. CartInv /\ [CartNext]_cartVars
          => CartInv' /\ [OwnBaskets!Next]_<<AllBaskets, NamedOwner>>
    BY CartStep
  <1> QED
    BY <1>1, <1>2, PTL DEF CartSpec, BasketSpec, OwnBaskets!Spec

=============================================================================
