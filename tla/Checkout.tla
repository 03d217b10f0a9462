------------------------------- MODULE Checkout -------------------------------
(***************************************************************************)
(* The cart page and the checkout page of one customer, in two tabs, and   *)
(* the order requests that leave them.  The cart in the browser's storage  *)
(* is what the pages share: the cart page rewrites it, the checkout page   *)
(* takes a copy when it is opened.                                         *)
(*                                                                         *)
(* Of a quote, discount, tax, tip and delivery fee are zero: no promo code *)
(* is valid, and the API quotes a cart without the other three.            *)
(***************************************************************************)
EXTENDS Orders, FiniteSetsExt, SequencesExt

CONSTANTS
  Carts,           \* lists of items the API has quoted
  SavedMethods,    \* the customer's saved payment methods, one the default
  DefaultMethod,
  TipPresets,      \* tips on offer, in percent of the subtotal
  CustomTips,      \* tips typed in, in cents
  MaxQuantity,     \* bound: of an item
  MaxVisits,       \* bound: openings of the checkout page (each starts afresh)
  MaxLoads         \* bound: unanswered requests for the payment methods

(* What a client knows of an item: its price, the sum of its modifiers, a quantity. *)
Item == [price: Int, modifiers: Int, quantity: Int]

ASSUME CheckoutAssumption ==
  /\ Carts \subseteq Seq(Item) /\ DefaultMethod \in SavedMethods
  /\ TipPresets \subseteq Int /\ CustomTips \subseteq Int
  /\ MaxQuantity \in Nat

VARIABLES
  stored,   \* the cart in the browser's storage: items, lines of the quote, subtotal
  page,     \* the checkout page
  posts     \* order requests that left the page and are not answered

checkoutVars == <<stored, page, posts>>

NoMethod == "none"

Line(item) ==
  [unit |-> item.price, modifiers |-> item.modifiers, quantity |-> item.quantity,
   total |-> (item.price + item.modifiers) * item.quantity]

SubtotalOf(lines) ==
  SumFunctionOnSet([i \in DOMAIN lines |-> lines[i].total], DOMAIN lines)

(* computeQuote of the pricing engine, for what the API asks of it.        *)
Quoted(items) ==
  LET lines == [i \in DOMAIN items |-> Line(items[i])]
  IN  [items |-> items, lines |-> lines, subtotal |-> SubtotalOf(lines)]

EmptyCart == Quoted(<< >>)

Visit(n) ==
  [visit |-> n, cart |-> stored, step |-> 0, mode |-> "pickup", address |-> FALSE,
   location |-> FALSE, loads |-> 0, method |-> NoMethod, newCard |-> FALSE,
   cardFilled |-> FALSE, tip |-> 0, terms |-> FALSE, submitting |-> FALSE]

CheckoutInit ==
  /\ stored = EmptyCart
  /\ page = Visit(0)
  /\ posts = {}

-----------------------------------------------------------------------------
(* The cart page.                                                          *)

CartEdited(cart) == stored' = cart /\ UNCHANGED <<page, posts>>

(* applyCartResponse.  Nothing in the application calls it yet.            *)
CartArrives(items) == CartEdited(Quoted(items))

(* Mutant: the price of the modifiers is left out.                         *)
UpdateQuantity_BasePrice(i, delta) ==
  LET n     == Max({1, stored.items[i].quantity + delta})
      lines == [stored.lines EXCEPT ![i].quantity = n,
                                    ![i].total = stored.lines[i].unit * n]
  IN  /\ n <= MaxQuantity
      /\ CartEdited([items |-> [stored.items EXCEPT ![i].quantity = n],
                     lines |-> lines, subtotal |-> SubtotalOf(lines)])

(* updateQuantity, with recalculateQuoteTotals.                            *)
UpdateQuantity(i, delta) ==
  LET n     == Max({1, stored.items[i].quantity + delta})
      each  == stored.lines[i].unit + stored.lines[i].modifiers
      lines == [stored.lines EXCEPT ![i].quantity = n, ![i].total = each * n]
  IN  /\ n <= MaxQuantity
      /\ CartEdited([items |-> [stored.items EXCEPT ![i].quantity = n],
                     lines |-> lines, subtotal |-> SubtotalOf(lines)])

RemoveItem(i) ==
  LET lines == RemoveAt(stored.lines, i)
  IN  CartEdited([items |-> RemoveAt(stored.items, i), lines |-> lines,
                  subtotal |-> SubtotalOf(lines)])

ClearCart == CartEdited(EmptyCart)

-----------------------------------------------------------------------------
(* The checkout page.  A page with an empty cart shows no steps.           *)

OnPage(p) == page' = p /\ UNCHANGED <<stored, posts>>

(* The page is mounted, for the first time or again, and restores the cart.  *)
OpenCheckout == page.visit < MaxVisits /\ OnPage(Visit(page.visit + 1))

Shows(step) == page.cart.items # << >> /\ page.step = step

FulfillmentChosen == IF page.mode = "delivery" THEN page.address ELSE page.location

(* The fields of the first step.                                           *)
ChooseFulfillment ==
  /\ Shows(0)
  /\ \/ \E mode \in {"pickup", "delivery"} : OnPage([page EXCEPT !.mode = mode])
     \/ \E filled \in BOOLEAN : OnPage([page EXCEPT !.address = filled])
     \/ OnPage([page EXCEPT !.location = TRUE])

(* goForward asks for the payment methods, each time.                      *)
ToPayment ==
  /\ Shows(0) /\ page.loads < MaxLoads
  /\ FulfillmentChosen
  /\ OnPage([page EXCEPT !.step = 1, !.loads = @ + 1])

(* loadPaymentMethods resumes, at whatever step the page is by now, with the
   saved methods, without any, or with an error.                           *)
MethodsArrive ==
  /\ page.loads > 0
  /\ \/ OnPage([page EXCEPT !.loads = @ - 1, !.method = DefaultMethod, !.newCard = FALSE])
     \/ OnPage([page EXCEPT !.loads = @ - 1, !.newCard = TRUE])

(* The fields of the second step.                                          *)
ChoosePayment ==
  /\ Shows(1)
  /\ \/ \E method \in SavedMethods :
          OnPage([page EXCEPT !.method = method, !.newCard = FALSE])
     \/ OnPage([page EXCEPT !.method = NoMethod, !.newCard = TRUE])
     \/ page.newCard /\ \E filled \in BOOLEAN : OnPage([page EXCEPT !.cardFilled = filled])

ChooseTip ==
  /\ Shows(1)
  /\ \/ \E percent \in TipPresets :
          OnPage([page EXCEPT !.tip = (page.cart.subtotal * percent + 50) \div 100])
     \/ \E cents \in CustomTips : OnPage([page EXCEPT !.tip = cents])

ToReview ==
  /\ Shows(1)
  /\ IF page.newCard THEN page.cardFilled ELSE page.method # NoMethod
  /\ OnPage([page EXCEPT !.step = 2])

GoBack == page.step > 0 /\ OnPage([page EXCEPT !.step = @ - 1])

AcceptTerms == Shows(2) /\ \E accepted \in BOOLEAN : OnPage([page EXCEPT !.terms = accepted])

(* The total of the review and of the request alike.                       *)
ReviewTotal == page.cart.subtotal + page.tip

(* The request carries an address, filled or not, when the order is to be
   delivered; one that is picked up carries no place at all.               *)
AddressSent ==
  IF page.mode # "delivery" THEN "null" ELSE IF page.address THEN "filled" ELSE "blank"

(* placeOrder up to its await.  The request always carries a null e-mail.  *)
PlaceOrder ==
  /\ Shows(2)
  /\ page.terms /\ ~page.submitting
  /\ page' = [page EXCEPT !.submitting = TRUE]
  /\ posts' = posts \cup
       {[session |-> TRUE, email |-> "null", visit |-> page.visit, items |-> page.cart.items,
         mode |-> page.mode, address |-> AddressSent,
         tip |-> page.tip, total |-> ReviewTotal]}
  /\ UNCHANGED stored

(* The request fails, lost on the way or refused by the API, as they all are;
   a page that has been left is not told.                                  *)
OrderFails(r) ==
  /\ posts' = posts \ {r}
  /\ page' = [page EXCEPT !.submitting = @ /\ r.visit # page.visit]
  /\ UNCHANGED stored

CheckoutNext ==
  \/ \E items \in Carts : CartArrives(items)
  \/ \E i \in DOMAIN stored.items :
       (\E delta \in {-1, 1} : UpdateQuantity(i, delta)) \/ RemoveItem(i)
  \/ ClearCart
  \/ OpenCheckout \/ ChooseFulfillment \/ ToPayment \/ MethodsArrive
  \/ ChoosePayment \/ ChooseTip \/ ToReview \/ GoBack \/ AcceptTerms
  \/ PlaceOrder
  \/ \E r \in posts : OrderFails(r)

CheckoutSpec == CheckoutInit /\ [][CheckoutNext]_checkoutVars

-----------------------------------------------------------------------------
(* Properties.                                                             *)

(* What leaves the page costs what the pricing engine would quote of its items,
   plus the tip, although the cart page computes lines and subtotal itself
   whenever the cart is edited there; it has items, and an address when it is
   to be delivered, whatever was changed on the way back and forth; and of one
   visit no two requests are under way.                                    *)
SubmissionsAreReviewed ==
  \A r \in posts :
    /\ r.items # << >> /\ (r.mode = "delivery" => r.address = "filled")
    /\ r.total = Quoted(r.items).subtotal + r.tip
    /\ \A other \in posts : other.visit = r.visit => other = r

(* "Place order request (customer creates order from cart)": the API does not
   refuse what the page sends for its form.                                *)
SubmissionsAreWellFormed == \A r \in posts : ValidPlaceOrderRequest(r)
=============================================================================
