------------------------------ MODULE MCCommerce ------------------------------
(***************************************************************************)
(* Finite instances of the components whose calls are never interrupted.   *)
(* They share nothing, so each behaviour is one of one of them.            *)
(***************************************************************************)
EXTENDS Bookings, Loyalty, Quotes, Checkout, CartSessions, Subscriptions

CONSTANTS
  Parts,     \* the components to look at
  ann, bob   \* members of staff

VARIABLE part

vars == <<part, bookingVars, loyaltyVars, quoteVars, orders, checkoutVars, cartVars,
          subscriptionVars>>

(* Booking pages: three dates of four units each. *)
Hours == (0 :> [open |-> 0, close |-> 4]) @@ (1 :> [open |-> 1, close |-> 3])
           @@ (2 :> [open |-> 0, close |-> 4])

(* A short service with a buffer in a split shift, on the second date not by
   Bob, who is on leave, and on the third not yet; and a long service without
   lead time or limit, while the second date is closed and the third blacked out. *)
MCInputs ==
  { [hours |-> Hours, blackouts |-> {}, duration |-> 1, buffer |-> 1, lead |-> 2,
     maxAdvance |-> 1,
     windows |-> [s \in Staff |-> [d \in Dates |-> {[open |-> 0, close |-> 1],
                                                    [open |-> 2, close |-> 4]}]],
     off |-> [s \in Staff |-> IF s = bob THEN {1} ELSE {}]],
    [hours |-> (1 :> Closed) @@ Hours, blackouts |-> {2}, duration |-> 2, buffer |-> 0,
     lead |-> 0, maxAdvance |-> 0,
     windows |-> [s \in Staff |-> [d \in Dates |-> {[open |-> 1, close |-> 4]}]],
     off |-> [s \in Staff |-> {}]] }

MCRequests == {<<1, 3>>}

(* Loyalty programs: points by the dollar, by the order and for good, and
   one that is refused because its tiers are out of order.  The program that
   a tenant has to begin with is switched off.                             *)
MCTiers == << [name |-> "bronze", threshold |-> 0], [name |-> "silver", threshold |-> 3] >>

PerDollar ==
  [enabled |-> TRUE, tiers |-> MCTiers, mode |-> "per_dollar", perDollar |-> 2,
   perOrder |-> 0, minimum |-> 1, policy |-> "rolling", days |-> 1]

PerOrder ==
  [PerDollar EXCEPT !.mode = "per_order", !.perOrder = 1, !.policy = "never"]

Disordered == [PerDollar EXCEPT !.tiers = << MCTiers[2], MCTiers[1] >>]

MCPrograms == {PerDollar, PerOrder, Disordered}

MCAdjustments == {-1, 2}

MCLineLists ==
  { << [price |-> 5, quantity |-> 2] >>,
    << [price |-> 5, quantity |-> 1], [price |-> 3, quantity |-> 3] >> }

(* A cart of two items, one with modifiers; and requests of other clients. *)
Pizza == [price |-> 900, modifiers |-> 150, quantity |-> 1]

Soda == [price |-> 250, modifiers |-> 0, quantity |-> 2]

MCCarts == {<<Pizza, Soda>>}

Request(email, items, total) ==
  [session |-> TRUE, email |-> email, items |-> items, total |-> total]

MCApiRequests ==
  { Request("given", <<Pizza>>, 1050), Request("absent", <<Pizza>>, -1),
    Request("absent", << >>, 0), Request("null", <<Soda>>, 500) }

(* Items as they are put into a cart of the API: one at two prices.         *)
MCCartRequests ==
  { [item |-> "pizza", price |-> 9, quantity |-> 1, modifiers |-> <<1>>],
    [item |-> "pizza", price |-> 8, quantity |-> 1, modifiers |-> << >>] }

MCCartModifiers == {<<1>>}

MCFulfillments ==
  [mode: {"delivery"}, address: BOOLEAN] \cup [mode: {"pickup"}, address: {FALSE}]

(* Package entitlements: a module that is off or not there at all. *)
MCModuleMaps == {[orders |-> TRUE], [orders |-> FALSE], [loyalty |-> FALSE, orders |-> TRUE]}

Init ==
  /\ part \in Parts
  /\ BookingInit /\ LoyaltyInit /\ QuoteInit /\ OrderInit /\ CheckoutInit
  /\ CartInit /\ SubscriptionInit

(* A step of component p leaves the others alone. *)
Only(p) ==
  /\ part = p /\ UNCHANGED part
  /\ p # "bookings" => UNCHANGED bookingVars
  /\ p # "loyalty" => UNCHANGED loyaltyVars
  /\ p # "quotes" => UNCHANGED quoteVars
  /\ p # "orders" => UNCHANGED orders
  /\ p # "checkout" => UNCHANGED checkoutVars
  /\ p # "carts" => UNCHANGED cartVars
  /\ p # "subscriptions" => UNCHANGED subscriptionVars

Next ==
  \/ Only("bookings") /\ BookingNext
  \/ Only("loyalty") /\ LoyaltyNext
  \/ Only("quotes") /\ QuoteNext
  \/ Only("orders") /\ OrderNext
  \/ Only("checkout") /\ CheckoutNext
  \/ Only("carts") /\ CartNext
  \/ Only("subscriptions") /\ SubscriptionNext

Spec == Init /\ [][Next]_vars

Symmetry == Permutations(Tenants) \cup Permutations(Customers) \cup Permutations(Names)
=============================================================================
