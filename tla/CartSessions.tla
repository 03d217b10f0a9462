----------------------------- MODULE CartSessions -----------------------------
(***************************************************************************)
(* CartService and CartRepository: sessions, items and modifiers in three  *)
(* flat tables, for all customers of all tenants.  A caller names a tenant,*)
(* a session and an item, any of which may be old or another's.  Nothing   *)
(* in the repository calls the service; requests are those of its contract.*)
(*                                                                         *)
(* Left out: order notes, and promo and loyalty codes, of which none is    *)
(* valid.                                                                  *)
(***************************************************************************)
EXTENDS Naturals, Sequences, SequencesExt, Tenancy

CONSTANTS
  None,             \* no customer; a field that a request leaves out
  CartRequests,     \* items a customer adds, at the price they have then
  CartQuantities, CartModifiers,   \* what an item is changed to
  Fulfillments,     \* ways of fulfillment, each with or without an address
  MaxSessions,      \* bound: sessions
  MaxItems          \* bound: items added

FulfillmentModes == {"delivery", "pickup"}

(* AddCartItemRequest, with the prices that the catalog has. *)
CartRequest == [item: STRING, price: Nat, quantity: Nat \ {0}, modifiers: Seq(Nat)]

ASSUME CartAssumption ==
  /\ CartRequests \subseteq CartRequest
  /\ CartQuantities \subseteq Nat \ {0} /\ CartModifiers \subseteq Seq(Nat)
  /\ Fulfillments \subseteq [mode: FulfillmentModes, address: BOOLEAN]
  /\ MaxSessions \in Nat /\ MaxItems \in Nat

VARIABLES
  sessions,    \* CartSessionRecords; the id of a session is its place
  cartItems,   \* CartItemRecords, in the order of addition
  modifiers,   \* CartModifierRecords
  itemIds,     \* cartItemCounter
  cartCall     \* the last call on a cart, if any: tenant and session (history)

cartVars == <<sessions, cartItems, modifiers, itemIds, cartCall>>

CartInit ==
  /\ sessions = << >> /\ cartItems = << >> /\ modifiers = << >>
  /\ itemIds = 0
  /\ cartCall = {}

(* getOrCreateSession, where there is none.                                *)
CreateSession(t, customer) ==
  /\ Len(sessions) < MaxSessions
  /\ \A s \in DOMAIN sessions : sessions[s].tenant # t \/ sessions[s].customer # customer
  /\ sessions' = Append(sessions, [tenant |-> t, customer |-> customer,
                                   mode |-> "pickup", address |-> FALSE])
  /\ UNCHANGED <<cartItems, modifiers, itemIds, cartCall>>

(* getSession: every operation on a cart begins with it.                   *)
Named(t, s) ==
  /\ sessions[s].tenant = t
  /\ cartCall' = {[tenant |-> t, session |-> s]}

(* Mutant: the item is looked up by its id alone.                          *)
IsItem_AnySession(i, s, id) == cartItems[i].id = id

(* getItemById, removeItem: the place of an item in the table.             *)
IsItem(i, s, id) == cartItems[i].session = s /\ cartItems[i].id = id

(* What a table has at some of its places, in order: SelectSeq, written as a
   recursive function.                                                     *)
At(table, places) ==
  LET Upto[n \in 0..Len(table)] ==
        IF n = 0 THEN << >>
        ELSE IF n \in places THEN Append(Upto[n - 1], table[n]) ELSE Upto[n - 1]
  IN  Upto[Len(table)]

(* The rows of a session in the table of items.                            *)
PlacesOf(s) == {i \in DOMAIN cartItems : cartItems[i].session = s}

ModifiersOf(id) == At(modifiers, {m \in DOMAIN modifiers : modifiers[m].item = id})

OtherModifiers(ids) == At(modifiers, {m \in DOMAIN modifiers : modifiers[m].item \notin ids})

(* addModifier, for each.                                                  *)
Modifiers(id, prices) == [k \in DOMAIN prices |-> [item |-> id, price |-> prices[k]]]

AddItem(s, r) ==
  LET id == itemIds + 1 IN
  /\ id <= MaxItems
  /\ itemIds' = id
  /\ cartItems' = Append(cartItems, [id |-> id, session |-> s, item |-> r.item,
                                     price |-> r.price, quantity |-> r.quantity])
  /\ modifiers' = modifiers \o Modifiers(id, r.modifiers)
  /\ UNCHANGED sessions

(* updateItem: the quantity, the modifiers, or both.                       *)
UpdateItem(s, id, quantity, prices) ==
  /\ \E i \in DOMAIN cartItems :
       /\ IsItem(i, s, id)
       /\ cartItems' = IF quantity = None THEN cartItems
                       ELSE [cartItems EXCEPT ![i].quantity = quantity]
  /\ modifiers' = IF prices = None THEN modifiers
                  ELSE OtherModifiers({id}) \o Modifiers(id, prices)
  /\ UNCHANGED <<sessions, itemIds>>

RemoveCartItem(s, id) ==
  /\ \E i \in DOMAIN cartItems : IsItem(i, s, id) /\ cartItems' = RemoveAt(cartItems, i)
  /\ modifiers' = OtherModifiers({id})
  /\ UNCHANGED <<sessions, itemIds>>

ClearItems(s) ==
  /\ cartItems' = At(cartItems, DOMAIN cartItems \ PlacesOf(s))
  /\ modifiers' = OtherModifiers({cartItems[i].id : i \in PlacesOf(s)})
  /\ UNCHANGED <<sessions, itemIds>>

(* setFulfillment: an address is asked for with a delivery only.           *)
SetFulfillment(s, f) ==
  /\ f.mode = "delivery" => f.address
  /\ sessions' = [sessions EXCEPT ![s].mode = f.mode, ![s].address = f.address]
  /\ UNCHANGED <<cartItems, modifiers, itemIds>>

CartNext ==
  \/ \E t \in Tenants, customer \in Customers \cup {None} : CreateSession(t, customer)
  \/ \E t \in Tenants, s \in DOMAIN sessions :
       /\ Named(t, s)
       /\ \/ \E r \in CartRequests : AddItem(s, r)
          \/ \E id \in 1..itemIds :
               \/ \E quantity \in CartQuantities \cup {None},
                     prices \in CartModifiers \cup {None} : UpdateItem(s, id, quantity, prices)
               \/ RemoveCartItem(s, id)
          \/ ClearItems(s)
          \/ \E f \in Fulfillments : SetFulfillment(s, f)

CartSpec == CartInit /\ [][CartNext]_cartVars

-----------------------------------------------------------------------------
(* Properties.                                                             *)

(* buildCartResponse: what is shown of the items of a session.             *)
ItemsOf(s) == At(cartItems, PlacesOf(s))

PricesOf(id) == LET own == ModifiersOf(id) IN [k \in DOMAIN own |-> own[k].price]

Shown(i) ==
  [item |-> i.item, price |-> i.price, quantity |-> i.quantity, modifiers |-> PricesOf(i.id)]

LinesOf(s) == LET items == ItemsOf(s) IN [k \in DOMAIN items |-> Shown(items[k])]

OwnerOf(s) == [tenant |-> sessions[s].tenant, customer |-> sessions[s].customer]

(* findSession: the first session of an owner.                             *)
IsSessionOf(s, o) == OwnerOf(s) = o /\ \A r \in 1..(s - 1) : OwnerOf(r) # o

BasketOf(o) ==
  LET s == CHOOSE s \in DOMAIN sessions : IsSessionOf(s, o)
  IN  [lines |-> LinesOf(s), mode |-> sessions[s].mode, address |-> sessions[s].address]

SessionOwners == {OwnerOf(s) : s \in DOMAIN sessions}

NamedOwner == {[tenant |-> call.tenant, owner |-> OwnerOf(call.session)] : call \in cartCall}

AllBaskets == [o \in SessionOwners |-> BasketOf(o)]

OwnBaskets ==
  INSTANCE Baskets WITH Owners <- [tenant: Tenants, customer: Customers \cup {None}],
                        named <- NamedOwner, baskets <- AllBaskets

(* Through the flat tables every owner sees a basket of their own: a call
   changes one thing in the cart it names, a cart of its tenant, whatever ids
   of items it brings; modifiers stay with their item and go with it.      *)
BasketSpec == OwnBaskets!Spec
=============================================================================
