------------------------------- MODULE Baskets --------------------------------
(***************************************************************************)
(* What the cart promises: an owner has one basket, of lines in the        *)
(* order in which they were put in; a call in the name of a tenant changes *)
(* one thing in one basket of that tenant; and a line keeps what it is and *)
(* the price at which it was put in for as long as it is there.            *)
(***************************************************************************)
EXTENDS Naturals, SequencesExt

CONSTANTS Owners   \* a tenant and a customer, or no customer

VARIABLES
  baskets,   \* of each owner with one: lines, way of fulfillment, whether with an address
  named      \* the last call, if any: its tenant, the owner of the cart it named

Line == [item: STRING, price: Nat, quantity: Nat \ {0}, modifiers: Seq(Nat)]

EmptyBasket == [lines |-> << >>, mode |-> "pickup", address |-> FALSE]

Init ==
  /\ baskets = [o \in {} |-> EmptyBasket]
  /\ named = {}

Open(o) ==
  /\ o \in Owners
  /\ baskets' = [p \in DOMAIN baskets \cup {o} |->
                  IF p = o THEN EmptyBasket ELSE baskets[p]]
  /\ UNCHANGED named

(* What may become of one basket.                                          *)
WithLines(old, new, lines) == new = [old EXCEPT !.lines = lines]

Put(old, new) ==
  /\ new.lines # << >> /\ Last(new.lines) \in Line
  /\ WithLines(old, new, Append(old.lines, Last(new.lines)))

(* Of a line, quantity and modifiers may change.                           *)
Change(old, new) ==
  \E i \in DOMAIN old.lines \cap DOMAIN new.lines :
    LET line == new.lines[i] IN
    /\ line \in Line
    /\ line = [old.lines[i] EXCEPT !.quantity = line.quantity, !.modifiers = line.modifiers]
    /\ WithLines(old, new, [old.lines EXCEPT ![i] = line])

Take(old, new) == \E i \in DOMAIN old.lines : WithLines(old, new, RemoveAt(old.lines, i))

Clear(old, new) == WithLines(old, new, << >>)

Ship(old, new) ==
  /\ new.mode = "delivery" => new.address
  /\ new = [old EXCEPT !.mode = new.mode, !.address = new.address]

Next ==
  \/ \E o \in DOMAIN baskets' \ DOMAIN baskets : Open(o)
  \/ \E call \in named', before \in {baskets}, after \in {baskets'} :
       /\ call.owner \in DOMAIN before /\ call.owner.tenant = call.tenant
       /\ \E old \in {before[call.owner]}, new \in {after[call.owner]} :
            /\ \/ Put(old, new) \/ Change(old, new) \/ Take(old, new)
               \/ Clear(old, new) \/ Ship(old, new)
            /\ after = [before EXCEPT ![call.owner] = new]   \* and no other

Spec == Init /\ [][Next]_<<baskets, named>>
=============================================================================
