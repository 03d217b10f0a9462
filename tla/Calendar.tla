----------------------------- MODULE Calendar -------------------------------
(***************************************************************************)
(* What the booking component promises: every member of staff has a        *)
(* calendar in which no two appointments overlap, appointments are entered *)
(* and struck out one at a time, and one that was struck out stays out:    *)
(* its id is not given out again.                                          *)
(***************************************************************************)
EXTENDS Naturals

CONSTANTS Tenants, Staff

VARIABLES
  entries,   \* the appointments that hold their time, by booking id
  issued     \* the ids given out so far

calendarVars == <<entries, issued>>

Entry == [id: Nat, tenant: Tenants, staff: Staff, start: Nat, end: Nat]

(* Two appointments need the same person at the same moment.               *)
Clash(e, f) ==
  /\ e.tenant = f.tenant /\ e.staff = f.staff
  /\ e.start < f.end /\ f.start < e.end

Consistent == \A e, f \in entries : e # f => ~Clash(e, f)

Init == entries = {} /\ issued = {}

Enter(e) ==
  /\ e.id \notin issued
  /\ \A f \in entries : ~Clash(e, f)
  /\ entries' = entries \cup {e} /\ issued' = issued \cup {e.id}

Strike(e) == entries' = entries \ {e} /\ UNCHANGED issued

Next ==
  \/ entries' \subseteq Entry /\ \E e \in entries' : Enter(e)
  \/ \E e \in entries : Strike(e)

Spec == Init /\ [][Next]_calendarVars
=============================================================================
