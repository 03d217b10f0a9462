----------------------------- MODULE Bookings -------------------------------
(***************************************************************************)
(* BookingService and BookingRepository, with the customers who look at    *)
(* the free slots and book one of them later.                              *)
(*                                                                         *)
(* Every call runs to its end without an interruption.  What goes stale is *)
(* what the caller holds: the slots on a customer's page, and the list of  *)
(* existing bookings that createBooking is handed.                         *)
(***************************************************************************)
EXTENDS SlotComputation, Tenancy, Sequences

CONSTANTS
  Staff,
  Inputs,        \* the availability inputs a page is computed from
  Dates,         \* the dates a page shows
  Requests,      \* windows that are asked for without looking at a page
  FreeWindows,   \* cancellation policies: how long before the start is free
  MaxTime,       \* bound: the clock stops here
  MaxBookings    \* bound: bookings recorded

ASSUME BookingAssumption ==
  /\ MaxTime \in Nat /\ MaxBookings \in Nat /\ FreeWindows \subseteq Nat
  /\ Requests \subseteq Nat \X Nat /\ Dates \subseteq Nat

(* Opening hours are times of a day; a shift of the staff may be anything.  *)
ASSUME InputAssumption ==
  \A input \in Inputs :
    /\ input.duration \in Nat \ {0} /\ input.buffer \in Nat
    /\ input.lead \in Nat /\ input.maxAdvance \in Nat
    /\ DOMAIN input.windows = Staff
    /\ \A date \in Dates :
         /\ input.hours[date] # Closed => /\ input.hours[date].open \in 0..DayLength
                                         /\ input.hours[date].close \in 0..DayLength
         /\ \A s \in Staff : \A w \in input.windows[s][date] : w.open \in Int /\ w.close \in Int

VARIABLES
  bookings,   \* booking records in creation order; the index is the id
  now,        \* the clock, on the time line of SlotComputation
  pages       \* what the customers' pages show, and from what it was computed

bookingVars == <<bookings, now, pages>>

Status == {"requested", "confirmed", "checked_in", "completed", "cancelled",
           "no_show"}

(* Mutant: a customer who comes late can still be checked in.              *)
Transitions_LateArrival ==
  [requested |-> {"confirmed", "cancelled"},
   confirmed |-> {"checked_in", "cancelled", "no_show"},
   checked_in |-> {"completed", "no_show"},
   completed |-> {}, cancelled |-> {}, no_show |-> {"checked_in"}]

Transitions ==
  [requested  |-> {"confirmed", "cancelled"},
   confirmed  |-> {"checked_in", "cancelled", "no_show"},
   checked_in |-> {"completed", "no_show"},
   completed  |-> {},
   cancelled  |-> {},
   no_show    |-> {}]

Cancellable == {"requested", "confirmed"}

(* Mutant: a booking holds its time only once it is confirmed.             *)
ActiveStatuses_Confirmed == {"confirmed", "checked_in"}

(* The statuses in which a booking holds its time.                         *)
ActiveStatuses == {"requested", "confirmed", "checked_in"}

Booking == [tenant: Tenants, staff: Staff, start: Nat, end: Nat, status: Status]

NoPage == [open |-> FALSE]

Active(t) ==
  {[staff |-> bookings[i].staff, start |-> bookings[i].start, end |-> bookings[i].end] :
     i \in {j \in DOMAIN bookings : /\ bookings[j].tenant = t
                                    /\ bookings[j].status \in ActiveStatuses}}

Window == [staff: Staff, start: Nat, end: Nat]

(* An open page is somebody's, and what it offers are windows of the staff. *)
BookingTypeOK ==
  /\ bookings \in Seq(Booking)
  /\ now \in Nat
  /\ DOMAIN pages = Customers
  /\ \A c \in Customers : pages[c].open =>
       /\ pages[c].tenant \in Tenants
       /\ pages[c].slots \subseteq Window

BookingInit ==
  /\ bookings = << >>
  /\ now = 0
  /\ pages = [c \in Customers |-> NoPage]

-----------------------------------------------------------------------------
(* The repository's own check: a booking that holds an overlapping window. *)
Conflicts(t, staff, start, end) ==
  \E i \in DOMAIN bookings :
    /\ bookings[i].tenant = t
    /\ bookings[i].staff = staff
    /\ bookings[i].status \in ActiveStatuses
    /\ start < bookings[i].end
    /\ end > bookings[i].start

(* createBooking, of the service and of the repository.                    *)
CreateBooking(t, staff, start, end, existing) ==
  /\ Len(bookings) < MaxBookings
  /\ ~HasConflict(staff, start, end, existing)
  /\ ~Conflicts(t, staff, start, end)
  /\ bookings' = Append(bookings, [tenant |-> t, staff |-> staff, start |-> start,
                                   end |-> end, status |-> "requested"])
  /\ UNCHANGED <<now, pages>>

(* A booking page is opened: slots from the bookings that hold their time.  *)
OpenPage(c, t, input) ==
  /\ pages' = [pages EXCEPT ![c] =
       [open |-> TRUE, tenant |-> t, input |-> input, at |-> now,
        seen |-> Len(bookings), existing |-> Active(t),
        slots |-> SlotsForDates(input, Dates, now, Active(t))]]
  /\ UNCHANGED <<bookings, now>>

(* A slot of a page is booked, with the page's list of bookings or, as the
   controller does it, with none.                                          *)
BookFromPage(c) ==
  /\ pages[c].open
  /\ \E slot \in pages[c].slots, existing \in {pages[c].existing, {}} :
       CreateBooking(pages[c].tenant, slot.staff, slot.start, slot.end, existing)

(* An administrator books a window without looking.                        *)
BookWindow ==
  \E t \in Tenants, s \in Staff, w \in Requests : CreateBooking(t, s, w[1], w[2], {})

(* transitionBookingStatus: confirm, check in, complete, no-show, or the
   cancellation of an administrator, who is not bound by the policy.       *)
TransitionBookingStatus(i, target) ==
  /\ target \in Transitions[bookings[i].status]
  /\ bookings' = [bookings EXCEPT ![i].status = target]
  /\ UNCHANGED <<now, pages>>

(* evaluateCancellationWindow                                              *)
MayCancel(start, freeWindow, allowLate) ==
  /\ start > now
  /\ start - now >= freeWindow \/ allowLate

CancelBooking(i, freeWindow, allowLate) ==
  /\ bookings[i].status \in Cancellable
  /\ MayCancel(bookings[i].start, freeWindow, allowLate)
  /\ TransitionBookingStatus(i, "cancelled")

AdminCancelBooking(i) ==
  /\ bookings[i].status \in Cancellable
  /\ TransitionBookingStatus(i, "cancelled")

Tick ==
  /\ now < MaxTime
  /\ now' = now + 1
  /\ UNCHANGED <<bookings, pages>>

BookingNext ==
  \/ \E c \in Customers :
       (\E t \in Tenants, input \in Inputs : OpenPage(c, t, input)) \/ BookFromPage(c)
  \/ BookWindow
  \/ \E i \in DOMAIN bookings :
       \/ \E target \in Status : TransitionBookingStatus(i, target)
       \/ \E f \in FreeWindows, late \in BOOLEAN : CancelBooking(i, f, late)
       \/ AdminCancelBooking(i)
  \/ Tick

BookingSpec == BookingInit /\ [][BookingNext]_bookingVars

-----------------------------------------------------------------------------
(* Properties.                                                             *)

HoldsTime(b) == b.status \in ActiveStatuses

(* Two bookings need one member of staff at the same moment.               *)
Clash(a, b) ==
  /\ a.tenant = b.tenant /\ a.staff = b.staff
  /\ HoldsTime(a) /\ HoldsTime(b)
  /\ a.start < b.end /\ b.start < a.end

(* "Double-booking prevention": whatever stale list createBooking is given
   and however bookings are moved along, no two of them clash.             *)
NoDoubleBooking ==
  \A i, j \in DOMAIN bookings : i # j => ~Clash(bookings[i], bookings[j])

(* The bookings as a calendar's appointments.                              *)
EntryOf(i, b) ==
  [id |-> i, tenant |-> b.tenant, staff |-> b.staff, start |-> b.start, end |-> b.end]

Entries ==
  {EntryOf(i, bookings[i]) : i \in {j \in DOMAIN bookings : HoldsTime(bookings[j])}}

Appointments == INSTANCE Calendar WITH entries <- Entries, issued <- DOMAIN bookings

(* The bookings are a calendar of appointments: entered once, under an id of
   their own and without a clash, struck out at most once, and never entered
   again, whatever becomes of the booking afterwards.                      *)
CalendarSpec == Appointments!Spec

(* A slot that a page offers can be booked unless somebody has taken it since
   the page was opened: the slot computation and the repository agree on
   what a conflict is.                                                     *)
OffersAreLostToOthersOnly ==
  \A c \in Customers :
    pages[c].open =>
      \A slot \in pages[c].slots :
        Conflicts(pages[c].tenant, slot.staff, slot.start, slot.end) =>
          \E i \in pages[c].seen + 1..Len(bookings) :
            /\ bookings[i].tenant = pages[c].tenant
            /\ bookings[i].staff = slot.staff
            /\ bookings[i].start < slot.end /\ slot.start < bookings[i].end

(* The offered slots, moment by moment: the location is open, the member of
   staff works and has no booking; at the start the lead time is met; and
   from the opening of the shift on, slot and buffer alternate.            *)
Moments(start, end) == start..end - 1

Works(input, staff, w, m) ==
  LET date == DateOf(m)  clock == m % DayLength IN
  /\ date \notin input.blackouts /\ date \notin input.off[staff]
  /\ input.hours[date] # Closed
  /\ input.hours[date].open <= clock /\ clock < input.hours[date].close
  /\ w.open <= clock /\ clock < w.close

ShiftOpens(input, date, w) == EffectiveWindow(date, input.hours[date], w).open

IsFreeSlot(page, staff, date, w, start) ==
  LET input == page.input IN
  /\ \A m \in Moments(start, start + input.duration) :
       /\ DateOf(m) = date
       /\ Works(input, staff, w, m)
       /\ \A b \in page.existing : b.staff = staff => m \notin Moments(b.start, b.end)
  /\ start >= ShiftOpens(input, date, w)
  /\ (start - ShiftOpens(input, date, w)) % (input.duration + input.buffer) = 0
  /\ input.lead > 0 => start - page.at >= input.lead
  /\ input.maxAdvance > 0 => date - DateOf(page.at) <= input.maxAdvance

PagesShowTheFreeSlots ==
  \A c \in Customers :
    pages[c].open =>
      pages[c].slots =
        UNION {{[staff |-> s, start |-> m, end |-> m + pages[c].input.duration] :
                 m \in {t \in Times(date) :
                          \E w \in pages[c].input.windows[s][date] :
                            IsFreeSlot(pages[c], s, date, w, t)}} :
              s \in Staff, date \in Dates}
=============================================================================
