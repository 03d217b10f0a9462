-------------------------- MODULE BookingsProofs ----------------------------
(***************************************************************************)
(* Proofs about Bookings, for any tenants, staff, services and schedules.  *)
(***************************************************************************)
EXTENDS Bookings, FiniteSums, TLAPS

-----------------------------------------------------------------------------
(* Types.                                                                  *)

(* The slots of an availability input are windows of known staff. *)
LEMMA SlotsAreWindows ==
  ASSUME NEW input \in Inputs, NEW n, NEW existing
  PROVE  SlotsForDates(input, Dates, n, existing) \subseteq Window
<1>1. ASSUME NEW date \in Dates, NEW s \in DOMAIN input.windows
      PROVE  StaffSlots(input, s, date, n, existing) \subseteq Window
  <2>1. s \in Staff /\ input.duration \in Nat
    BY InputAssumption
  <2>2. Times(date) \subseteq Nat
    BY BookingAssumption, DayAssumption DEF Times
  <2>3. ASSUME NEW t \in Times(date)
        PROVE  [staff |-> s, start |-> t, end |-> t + input.duration] \in Window
    BY <2>1, <2>2 DEF Window
  <2> QED BY <2>3 DEF StaffSlots
<1>2. ASSUME NEW date \in Dates
      PROVE  SlotsForDate(input, date, n, existing) \subseteq Window
  BY <1>1 DEF SlotsForDate
<1> QED BY <1>2 DEF SlotsForDates

(* What createBooking appends, and that the other bookings stay. *)
LEMMA Created ==
  ASSUME BookingTypeOK, NEW t \in Tenants, NEW s \in Staff, NEW b \in Nat, NEW e \in Nat,
         NEW existing, CreateBooking(t, s, b, e, existing)
  PROVE  /\ bookings' \in Seq(Booking)
         /\ DOMAIN bookings' = DOMAIN bookings \cup {Len(bookings) + 1}
         /\ Len(bookings) + 1 \notin DOMAIN bookings
         /\ \A i \in DOMAIN bookings : bookings'[i] = bookings[i]
         /\ bookings'[Len(bookings) + 1] =
              [tenant |-> t, staff |-> s, start |-> b, end |-> e,
               status |-> "requested"]
<1> DEFINE r == [tenant |-> t, staff |-> s, start |-> b, end |-> e,
                 status |-> "requested"]
<1>1. r \in Booking
  BY DEF Booking, Status
<1>2. bookings' = Append(bookings, r) /\ bookings \in Seq(Booking)
  BY DEF CreateBooking, BookingTypeOK
<1> HIDE DEF r
<1>3. /\ bookings' \in Seq(Booking)
      /\ DOMAIN bookings' = DOMAIN bookings \cup {Len(bookings) + 1}
      /\ Len(bookings) + 1 \notin DOMAIN bookings
      /\ \A i \in DOMAIN bookings : bookings'[i] = bookings[i]
      /\ bookings'[Len(bookings) + 1] = r
  BY <1>1, <1>2
<1> QED BY <1>3 DEF r

(* A transition changes one status, along the table. *)
LEMMA Moved ==
  ASSUME BookingTypeOK, NEW i \in DOMAIN bookings, NEW target \in Status,
         TransitionBookingStatus(i, target)
  PROVE  /\ bookings' \in Seq(Booking)
         /\ DOMAIN bookings' = DOMAIN bookings
         /\ bookings'[i] = [bookings[i] EXCEPT !.status = target]
         /\ \A j \in DOMAIN bookings : j # i => bookings'[j] = bookings[j]
<1>1. bookings \in Seq(Booking) /\ bookings[i] \in Booking
  BY DEF BookingTypeOK
<1>2. [bookings[i] EXCEPT !.status = target] \in Booking
  BY <1>1 DEF Booking
<1>3. bookings' = [bookings EXCEPT ![i] = [bookings[i] EXCEPT !.status = target]]
  BY DEF TransitionBookingStatus
<1> QED BY <1>1, <1>2, <1>3

(* Every step but the clock's and a page's creates or moves a booking, with
   the arguments the lemmas above want. *)
LEMMA StepKinds ==
  ASSUME BookingTypeOK, BookingNext
  PROVE  \/ \E t \in Tenants, s \in Staff, b \in Nat, e \in Nat :
              \E existing : CreateBooking(t, s, b, e, existing)
         \/ \E i \in DOMAIN bookings, target \in Status :
              TransitionBookingStatus(i, target)
         \/ \E c \in Customers, t \in Tenants, input \in Inputs : OpenPage(c, t, input)
         \/ Tick
<1>1. ASSUME NEW c \in Customers, BookFromPage(c)
      PROVE  \E t \in Tenants, s \in Staff, b \in Nat, e \in Nat :
               \E existing : CreateBooking(t, s, b, e, existing)
  <2>1. PICK slot \in pages[c].slots, existing \in {pages[c].existing, {}} :
          CreateBooking(pages[c].tenant, slot.staff, slot.start, slot.end, existing)
    BY <1>1 DEF BookFromPage
  <2>2. pages[c].tenant \in Tenants /\ slot \in Window
    BY <1>1, <2>1 DEF BookFromPage, BookingTypeOK
  <2> QED BY <2>1, <2>2 DEF Window
<1>2. ASSUME BookWindow
      PROVE  \E t \in Tenants, s \in Staff, b \in Nat, e \in Nat :
               \E existing : CreateBooking(t, s, b, e, existing)
  <2>1. PICK t \in Tenants, s \in Staff, w \in Requests :
          CreateBooking(t, s, w[1], w[2], {})
    BY <1>2 DEF BookWindow
  <2>2. w[1] \in Nat /\ w[2] \in Nat
    BY BookingAssumption
  <2> QED BY <2>1, <2>2
<1>3. ASSUME NEW i \in DOMAIN bookings,
             \/ \E target \in Status : TransitionBookingStatus(i, target)
             \/ \E f \in FreeWindows, late \in BOOLEAN : CancelBooking(i, f, late)
             \/ AdminCancelBooking(i)
      PROVE  \E target \in Status : TransitionBookingStatus(i, target)
  BY <1>3 DEF CancelBooking, AdminCancelBooking, Status
<1> QED BY <1>1, <1>2, <1>3 DEF BookingNext

LEMMA TypeStep ==
  ASSUME BookingTypeOK, [BookingNext]_bookingVars
  PROVE  BookingTypeOK'
<1>1. ASSUME NEW t \in Tenants, NEW s \in Staff, NEW b \in Nat, NEW e \in Nat,
             NEW existing, CreateBooking(t, s, b, e, existing)
      PROVE  BookingTypeOK'
  <2>1. bookings' \in Seq(Booking)
    BY <1>1, Created
  <2> QED BY <1>1, <2>1 DEF CreateBooking, BookingTypeOK
<1>2. ASSUME NEW i \in DOMAIN bookings, NEW target \in Status,
             TransitionBookingStatus(i, target)
      PROVE  BookingTypeOK'
  <2>1. bookings' \in Seq(Booking)
    BY <1>2, Moved
  <2> QED BY <1>2, <2>1 DEF TransitionBookingStatus, BookingTypeOK
<1>3. ASSUME NEW c \in Customers, NEW t \in Tenants, NEW input \in Inputs,
             OpenPage(c, t, input)
      PROVE  BookingTypeOK'
  <2> DEFINE slots == SlotsForDates(input, Dates, now, Active(t))
             page  == [open |-> TRUE, tenant |-> t, input |-> input, at |-> now,
                       seen |-> Len(bookings), existing |-> Active(t), slots |-> slots]
  <2>1. slots \subseteq Window
    BY SlotsAreWindows
  <2> HIDE DEF slots
  <2>2. page.tenant \in Tenants /\ page.slots \subseteq Window
    BY <2>1
  <2>3. pages' = [pages EXCEPT ![c] = page] /\ UNCHANGED <<bookings, now>>
    BY <1>3 DEF OpenPage, slots
  <2> HIDE DEF page
  <2>4. ASSUME NEW d \in Customers, pages'[d].open
        PROVE  pages'[d].tenant \in Tenants /\ pages'[d].slots \subseteq Window
    <3>1. CASE pages'[d] = page
      BY <2>2, <3>1
    <3>2. CASE pages'[d] = pages[d]
      BY <2>4, <3>2 DEF BookingTypeOK
    <3> QED BY <2>3, <3>1, <3>2 DEF BookingTypeOK
  <2>5. DOMAIN pages' = DOMAIN pages
    BY <2>3
  <2> QED BY <2>3, <2>4, <2>5 DEF BookingTypeOK
<1>4. ASSUME Tick
      PROVE  BookingTypeOK'
  BY <1>4 DEF Tick, BookingTypeOK
<1>5. CASE UNCHANGED bookingVars
  BY <1>5 DEF bookingVars, BookingTypeOK
<1> QED BY <1>1, <1>2, <1>3, <1>4, <1>5, StepKinds

-----------------------------------------------------------------------------
(* No double booking.                                                      *)

LEMMA BookingAt ==
  ASSUME BookingTypeOK, NEW i \in DOMAIN bookings
  PROVE  /\ bookings[i] \in Booking
         /\ bookings[i].start \in Nat /\ bookings[i].end \in Nat
         /\ bookings[i].status \in Status
<1>1. bookings[i] \in Booking
  BY DEF BookingTypeOK
<1> QED BY <1>1 DEF Booking

(* Creating a booking makes no clash: the repository looked. *)
LEMMA CreatedApart ==
  ASSUME BookingTypeOK, NoDoubleBooking,
         NEW t \in Tenants, NEW s \in Staff, NEW b \in Nat, NEW e \in Nat,
         NEW existing, CreateBooking(t, s, b, e, existing)
  PROVE  NoDoubleBooking'
<1> DEFINE n == Len(bookings) + 1
           r == [tenant |-> t, staff |-> s, start |-> b, end |-> e,
                 status |-> "requested"]
<1>1. /\ DOMAIN bookings' = DOMAIN bookings \cup {n}
      /\ n \notin DOMAIN bookings
      /\ \A i \in DOMAIN bookings : bookings'[i] = bookings[i]
      /\ bookings'[n] = r
  BY Created
<1>2. ASSUME NEW i \in DOMAIN bookings
      PROVE  ~Clash(bookings[i], r) /\ ~Clash(r, bookings[i])
  <2>1. ~(/\ bookings[i].tenant = t
          /\ bookings[i].staff = s
          /\ bookings[i].status \in ActiveStatuses
          /\ b < bookings[i].end
          /\ e > bookings[i].start)
    BY DEF CreateBooking, Conflicts
  <2> QED BY <2>1, BookingAt DEF Clash, HoldsTime
<1> HIDE DEF n, r
<1> SUFFICES ASSUME NEW i \in DOMAIN bookings', NEW j \in DOMAIN bookings', i # j
             PROVE  ~Clash(bookings'[i], bookings'[j])
  BY DEF NoDoubleBooking, Clash, HoldsTime
<1>3. CASE i = n
  BY <1>1, <1>2, <1>3
<1>4. CASE j = n
  BY <1>1, <1>2, <1>4
<1>5. CASE i # n /\ j # n
  BY <1>1, <1>5 DEF NoDoubleBooking
<1> QED BY <1>3, <1>4, <1>5

(* A transition never makes a booking hold its time again. *)
LEMMA NeverHoldsAgain ==
  ASSUME BookingTypeOK, NEW i \in DOMAIN bookings, NEW target \in Status,
         TransitionBookingStatus(i, target)
  PROVE  HoldsTime(bookings'[i]) => HoldsTime(bookings[i])
<1>1. bookings[i].status \in Status /\ target \in Transitions[bookings[i].status]
  BY BookingAt DEF TransitionBookingStatus
<1>2. bookings'[i].status = target
  <2>1. bookings'[i] = [bookings[i] EXCEPT !.status = target]
    BY Moved
  <2>2. bookings[i] \in Booking
    BY BookingAt
  <2> QED BY <2>1, <2>2 DEF Booking
<1>3. target \in ActiveStatuses => bookings[i].status \in ActiveStatuses
  BY <1>1 DEF Status, Transitions, ActiveStatuses
<1> QED BY <1>2, <1>3 DEF HoldsTime

(* All else about the bookings stays as it is. *)
LEMMA MovedFields ==
  ASSUME BookingTypeOK, NEW k \in DOMAIN bookings, NEW target \in Status,
         TransitionBookingStatus(k, target), NEW j \in DOMAIN bookings
  PROVE  /\ bookings'[j].tenant = bookings[j].tenant
         /\ bookings'[j].staff = bookings[j].staff
         /\ bookings'[j].start = bookings[j].start
         /\ bookings'[j].end = bookings[j].end
         /\ HoldsTime(bookings'[j]) => HoldsTime(bookings[j])
         /\ j # k => HoldsTime(bookings'[j]) = HoldsTime(bookings[j])
<1>1. CASE j = k
  <2>1. bookings'[k] = [bookings[k] EXCEPT !.status = target]
    BY Moved
  <2> QED BY <1>1, <2>1, BookingAt, NeverHoldsAgain DEF Booking
<1>2. CASE j # k
  BY <1>2, Moved
<1> QED BY <1>1, <1>2

LEMMA MovedApart ==
  ASSUME BookingTypeOK, NoDoubleBooking, NEW k \in DOMAIN bookings, NEW target \in Status,
         TransitionBookingStatus(k, target)
  PROVE  NoDoubleBooking'
<1>1. DOMAIN bookings' = DOMAIN bookings
  BY Moved
<1> SUFFICES ASSUME NEW i \in DOMAIN bookings, NEW j \in DOMAIN bookings, i # j
             PROVE  ~Clash(bookings'[i], bookings'[j])
  BY <1>1 DEF NoDoubleBooking, Clash, HoldsTime
<1>2. Clash(bookings'[i], bookings'[j]) => Clash(bookings[i], bookings[j])
  BY MovedFields DEF Clash
<1> QED BY <1>2 DEF NoDoubleBooking

LEMMA ApartStep ==
  ASSUME BookingTypeOK, NoDoubleBooking, [BookingNext]_bookingVars
  PROVE  NoDoubleBooking'
<1>1. CASE UNCHANGED bookings
  BY <1>1 DEF NoDoubleBooking
<1>2. CASE Tick \/ \E c \in Customers, t \in Tenants, input \in Inputs :
             OpenPage(c, t, input)
  BY <1>2, <1>1 DEF Tick, OpenPage
<1>3. CASE UNCHANGED bookingVars
  BY <1>3, <1>1 DEF bookingVars
<1> QED BY <1>2, <1>3, StepKinds, CreatedApart, MovedApart

LEMMA InitHolds == BookingInit => BookingTypeOK /\ NoDoubleBooking
<1>1. ASSUME BookingInit PROVE BookingTypeOK
  BY <1>1 DEF BookingInit, BookingTypeOK, NoPage
<1>2. ASSUME BookingInit PROVE NoDoubleBooking
  BY <1>2 DEF BookingInit, NoDoubleBooking
<1> QED BY <1>1, <1>2

(* Bookings, clock and the slots on the pages keep their types. *)
THEOREM BookingsTypeCorrect == BookingSpec => []BookingTypeOK
<1>1. BookingTypeOK /\ [BookingNext]_bookingVars => BookingTypeOK'
  BY TypeStep
<1> QED BY InitHolds, <1>1, PTL DEF BookingSpec

(* Whatever list createBooking is handed and however bookings are moved along,
   the bookings that hold their time never clash. *)
THEOREM NeverDoubleBooked == BookingSpec => []NoDoubleBooking
<1>1. BookingTypeOK /\ NoDoubleBooking /\ [BookingNext]_bookingVars => (BookingTypeOK /\ NoDoubleBooking)'
  BY TypeStep, ApartStep
<1> QED BY InitHolds, <1>1, PTL DEF BookingSpec

-----------------------------------------------------------------------------
(* The bookings implement the calendar.                                    *)

LEMMA EntriesAreEntries ==
  ASSUME BookingTypeOK
  PROVE  Entries \subseteq Appointments!Entry
<1>1. ASSUME NEW i \in DOMAIN bookings
      PROVE  EntryOf(i, bookings[i]) \in Appointments!Entry
  <2>1. bookings[i] \in Booking /\ i \in Nat
    BY DEF BookingTypeOK
  <2> QED BY <2>1 DEF Booking, EntryOf, Appointments!Entry
<1> QED BY <1>1 DEF Entries

(* A new booking is entered: it comes after all others and clashes with none. *)
LEMMA CreatingEnters ==
  ASSUME BookingTypeOK, NEW t \in Tenants, NEW s \in Staff, NEW b \in Nat, NEW e \in Nat,
         NEW existing, CreateBooking(t, s, b, e, existing)
  PROVE  Appointments!Next
<1> DEFINE n == Len(bookings) + 1
           r == [tenant |-> t, staff |-> s, start |-> b, end |-> e,
                 status |-> "requested"]
           x == EntryOf(n, r)
<1>1. /\ DOMAIN bookings' = DOMAIN bookings \cup {n}
      /\ n \notin DOMAIN bookings
      /\ \A i \in DOMAIN bookings : bookings'[i] = bookings[i]
      /\ bookings'[n] = r
  BY Created
<1>2. HoldsTime(r)
  BY DEF HoldsTime, ActiveStatuses
<1>4. ASSUME NEW i \in DOMAIN bookings, HoldsTime(bookings[i])
      PROVE  ~Appointments!Clash(x, EntryOf(i, bookings[i]))
  <2>1. ~(/\ bookings[i].tenant = t
          /\ bookings[i].staff = s
          /\ b < bookings[i].end
          /\ e > bookings[i].start)
    BY <1>4 DEF CreateBooking, Conflicts, HoldsTime
  <2> QED BY <2>1, BookingAt DEF Appointments!Clash, EntryOf
<1>5. \A f \in Entries : ~Appointments!Clash(x, f)
  BY <1>4 DEF Entries, EntryOf
<1>9. x.id = n
  BY DEF EntryOf
<1> HIDE DEF n, r
<1>6. Entries' = Entries \cup {x}
  BY <1>1, <1>2 DEF Entries, HoldsTime, EntryOf
<1>7. x \in Appointments!Entry
  BY DEF x, n, r, EntryOf, Appointments!Entry, BookingTypeOK
<1> HIDE DEF x
<1>8. Appointments!Enter(x)
  BY <1>1, <1>5, <1>6, <1>9 DEF Appointments!Enter
<1> QED BY <1>6, <1>7, <1>8, EntriesAreEntries DEF Appointments!Next

(* A transition strikes the booking out or leaves the calendar as it is.  *)
LEMMA MovingStrikes ==
  ASSUME BookingTypeOK, NEW k \in DOMAIN bookings, NEW target \in Status,
         TransitionBookingStatus(k, target)
  PROVE  Appointments!Next \/ UNCHANGED <<Entries, DOMAIN bookings>>
<1> DEFINE Held(j) == HoldsTime(bookings[j])
           Holds(j) == HoldsTime(bookings'[j])
           Old(j) == EntryOf(j, bookings[j])
           New(j) == EntryOf(j, bookings'[j])
<1>1. /\ Entries = {Old(i) : i \in {j \in DOMAIN bookings : Held(j)}}
      /\ Entries' = {New(i) : i \in {j \in DOMAIN bookings : Holds(j)}}
  <2>1. DOMAIN bookings' = DOMAIN bookings
    BY Moved
  <2> QED BY <2>1 DEF Entries, HoldsTime, EntryOf
<1>2. \A j \in DOMAIN bookings : New(j) = Old(j)
  BY MovedFields DEF EntryOf
<1>3. \A j \in DOMAIN bookings : j # k => (Holds(j) <=> Held(j))
  BY MovedFields
<1>4. Holds(k) => Held(k)
  BY MovedFields
<1>5. \A i, j \in DOMAIN bookings : Old(i) = Old(j) => i = j
  BY DEF EntryOf
<1>9. UNCHANGED DOMAIN bookings
  BY Moved
<1> HIDE DEF Held, Holds, Old, New
<1>6. Entries' = {Old(i) : i \in {j \in DOMAIN bookings : Holds(j)}}
  BY <1>1, <1>2
<1>7. CASE Holds(k) \/ ~Held(k)
  <2>1. \A j \in DOMAIN bookings : Holds(j) <=> Held(j)
    BY <1>3, <1>4, <1>7
  <2> QED BY <1>1, <1>6, <1>9, <2>1
<1>8. CASE Held(k) /\ ~Holds(k)
  <2>1. Old(k) \in Entries
    BY <1>1, <1>8
  <2>2. \A j \in DOMAIN bookings : Holds(j) <=> Held(j) /\ j # k
    BY <1>3, <1>8
  <2>3. Entries' = Entries \ {Old(k)}
    BY <1>1, <1>5, <1>6, <2>2
  <2> QED BY <1>9, <2>1, <2>3 DEF Appointments!Next, Appointments!Strike
<1> QED BY <1>4, <1>7, <1>8

LEMMA CalendarStep ==
  ASSUME BookingTypeOK, [BookingNext]_bookingVars
  PROVE  [Appointments!Next]_(Appointments!calendarVars)
<1> USE DEF Appointments!calendarVars
<1>1. CASE UNCHANGED bookings
  BY <1>1 DEF Entries
<1>2. CASE Tick \/ \E c \in Customers, t \in Tenants, input \in Inputs :
             OpenPage(c, t, input)
  BY <1>2, <1>1 DEF Tick, OpenPage
<1>3. CASE UNCHANGED bookingVars
  BY <1>3, <1>1 DEF bookingVars
<1> QED BY <1>2, <1>3, StepKinds, CreatingEnters, MovingStrikes

(* The booking component implements the calendar: every call enters one
   appointment that clashes with none, strikes one out, or is not seen.    *)
THEOREM ImplementsCalendar == BookingSpec => CalendarSpec
<1>1. BookingInit => Appointments!Init
  BY DEF BookingInit, Entries, Appointments!Init
<1>2. BookingTypeOK /\ [BookingNext]_bookingVars => BookingTypeOK'
  BY TypeStep
<1>3. BookingTypeOK /\ [BookingNext]_bookingVars => [Appointments!Next]_(Appointments!calendarVars)
  BY CalendarStep
<1> QED BY InitHolds, <1>1, <1>2, <1>3, PTL DEF BookingSpec, CalendarSpec, Appointments!Spec

-----------------------------------------------------------------------------
(* Division with remainder, which the time line and the loop of slots use. *)

(* A number is smaller than a divisor, or has one division by it. *)
LEMMA SmallMultiple ==
  ASSUME NEW p \in Nat \ {0}, NEW z \in Int, p * z < p, -p < p * z
  PROVE  z = 0
  <1>1. CASE z >= 1
    <2>1. p * z = p + p * (z - 1) /\ p * (z - 1) >= 0
      <3>1. z - 1 \in Nat
        BY <1>1
      <3>2. p * (z - 1) \in Nat
        BY <3>1
      <3>3. p * z = p * (z - 1) + p
        OBVIOUS
      <3> QED
        BY <3>2, <3>3
    <2> QED
      BY <2>1
  <1>2. CASE z <= -1
    <2>1. -(z + 1) \in Nat
      BY <1>2
    <2>2. p * (-(z + 1)) \in Nat
      BY <2>1
    <2>3. p * z = -p - (p * (-(z + 1)))
      OBVIOUS
    <2> QED
      BY <2>2, <2>3
  <1> QED
    BY <1>1, <1>2

LEMMA Division ==
  ASSUME NEW x \in Int, NEW p \in Nat \ {0}
  PROVE  \E q \in Int, r \in 0..(p - 1) : q = x \div p /\ r = x % p /\ x = p * q + r
  <1>1. x \div p \in Int /\ x % p \in 0..(p - 1)
    OBVIOUS
  <1>2. PICK q \in Int, r \in 0..(p - 1) : q = x \div p /\ r = x % p
    BY <1>1
  <1>3. r = x - p * q
    BY <1>2
  <1>4. x = p * q + r
    BY <1>3
  <1> QED
    BY <1>2, <1>4

LEMMA DivisionIs ==
  ASSUME NEW p \in Nat \ {0}, NEW q \in Int, NEW r \in 0..(p - 1), NEW x \in Int, x = p * q + r
  PROVE  x \div p = q /\ x % p = r
  <1>1. PICK k \in Int, m \in 0..(p - 1) : k = x \div p /\ m = x % p /\ x = p * k + m
    BY Division
  <1> DEFINE z == k - q
  <1>2. z \in Int
    OBVIOUS
  <1>3. p * z = r - m
    <2>1. p * z = p * k - p * q
      OBVIOUS
    <2>2. p * k \in Int /\ p * q \in Int
      OBVIOUS
    <2> QED
      BY <1>1, <2>1, <2>2
  <1>4. z = 0
    <2>1. p * z < p /\ -p < p * z
      BY <1>1, <1>3
    <2> HIDE DEF z
    <2> QED
      BY <1>2, <2>1, SmallMultiple
  <1> QED
    BY <1>1, <1>3, <1>4

(* Periods. *)
LEMMA OnePeriodLess ==
  ASSUME NEW p \in Nat \ {0}, NEW x \in Int
  PROVE  /\ (x - p) % p = x % p
         /\ x \in 0..(p - 1) => x % p = x
  <1>1. PICK q \in Int, r \in 0..(p - 1) : q = x \div p /\ r = x % p /\ x = p * q + r
    BY Division
  <1>2. x - p = p * (q - 1) + r
    <2>1. p * (q - 1) = p * q - p
      OBVIOUS
    <2>2. p * q \in Int
      OBVIOUS
    <2> QED
      BY <1>1, <2>1, <2>2
  <1>3. (x - p) % p = x % p
    <2>1. PICK y \in Int, k \in Int : y = x - p /\ k = q - 1
      OBVIOUS
    <2>2. y = p * k + r
      BY <1>2, <2>1
    <2>3. y % p = r
      BY <2>2, DivisionIs
    <2> QED
      BY <1>1, <2>1, <2>3
  <1>4. ASSUME x \in 0..(p - 1)
        PROVE  x % p = x
    <2>1. x = p * 0 + x
      OBVIOUS
    <2> QED
      BY <1>4, <2>1, DivisionIs
  <1> QED
    BY <1>3, <1>4

-----------------------------------------------------------------------------
(* The computation of the slots.                                           *)

(* The recursion of StartsIn: a start and, if it fits, the ones after it.  *)
StartsStep(close, duration, buffer, from, s) ==
  IF s + duration <= close THEN {s} \cup from[s + duration + buffer] ELSE {}

IsStarts(from, close, duration, buffer) ==
  from = [s \in Nat |-> StartsStep(close, duration, buffer, from, s)]

(* Its solution: every step-th moment that leaves time for the service.    *)
RegularStarts(close, duration, step, s) ==
  {t \in Nat : t >= s /\ t + duration <= close /\ (t - s) % step = 0}

LEMMA RegularStep ==
  ASSUME NEW close \in Int, NEW duration \in Nat, NEW step \in Nat \ {0}, NEW s \in Nat
  PROVE  RegularStarts(close, duration, step, s) =
           IF s + duration <= close
           THEN {s} \cup RegularStarts(close, duration, step, s + step) ELSE {}
  <1>1. CASE ~(s + duration <= close)
    BY <1>1 DEF RegularStarts
  <1>2. CASE s + duration <= close
    <2>1. ASSUME NEW t \in Nat
          PROVE  (t >= s /\ (t - s) % step = 0)
                   <=> t = s \/ (t >= s + step /\ (t - (s + step)) % step = 0)
      <3>1. /\ \A x \in Int : (x - step) % step = x % step
            /\ \A x \in Int : x \in 0..(step - 1) => x % step = x
        BY OnePeriodLess
      <3>2. 0 % step = 0
        BY <3>1
      <3>3. CASE t < s
        BY <3>3
      <3>4. CASE t >= s /\ t < s + step
        <4>1. t - s \in 0..(step - 1)
          BY <3>4
        <4>2. (t - s) % step = t - s
          BY <3>1, <4>1
        <4> QED
          BY <3>4, <4>2
      <3>5. CASE t >= s + step
        <4>1. PICK x \in Int : x = t - s
          OBVIOUS
        <4>2. (x - step) % step = x % step
          BY <3>1
        <4>3. t - (s + step) = x - step
          BY <4>1
        <4> QED
          BY <3>5, <4>1, <4>2, <4>3
      <3> QED
        BY <3>3, <3>4, <3>5
    <2>2. \A t \in Nat : t \in RegularStarts(close, duration, step, s)
                           <=> t \in {s} \cup RegularStarts(close, duration, step, s + step)
      BY <1>2, <2>1 DEF RegularStarts
    <2>3. /\ RegularStarts(close, duration, step, s) \subseteq Nat
          /\ {s} \cup RegularStarts(close, duration, step, s + step) \subseteq Nat
      BY DEF RegularStarts
    <2> QED
      BY <1>2, <2>2, <2>3
  <1> QED
    BY <1>1, <1>2

(* The recursion has no other solution: a start is as far from the end of the
   window as a counterexample may be, so the last one would be wrong first. *)
LEMMA StartsAreRegular ==
  ASSUME NEW close \in Int, NEW duration \in Nat, NEW buffer \in Nat, duration + buffer # 0,
         NEW from, IsStarts(from, close, duration, buffer), NEW s \in Nat
  PROVE  from[s] = RegularStarts(close, duration, duration + buffer, s)
  <1> DEFINE step == duration + buffer
             R(t) == RegularStarts(close, duration, step, t)
             Bad  == {n \in Nat : \E t \in Nat : from[t] # R(t) /\ n + t = close}
  <1>1. \A t \in Nat : from[t] = IF t + duration <= close THEN {t} \cup from[t + step] ELSE {}
    <2>1. \A t \in Nat : from[t] = StartsStep(close, duration, buffer, from, t)
      BY DEF IsStarts
    <2>2. \A t \in Nat : t + duration + buffer = t + step
      OBVIOUS
    <2> QED
      BY <2>1, <2>2 DEF StartsStep
  <1>2. step \in Nat \ {0}
    OBVIOUS
  <1> HIDE DEF step
  <1>3. \A t \in Nat : R(t) = IF t + duration <= close THEN {t} \cup R(t + step) ELSE {}
    BY <1>2, RegularStep
  <1> HIDE DEF R
  <1>4. ASSUME NEW t \in Nat, t > close
        PROVE  from[t] = R(t)
    <2>1. ~(t + duration <= close)
      BY <1>4
    <2> QED
      BY <1>1, <1>3, <2>1
  <1>5. Bad = {}
    <2> SUFFICES ASSUME Bad # {}
                 PROVE  FALSE
      OBVIOUS
    <2>1. PICK n \in Bad : \A m \in Bad : ~(m < n)
      <3>1. Bad \subseteq Nat
        OBVIOUS
      <3> HIDE DEF Bad
      <3> QED
        BY <3>1, SmallestNumber
    <2>2. PICK t \in Nat : from[t] # R(t) /\ n + t = close /\ n \in Nat
      BY <2>1
    <2>3. t + duration <= close /\ from[t + step] # R(t + step)
      BY <1>1, <1>3, <2>2
    <2>4. t + step \in Nat /\ t + step <= close
      BY <1>2, <1>4, <2>3
    <2>5. close - (t + step) \in Bad /\ close - (t + step) < n
      BY <1>2, <2>2, <2>3, <2>4
    <2> QED
      BY <2>1, <2>5
  <1>6. CASE s > close
    BY <1>4, <1>6 DEF R, step
  <1>7. CASE ~(s > close)
    <2>1. close - s \in Nat /\ (close - s) + s = close
      BY <1>7
    <2> QED
      BY <1>5, <2>1 DEF R, step
  <1> QED
    BY <1>6, <1>7

LEMMA StartsInAre ==
  ASSUME NEW window, window.open \in Nat, window.close \in Int,
         NEW duration \in Nat, NEW buffer \in Nat, duration + buffer # 0
  PROVE  StartsIn(window, duration, buffer)
           = RegularStarts(window.close, duration, duration + buffer, window.open)
  <1> DEFINE IsIt(from) == IsStarts(from, window.close, duration, buffer)
             step == duration + buffer
             R    == [s \in Nat |-> RegularStarts(window.close, duration, step, s)]
  <1>1. step \in Nat \ {0}
    OBVIOUS
  <1>2. IsIt(R)
    <2>1. ASSUME NEW s \in Nat
          PROVE  RegularStarts(window.close, duration, step, s)
                   = StartsStep(window.close, duration, buffer, R, s)
      <3>1. s + step \in Nat /\ s + step = s + duration + buffer
        OBVIOUS
      <3>2. R[s + duration + buffer] = RegularStarts(window.close, duration, step, s + step)
        BY <3>1
      <3> HIDE DEF step, R
      <3>3. RegularStarts(window.close, duration, step, s)
              = IF s + duration <= window.close
                THEN {s} \cup RegularStarts(window.close, duration, step, s + step) ELSE {}
        BY <1>1, RegularStep
      <3> QED
        BY <3>2, <3>3 DEF StartsStep
    <2> QED
      BY <2>1 DEF IsStarts
  <1>3. IsIt(CHOOSE from : IsIt(from))
    <2> HIDE DEF IsIt
    <2> QED
      BY <1>2, Zenon
  <1>4. StartsIn(window, duration, buffer) = (CHOOSE from : IsIt(from))[window.open]
    BY DEF StartsIn, IsStarts, StartsStep
  <1> QED
    BY <1>3, <1>4, StartsAreRegular

(* A moment within a day, by the clock of that day. *)
LEMMA MomentOfDay ==
  ASSUME NEW date \in Nat, NEW m \in Int, date * DayLength <= m, m < date * DayLength + DayLength
  PROVE  DateOf(m) = date /\ m % DayLength = m - date * DayLength
  <1>1. PICK r \in 0..(DayLength - 1) : r = m - date * DayLength
    BY DayAssumption
  <1>2. m = DayLength * date + r
    BY <1>1, DayAssumption
  <1> QED
    BY <1>1, <1>2, DayAssumption, DivisionIs DEF DateOf

LEMMA ClockOfMoment ==
  ASSUME NEW m \in Int
  PROVE  \E q, r \in Int : q = DateOf(m) /\ r = m % DayLength /\ m = q * DayLength + r
  <1>1. PICK q \in Int, r \in 0..(DayLength - 1) :
          q = m \div DayLength /\ r = m % DayLength /\ m = DayLength * q + r
    BY DayAssumption, Division
  <1>2. m = q * DayLength + r /\ r \in Int
    BY <1>1, DayAssumption
  <1>3. q = DateOf(m)
    BY <1>1 DEF DateOf
  <1> QED
    BY <1>1, <1>2, <1>3

(* A service fits the common part of opening hours and shift exactly if all
   its moments are on that date, at opening time and within the shift.     *)
LEMMA ServiceFits ==
  ASSUME NEW input \in Inputs, NEW date \in Dates, NEW s \in Staff,
         NEW w \in input.windows[s][date], NEW t \in Nat, NEW shift,
         shift = EffectiveWindow(date, input.hours[date], w)
  PROVE  /\ \A m \in Moments(t, t + input.duration) : DateOf(m) = date /\ Works(input, s, w, m)
         /\ t >= shift.open
         <=>
         /\ date \notin input.blackouts /\ date \notin input.off[s]
         /\ input.hours[date] # Closed
         /\ t >= shift.open /\ t + input.duration <= shift.close
  <1> DEFINE hours == input.hours[date]
             base  == date * DayLength
             d     == input.duration
  <1>1. d \in Nat \ {0} /\ w.open \in Int /\ w.close \in Int /\ base \in Nat /\ date \in Nat
    BY InputAssumption, DayAssumption, BookingAssumption
  <1>2. CASE hours = Closed
    <2>1. t \in Moments(t, t + d)
      BY <1>1 DEF Moments
    <2>2. ~(DateOf(t) = date /\ Works(input, s, w, t))
      BY <1>2 DEF Works
    <2>3. ~\A m \in Moments(t, t + d) : DateOf(m) = date /\ Works(input, s, w, m)
      <3> HIDE DEF d
      <3> QED
        BY <2>1, <2>2
    <2> QED
      BY <1>2, <2>3
  <1>3. CASE hours # Closed
    <2> DEFINE later   == IF hours.open > w.open THEN hours.open ELSE w.open
               earlier == IF hours.close < w.close THEN hours.close ELSE w.close
    <2>1. /\ hours.open \in 0..DayLength /\ hours.close \in 0..DayLength /\ DayLength \in Nat
      BY <1>3, InputAssumption, DayAssumption
    <2>2. /\ shift.open = base + later /\ shift.close = base + earlier
          /\ later \in Int /\ earlier \in Int
      BY <1>1, <2>1 DEF EffectiveWindow
    <2>3. /\ later >= hours.open /\ later >= w.open /\ later >= 0
          /\ earlier <= hours.close /\ earlier <= w.close /\ earlier <= DayLength
          /\ \A x \in Int : x >= hours.open /\ x >= w.open => x >= later
          /\ \A x \in Int : x < hours.close /\ x < w.close => x < earlier
      BY <1>1, <2>1
    <2> HIDE DEF hours, base, d, later, earlier
    <2>4. ASSUME t >= shift.open, t + d <= shift.close,
                 date \notin input.blackouts, date \notin input.off[s],
                 NEW m \in Moments(t, t + d)
          PROVE  DateOf(m) = date /\ Works(input, s, w, m)
      <3>1. m \in Int /\ t <= m /\ m < t + d
        BY <1>1 DEF Moments
      <3>2. base + later <= m /\ m < base + earlier
        BY <1>1, <2>2, <2>4, <3>1
      <3>3. base <= m /\ m < base + DayLength
        BY <1>1, <2>1, <2>2, <2>3, <3>1, <3>2
      <3>4. DateOf(m) = date /\ m % DayLength = m - base
        BY <1>1, <3>1, <3>3, MomentOfDay DEF base
      <3>5. later <= m - base /\ m - base < earlier /\ m - base \in Int
        BY <1>1, <2>2, <3>1, <3>2
      <3>6. /\ hours.open <= m - base /\ m - base < hours.close
            /\ w.open <= m - base /\ m - base < w.close
        BY <1>1, <2>1, <2>2, <2>3, <3>5
      <3> QED
        BY <1>3, <2>4, <3>4, <3>6 DEF Works, hours
    <2>5. ASSUME \A m \in Moments(t, t + d) : DateOf(m) = date /\ Works(input, s, w, m)
          PROVE  /\ date \notin input.blackouts /\ date \notin input.off[s]
                 /\ t + d <= shift.close
      <3>1. t \in Moments(t, t + d) /\ t + d - 1 \in Moments(t, t + d) /\ t + d - 1 \in Int
        BY <1>1 DEF Moments
      <3>2. PICK m \in Int : m = t + d - 1
        BY <3>1
      <3>3. DateOf(m) = date /\ Works(input, s, w, m)
        BY <2>5, <3>1, <3>2
      <3>4. date \notin input.blackouts /\ date \notin input.off[s]
        BY <3>3 DEF Works
      <3>5. PICK q \in Int, clock \in Int :
              q = DateOf(m) /\ clock = m % DayLength /\ m = q * DayLength + clock
        BY ClockOfMoment
      <3>6. m = base + clock
        <4>1. q = date
          BY <3>3, <3>5
        <4> QED
          BY <3>5, <4>1 DEF base
      <3>7. clock < earlier
        <4>1. clock < hours.close /\ clock < w.close
          BY <3>3, <3>5 DEF Works, hours
        <4> QED
          BY <2>3, <4>1
      <3>8. m < shift.close
        BY <1>1, <2>2, <3>6, <3>7
      <3> QED
        BY <1>1, <2>2, <3>2, <3>4, <3>8
    <2> QED
      BY <1>3, <2>4, <2>5 DEF hours, d
  <1> QED
    BY <1>2, <1>3

(* Two windows meet exactly if they have a moment in common, provided that
   neither of them is empty.                                               *)
LEMMA WindowsMeet ==
  ASSUME NEW t \in Nat, NEW e \in Nat, t < e, NEW x \in Nat, NEW y \in Nat, x < y
  PROVE  t < y /\ e > x <=> \E m \in Moments(t, e) : m \in Moments(x, y)
  <1>1. ASSUME t < y, e > x
        PROVE  \E m \in Moments(t, e) : m \in Moments(x, y)
    <2>1. CASE t < x
      BY <1>1, <2>1 DEF Moments
    <2>2. CASE ~(t < x)
      BY <1>1, <2>2 DEF Moments
    <2> QED
      BY <2>1, <2>2
  <1>2. ASSUME NEW m \in Moments(t, e), m \in Moments(x, y)
        PROVE  t < y /\ e > x
    BY <1>2 DEF Moments
  <1> QED
    BY <1>1, <1>2

(* Windows that end after they start, as those of all services do.         *)
ProperWindow == {w \in Window : w.start < w.end}

LEMMA NoConflictIs ==
  ASSUME NEW s, NEW t \in Nat, NEW e \in Nat, t < e, NEW existing, existing \subseteq ProperWindow
  PROVE  ~HasConflict(s, t, e, existing)
           <=> \A m \in Moments(t, e) : \A b \in existing :
                 b.staff = s => m \notin Moments(b.start, b.end)
  <1>1. ASSUME NEW b \in existing
        PROVE  t < b.end /\ e > b.start <=> \E m \in Moments(t, e) : m \in Moments(b.start, b.end)
    <2>1. b.start \in Nat /\ b.end \in Nat /\ b.start < b.end
      BY DEF ProperWindow, Window
    <2> QED
      BY <2>1, WindowsMeet
  <1>2. HasConflict(s, t, e, existing)
          <=> \E b \in existing : b.staff = s /\ \E m \in Moments(t, e) : m \in Moments(b.start, b.end)
    BY <1>1 DEF HasConflict
  <1> QED
    BY <1>2

(* A start the loop of a shift comes to, on a date that is open for booking. *)
Bookable(input, s, date, n, existing, t) ==
  /\ input.hours[date] # Closed /\ date \notin input.blackouts /\ date \notin input.off[s]
  /\ input.maxAdvance = 0 \/ date <= DateOf(n) + input.maxAdvance
  /\ \E w \in input.windows[s][date] :
       t \in StartsIn(EffectiveWindow(date, input.hours[date], w), input.duration, input.buffer)
  /\ LeadTimeMet(t, input.lead, n)
  /\ ~HasConflict(s, t, t + input.duration, existing)

LEMMA StartOfShift ==
  ASSUME NEW input \in Inputs, NEW date \in Dates, NEW s \in Staff,
         NEW w \in input.windows[s][date], input.hours[date] # Closed, NEW t \in Nat,
         NEW shift, shift = EffectiveWindow(date, input.hours[date], w)
  PROVE  t \in StartsIn(shift, input.duration, input.buffer)
           <=> /\ t >= shift.open /\ t + input.duration <= shift.close
               /\ (t - shift.open) % (input.duration + input.buffer) = 0
  <1> DEFINE hours   == input.hours[date]
             base    == date * DayLength
             later   == IF hours.open > w.open THEN hours.open ELSE w.open
             earlier == IF hours.close < w.close THEN hours.close ELSE w.close
  <1>1. /\ input.duration \in Nat \ {0} /\ input.buffer \in Nat
        /\ hours.open \in 0..DayLength /\ hours.close \in 0..DayLength
        /\ w.open \in Int /\ w.close \in Int /\ base \in Nat
    BY InputAssumption, DayAssumption, BookingAssumption
  <1>2. shift.open = base + later /\ shift.close = base + earlier
    BY DEF EffectiveWindow
  <1>3. later \in Nat /\ earlier \in Int
    BY <1>1, DayAssumption
  <1>4. shift.open \in Nat /\ shift.close \in Int
    <2> HIDE DEF base, later, earlier
    <2> QED
      BY <1>1, <1>2, <1>3
  <1>5. input.duration + input.buffer # 0
    BY <1>1
  <1>6. StartsIn(shift, input.duration, input.buffer)
          = RegularStarts(shift.close, input.duration, input.duration + input.buffer, shift.open)
    BY <1>1, <1>4, <1>5, StartsInAre
  <1> QED
    BY <1>6 DEF RegularStarts

(* What the service computes is what a page promises.                      *)
LEMMA BookableIsFree ==
  ASSUME NEW page, page.input \in Inputs, page.at \in Nat, page.existing \subseteq ProperWindow,
         NEW date \in Dates, NEW s \in Staff, NEW t \in Nat
  PROVE  Bookable(page.input, s, date, page.at, page.existing, t)
           <=> \E w \in page.input.windows[s][date] : IsFreeSlot(page, s, date, w, t)
  <1> DEFINE input == page.input
             d     == input.duration
             Open  == /\ input.hours[date] # Closed /\ date \notin input.blackouts
                      /\ date \notin input.off[s]
             Near  == input.maxAdvance = 0 \/ date <= DateOf(page.at) + input.maxAdvance
             Rest  == /\ LeadTimeMet(t, input.lead, page.at)
                      /\ ~HasConflict(s, t, t + d, page.existing)
             Shift(w) == EffectiveWindow(date, input.hours[date], w)
             Fits(w)  == t >= Shift(w).open /\ t + d <= Shift(w).close
             Even(w)  == (t - Shift(w).open) % (d + input.buffer) = 0
  <1>1. /\ input \in Inputs /\ d \in Nat \ {0} /\ input.lead \in Nat /\ input.maxAdvance \in Nat
        /\ date \in Nat
    BY InputAssumption, BookingAssumption
  <1>2. t + d \in Nat /\ t < t + d
    BY <1>1
  <1>3. ~HasConflict(s, t, t + d, page.existing)
          <=> \A m \in Moments(t, t + d) : \A b \in page.existing :
                b.staff = s => m \notin Moments(b.start, b.end)
    <2>1. PICK e \in Nat : e = t + d /\ t < e
      BY <1>2
    <2>2. ~HasConflict(s, t, e, page.existing)
            <=> \A m \in Moments(t, e) : \A b \in page.existing :
                  b.staff = s => m \notin Moments(b.start, b.end)
      BY <2>1, NoConflictIs
    <2> QED
      BY <2>1, <2>2
  <1>4. LeadTimeMet(t, input.lead, page.at) <=> (input.lead > 0 => t - page.at >= input.lead)
    BY <1>1 DEF LeadTimeMet
  <1>5. Near <=> (input.maxAdvance > 0 => date - DateOf(page.at) <= input.maxAdvance)
    <2>1. PICK q \in Int : q = DateOf(page.at)
      BY ClockOfMoment
    <2> QED
      BY <1>1, <2>1
  <1>6. ASSUME NEW w \in input.windows[s][date]
        PROVE  IsFreeSlot(page, s, date, w, t) <=> Open /\ Fits(w) /\ Even(w) /\ Near /\ Rest
    <2>1. PICK shift : shift = Shift(w)
      OBVIOUS
    <2>2. /\ \A m \in Moments(t, t + d) : DateOf(m) = date /\ Works(input, s, w, m)
          /\ t >= shift.open
          <=> Open /\ t >= shift.open /\ t + d <= shift.close
      BY <1>1, <2>1, ServiceFits
    <2>3. ShiftOpens(input, date, w) = shift.open
      BY <2>1 DEF ShiftOpens
    <2> HIDE DEF Near, Open, d
    <2>4. IsFreeSlot(page, s, date, w, t)
            <=> /\ \A m \in Moments(t, t + d) : DateOf(m) = date /\ Works(input, s, w, m)
                /\ t >= shift.open
                /\ \A m \in Moments(t, t + d) : \A b \in page.existing :
                     b.staff = s => m \notin Moments(b.start, b.end)
                /\ (t - shift.open) % (d + input.buffer) = 0
                /\ (input.lead > 0 => t - page.at >= input.lead)
                /\ Near
      BY <1>5, <2>3 DEF IsFreeSlot, d
    <2> QED
      BY <1>3, <1>4, <2>1, <2>2, <2>4
  <1>7. ASSUME Open, NEW w \in input.windows[s][date]
        PROVE  t \in StartsIn(Shift(w), d, input.buffer) <=> Fits(w) /\ Even(w)
    BY <1>1, <1>7, StartOfShift
  <1> HIDE DEF Near, Rest, Fits, Even, d
  <1>8. Bookable(page.input, s, date, page.at, page.existing, t)
          <=> Open /\ Near /\ Rest
              /\ \E w \in input.windows[s][date] : t \in StartsIn(Shift(w), d, input.buffer)
    BY DEF Bookable, Near, Rest, d
  <1> HIDE DEF Open, Shift
  <1> QED
    BY <1>6, <1>7, <1>8

(* The slots of a page are the bookable starts.                            *)
SlotFrom(s, m, d) == [staff |-> s, start |-> m, end |-> m + d]

BookableSlots(input, s, date, n, existing) ==
  {SlotFrom(s, m, input.duration) :
     m \in {t \in Times(date) : Bookable(input, s, date, n, existing, t)}}

FreeSlots(page, s, date) ==
  {SlotFrom(s, m, page.input.duration) :
     m \in {t \in Times(date) :
              \E w \in page.input.windows[s][date] : IsFreeSlot(page, s, date, w, t)}}

LEMMA SlotsAreBookable ==
  ASSUME NEW input \in Inputs, NEW n, NEW existing
  PROVE  \A x : x \in SlotsForDates(input, Dates, n, existing)
                 <=> \E s \in Staff, date \in Dates : x \in BookableSlots(input, s, date, n, existing)
  <1> DEFINE d == input.duration
             Offer(s, date) == BookableSlots(input, s, date, n, existing)
             Near(date) == input.maxAdvance = 0 \/ date <= DateOf(n) + input.maxAdvance
             Shut(date) == input.hours[date] = Closed \/ date \in input.blackouts
  <1>1. DOMAIN input.windows = Staff
    BY InputAssumption
  <1>2. ASSUME NEW date \in Dates, NEW s \in Staff, ~Shut(date), Near(date), date \notin input.off[s]
        PROVE  StaffSlots(input, s, date, n, existing) = Offer(s, date)
    <2> DEFINE starts == UNION {StartsIn(EffectiveWindow(date, input.hours[date], w),
                                         input.duration, input.buffer) :
                                  w \in input.windows[s][date]}
    <2>1. StaffSlots(input, s, date, n, existing)
            = {SlotFrom(s, m, d) : m \in {t \in Times(date) \cap starts :
                 /\ LeadTimeMet(t, input.lead, n)
                 /\ ~HasConflict(s, t, t + d, existing)}}
      BY DEF StaffSlots, SlotFrom
    <2>2. \A t : t \in starts <=> \E w \in input.windows[s][date] :
            t \in StartsIn(EffectiveWindow(date, input.hours[date], w), input.duration, input.buffer)
      OBVIOUS
    <2> HIDE DEF starts
    <2>3. \A t : Bookable(input, s, date, n, existing, t)
                   <=> /\ t \in starts /\ LeadTimeMet(t, input.lead, n)
                       /\ ~HasConflict(s, t, t + d, existing)
      BY <1>2, <2>2 DEF Bookable
    <2>4. {t \in Times(date) \cap starts : /\ LeadTimeMet(t, input.lead, n)
                                           /\ ~HasConflict(s, t, t + d, existing)}
            = {t \in Times(date) : Bookable(input, s, date, n, existing, t)}
      BY <2>3
    <2> QED
      BY <2>1, <2>4 DEF BookableSlots
  <1>3. ASSUME NEW date \in Dates, NEW s \in Staff,
               Shut(date) \/ ~Near(date) \/ date \in input.off[s]
        PROVE  Offer(s, date) = {}
    BY <1>3 DEF Bookable, BookableSlots
  <1> HIDE DEF Offer, Near
  <1>4. ASSUME NEW date \in Dates, Near(date)
        PROVE  SlotsForDate(input, date, n, existing) = UNION {Offer(s, date) : s \in Staff}
    <2>1. CASE Shut(date)
      <3>1. SlotsForDate(input, date, n, existing) = {}
        BY <2>1 DEF SlotsForDate
      <3> QED
        BY <1>3, <2>1, <3>1
    <2>2. CASE ~Shut(date)
      <3>1. SlotsForDate(input, date, n, existing)
              = UNION {StaffSlots(input, s, date, n, existing) :
                         s \in {x \in Staff : date \notin input.off[x]}}
        BY <1>1, <2>2 DEF SlotsForDate
      <3> HIDE DEF Shut
      <3>2. \A s \in {x \in Staff : date \notin input.off[x]} :
              StaffSlots(input, s, date, n, existing) = Offer(s, date)
        BY <1>2, <1>4, <2>2
      <3>3. \A s \in Staff : date \in input.off[s] => Offer(s, date) = {}
        BY <1>3
      <3>4. UNION {StaffSlots(input, s, date, n, existing) :
                     s \in {x \in Staff : date \notin input.off[x]}}
              = UNION {Offer(s, date) : s \in {x \in Staff : date \notin input.off[x]}}
        BY <3>2
      <3>5. UNION {Offer(s, date) : s \in {x \in Staff : date \notin input.off[x]}}
              = UNION {Offer(s, date) : s \in Staff}
        BY <3>3
      <3> QED
        BY <3>1, <3>4, <3>5
    <2> QED
      BY <2>1, <2>2
  <1> HIDE DEF Shut
  <1>5. \A x : x \in SlotsForDates(input, Dates, n, existing)
               <=> \E date \in {z \in Dates : Near(z)} : x \in SlotsForDate(input, date, n, existing)
    BY DEF SlotsForDates, Near
  <1>6. ASSUME NEW x, NEW date \in Dates, Near(date), x \in SlotsForDate(input, date, n, existing)
        PROVE  \E s \in Staff : x \in Offer(s, date)
    BY <1>4, <1>6
  <1>7. ASSUME NEW x, NEW s \in Staff, NEW date \in Dates, x \in Offer(s, date)
        PROVE  Near(date) /\ x \in SlotsForDate(input, date, n, existing)
    <2>1. Near(date)
      BY <1>3, <1>7
    <2> QED
      BY <1>4, <1>7, <2>1
  <1>8. \A x : x \in SlotsForDates(input, Dates, n, existing)
               <=> \E s \in Staff, date \in Dates : x \in Offer(s, date)
    BY <1>5, <1>6, <1>7
  <1> QED
    BY <1>8 DEF Offer

LEMMA SlotsAreFree ==
  ASSUME NEW page, page.input \in Inputs, page.at \in Nat, page.existing \subseteq ProperWindow
  PROVE  \A x : x \in SlotsForDates(page.input, Dates, page.at, page.existing)
                 <=> \E s \in Staff, date \in Dates : x \in FreeSlots(page, s, date)
  <1>1. ASSUME NEW s \in Staff, NEW date \in Dates
        PROVE  BookableSlots(page.input, s, date, page.at, page.existing)
                 = FreeSlots(page, s, date)
    <2> DEFINE B == {t \in Times(date) : Bookable(page.input, s, date, page.at, page.existing, t)}
               F == {t \in Times(date) : \E w \in page.input.windows[s][date] :
                                           IsFreeSlot(page, s, date, w, t)}
    <2>1. Times(date) \subseteq Nat
      BY BookingAssumption, DayAssumption DEF Times
    <2>2. B = F
      BY <2>1, BookableIsFree
    <2>3. /\ BookableSlots(page.input, s, date, page.at, page.existing)
               = {SlotFrom(s, m, page.input.duration) : m \in B}
          /\ FreeSlots(page, s, date) = {SlotFrom(s, m, page.input.duration) : m \in F}
      BY DEF BookableSlots, FreeSlots
    <2> HIDE DEF B, F
    <2> QED
      BY <2>2, <2>3
  <1> QED
    BY <1>1, SlotsAreBookable

-----------------------------------------------------------------------------
(* What a page shows and what it remembers.                                *)

WindowOf(b) == [staff |-> b.staff, start |-> b.start, end |-> b.end]

(* An open page was computed from the bookings that held their time when it
   was opened: of those recorded by then, the ones that still hold theirs.  *)
PageIsRecord(page) ==
  /\ page.input \in Inputs /\ page.at \in Nat
  /\ page.slots = SlotsForDates(page.input, Dates, page.at, page.existing)
  /\ page.seen \in 0..Len(bookings)
  /\ \A i \in DOMAIN bookings :
       i <= page.seen /\ bookings[i].tenant = page.tenant /\ HoldsTime(bookings[i])
         => WindowOf(bookings[i]) \in page.existing

PagesAreRecords == \A c \in Customers : pages[c].open => PageIsRecord(pages[c])

LEMMA RecordKept ==
  ASSUME NEW page, PageIsRecord(page), BookingTypeOK, BookingTypeOK',
         DOMAIN bookings \subseteq DOMAIN bookings',
         \A i \in DOMAIN bookings : /\ bookings'[i].tenant = bookings[i].tenant
                                    /\ WindowOf(bookings'[i]) = WindowOf(bookings[i])
                                    /\ HoldsTime(bookings'[i]) => HoldsTime(bookings[i])
  PROVE  PageIsRecord(page)'
  <1>1. Len(bookings) \in Nat /\ Len(bookings') \in Nat
        /\ DOMAIN bookings = 1..Len(bookings) /\ DOMAIN bookings' = 1..Len(bookings')
    BY DEF BookingTypeOK
  <1>2. Len(bookings) <= Len(bookings')
    <2>1. CASE Len(bookings) = 0
      BY <1>1, <2>1
    <2>2. CASE Len(bookings) # 0
      <3>1. Len(bookings) \in DOMAIN bookings'
        BY <1>1, <2>2
      <3> QED
        BY <1>1, <3>1
    <2> QED
      BY <2>1, <2>2
  <1>3. page.seen \in 0..Len(bookings')
    BY <1>1, <1>2 DEF PageIsRecord
  <1>4. ASSUME NEW i \in DOMAIN bookings', i <= page.seen,
               bookings'[i].tenant = page.tenant, HoldsTime(bookings'[i])
        PROVE  WindowOf(bookings'[i]) \in page.existing
    <2>1. i \in DOMAIN bookings
      BY <1>1, <1>4 DEF PageIsRecord
    <2> QED
      BY <1>4, <2>1 DEF PageIsRecord
  <1> QED
    BY <1>3, <1>4 DEF PageIsRecord, HoldsTime, WindowOf

(* Every step leaves the recorded bookings as they are, but for some that give
   their time up, and every page but one that is opened.                   *)
BookingsGoOn ==
  /\ DOMAIN bookings \subseteq DOMAIN bookings'
  /\ \A i \in DOMAIN bookings : /\ bookings'[i].tenant = bookings[i].tenant
                                /\ WindowOf(bookings'[i]) = WindowOf(bookings[i])
                                /\ HoldsTime(bookings'[i]) => HoldsTime(bookings[i])

LEMMA GoesOn ==
  ASSUME BookingTypeOK, [BookingNext]_bookingVars
  PROVE  /\ BookingsGoOn
         /\ \/ UNCHANGED pages
            \/ \E c \in Customers, t \in Tenants, input \in Inputs : OpenPage(c, t, input)
  <1>1. ASSUME NEW t \in Tenants, NEW s \in Staff, NEW b \in Nat, NEW e \in Nat,
               NEW existing, CreateBooking(t, s, b, e, existing)
        PROVE  BookingsGoOn /\ UNCHANGED pages
    <2>1. /\ DOMAIN bookings \subseteq DOMAIN bookings'
          /\ \A i \in DOMAIN bookings : bookings'[i] = bookings[i]
      BY <1>1, Created
    <2> QED
      BY <1>1, <2>1 DEF CreateBooking, BookingsGoOn
  <1>2. ASSUME NEW i \in DOMAIN bookings, NEW target \in Status,
               TransitionBookingStatus(i, target)
        PROVE  BookingsGoOn /\ UNCHANGED pages
    <2>1. DOMAIN bookings' = DOMAIN bookings
      BY <1>2, Moved
    <2> QED
      BY <1>2, <2>1, MovedFields DEF TransitionBookingStatus, BookingsGoOn, WindowOf
  <1>3. UNCHANGED bookings => BookingsGoOn
    BY DEF BookingsGoOn
  <1>4. Tick => UNCHANGED <<bookings, pages>>
    BY DEF Tick
  <1>5. ASSUME NEW c \in Customers, NEW t \in Tenants, NEW input \in Inputs, OpenPage(c, t, input)
        PROVE  BookingsGoOn
    BY <1>3, <1>5 DEF OpenPage
  <1>6. UNCHANGED bookingVars => UNCHANGED <<bookings, pages>>
    BY DEF bookingVars
  <1> QED
    BY <1>1, <1>2, <1>3, <1>4, <1>5, <1>6, StepKinds

LEMMA RecordsStep ==
  ASSUME BookingTypeOK, PagesAreRecords, [BookingNext]_bookingVars
  PROVE  PagesAreRecords'
  <1>1. BookingTypeOK' /\ BookingsGoOn
    BY TypeStep, GoesOn
  <1>2. ASSUME NEW page, PageIsRecord(page)
        PROVE  PageIsRecord(page)'
    BY <1>1, <1>2, RecordKept DEF BookingsGoOn
  <1>3. CASE UNCHANGED pages
    <2> SUFFICES ASSUME NEW c \in Customers, pages[c].open
                 PROVE  PageIsRecord(pages[c])'
      BY <1>3 DEF PagesAreRecords
    <2>1. PICK page : page = pages[c]
      OBVIOUS
    <2>2. PageIsRecord(page)'
      BY <1>2, <2>1 DEF PagesAreRecords
    <2> QED
      BY <1>3, <2>1, <2>2 DEF PageIsRecord
  <1>4. ASSUME NEW c \in Customers, NEW t \in Tenants, NEW input \in Inputs,
               OpenPage(c, t, input)
        PROVE  PagesAreRecords'
    <2> DEFINE old  == Active(t)
               page == [open |-> TRUE, tenant |-> t, input |-> input, at |-> now,
                        seen |-> Len(bookings), existing |-> old,
                        slots |-> SlotsForDates(input, Dates, now, old)]
    <2>1. \A i \in DOMAIN bookings :
            bookings[i].tenant = t /\ HoldsTime(bookings[i]) => WindowOf(bookings[i]) \in old
      BY DEF Active, HoldsTime, WindowOf
    <2>2. Len(bookings) \in Nat /\ now \in Nat
      BY DEF BookingTypeOK
    <2>3. pages' = [pages EXCEPT ![c] = page] /\ DOMAIN pages = Customers
      BY <1>4 DEF OpenPage, BookingTypeOK
    <2> HIDE DEF old
    <2>4. PageIsRecord(page)
      <3>1. /\ page.input = input /\ page.at = now /\ page.existing = old /\ page.tenant = t
            /\ page.seen = Len(bookings) /\ page.slots = SlotsForDates(input, Dates, now, old)
        OBVIOUS
      <3> HIDE DEF page
      <3> QED
        BY <2>1, <2>2, <3>1 DEF PageIsRecord
    <2> HIDE DEF page
    <2> SUFFICES ASSUME NEW d \in Customers, pages'[d].open
                 PROVE  PageIsRecord(pages[d])'
      BY DEF PagesAreRecords
    <2>5. PICK shown : shown = pages'[d]
      OBVIOUS
    <2>6. PageIsRecord(shown)
      <3>1. CASE d = c
        BY <2>3, <2>4, <2>5, <3>1
      <3>2. CASE d # c
        BY <2>3, <2>5, <3>2 DEF PagesAreRecords
      <3> QED
        BY <3>1, <3>2
    <2>7. PageIsRecord(shown)'
      BY <1>2, <2>6
    <2> QED
      BY <2>5, <2>7 DEF PageIsRecord
  <1> QED
    BY <1>3, <1>4, GoesOn

LEMMA RecordsInit == BookingInit => PagesAreRecords
  BY DEF BookingInit, PagesAreRecords, NoPage

LEMMA RecordsStay == BookingSpec => [](BookingTypeOK /\ PagesAreRecords)
  <1>1. BookingTypeOK /\ PagesAreRecords /\ [BookingNext]_bookingVars
          => (BookingTypeOK /\ PagesAreRecords)'
    BY TypeStep, RecordsStep
  <1> QED
    BY InitHolds, RecordsInit, <1>1, PTL DEF BookingSpec

(* No slot that is computed meets a booking it was computed from. *)
LEMMA SlotsMeetNothing ==
  ASSUME NEW input \in Inputs, NEW n, NEW existing,
         NEW slot \in SlotsForDates(input, Dates, n, existing)
  PROVE  ~HasConflict(slot.staff, slot.start, slot.end, existing)
  <1>1. PICK s \in Staff, date \in Dates : slot \in BookableSlots(input, s, date, n, existing)
    BY SlotsAreBookable
  <1>2. PICK m \in Times(date) :
          slot = SlotFrom(s, m, input.duration) /\ Bookable(input, s, date, n, existing, m)
    BY <1>1 DEF BookableSlots
  <1> QED
    BY <1>2 DEF Bookable, SlotFrom

LEMMA OffersOfRecords ==
  BookingTypeOK /\ PagesAreRecords => OffersAreLostToOthersOnly
  <1> SUFFICES ASSUME BookingTypeOK, PagesAreRecords, NEW c \in Customers, pages[c].open,
                      NEW slot \in pages[c].slots,
                      Conflicts(pages[c].tenant, slot.staff, slot.start, slot.end)
               PROVE  \E i \in pages[c].seen + 1..Len(bookings) :
                        /\ bookings[i].tenant = pages[c].tenant
                        /\ bookings[i].staff = slot.staff
                        /\ bookings[i].start < slot.end /\ slot.start < bookings[i].end
    BY DEF OffersAreLostToOthersOnly
  <1>1. PageIsRecord(pages[c])
    BY DEF PagesAreRecords
  <1>2. PICK i \in DOMAIN bookings :
          /\ bookings[i].tenant = pages[c].tenant /\ bookings[i].staff = slot.staff
          /\ HoldsTime(bookings[i])
          /\ slot.start < bookings[i].end /\ slot.end > bookings[i].start
    BY DEF Conflicts, HoldsTime
  <1>3. ~(i <= pages[c].seen)
    <2> SUFFICES ASSUME i <= pages[c].seen
                 PROVE  FALSE
      OBVIOUS
    <2>1. WindowOf(bookings[i]) \in pages[c].existing
      BY <1>1, <1>2 DEF PageIsRecord
    <2>2. HasConflict(slot.staff, slot.start, slot.end, pages[c].existing)
      BY <1>2, <2>1 DEF HasConflict, WindowOf
    <2>3. ~HasConflict(slot.staff, slot.start, slot.end, pages[c].existing)
      BY <1>1, SlotsMeetNothing DEF PageIsRecord
    <2> QED
      BY <2>2, <2>3
  <1>4. slot.start \in Nat /\ slot.end \in Nat
    BY DEF BookingTypeOK, Window
  <1>5. i \in pages[c].seen + 1..Len(bookings)
    BY <1>1, <1>3 DEF PageIsRecord, BookingTypeOK
  <1> QED
    BY <1>2, <1>4, <1>5, BookingAt

(* A slot on a page can be booked unless a booking came after the page was
   opened: nothing of the page's own computation is refused by the repository. *)
THEOREM OffersStayBookable == BookingSpec => []OffersAreLostToOthersOnly
  BY RecordsStay, OffersOfRecords, PTL

-----------------------------------------------------------------------------
(* The slots of a page are the free ones, where nobody asks for a window that
   ends before it starts.                                                  *)

ProperRequests == \A w \in Requests : w[1] < w[2]

BookingsAreProper == \A i \in DOMAIN bookings : bookings[i].start < bookings[i].end

PagesAreProper == \A c \in Customers : pages[c].open => pages[c].existing \subseteq ProperWindow

LEMMA SlotsAreProper ==
  ASSUME NEW input \in Inputs, NEW n, NEW existing,
         NEW slot \in SlotsForDates(input, Dates, n, existing)
  PROVE  slot.start < slot.end
  <1>1. PICK s \in Staff, date \in Dates : slot \in BookableSlots(input, s, date, n, existing)
    BY SlotsAreBookable
  <1>2. PICK m \in Times(date) : slot = SlotFrom(s, m, input.duration)
    BY <1>1 DEF BookableSlots
  <1>3. m \in Int /\ input.duration \in Nat \ {0}
    BY BookingAssumption, DayAssumption, InputAssumption DEF Times
  <1> QED
    BY <1>2, <1>3 DEF SlotFrom

(* A step that adds a booking adds one with a proper window. *)
LEMMA AddsProper ==
  ASSUME ProperRequests, BookingTypeOK, PagesAreRecords, BookingNext, ~UNCHANGED bookings
  PROVE  \/ \E t \in Tenants, s \in Staff, b \in Nat, e \in Nat :
              b < e /\ \E existing : CreateBooking(t, s, b, e, existing)
         \/ \E i \in DOMAIN bookings, target \in Status : TransitionBookingStatus(i, target)
  <1>1. ASSUME NEW c \in Customers, BookFromPage(c)
        PROVE  \E t \in Tenants, s \in Staff, b \in Nat, e \in Nat :
                 b < e /\ \E existing : CreateBooking(t, s, b, e, existing)
    <2>1. PICK slot \in pages[c].slots, existing \in {pages[c].existing, {}} :
            CreateBooking(pages[c].tenant, slot.staff, slot.start, slot.end, existing)
      BY <1>1 DEF BookFromPage
    <2>2. /\ pages[c].tenant \in Tenants
          /\ slot.staff \in Staff /\ slot.start \in Nat /\ slot.end \in Nat
      BY <1>1 DEF BookFromPage, BookingTypeOK, Window
    <2>3. slot.start < slot.end
      BY <1>1, SlotsAreProper DEF BookFromPage, PagesAreRecords, PageIsRecord
    <2> QED
      BY <2>1, <2>2, <2>3
  <1>2. ASSUME BookWindow
        PROVE  \E t \in Tenants, s \in Staff, b \in Nat, e \in Nat :
                 b < e /\ \E existing : CreateBooking(t, s, b, e, existing)
    <2>1. PICK t \in Tenants, s \in Staff, w \in Requests : CreateBooking(t, s, w[1], w[2], {})
      BY <1>2 DEF BookWindow
    <2>2. w[1] \in Nat /\ w[2] \in Nat /\ w[1] < w[2]
      BY BookingAssumption DEF ProperRequests
    <2> QED
      BY <2>1, <2>2
  <1>3. ASSUME NEW i \in DOMAIN bookings,
               \/ \E target \in Status : TransitionBookingStatus(i, target)
               \/ \E f \in FreeWindows, late \in BOOLEAN : CancelBooking(i, f, late)
               \/ AdminCancelBooking(i)
        PROVE  \E target \in Status : TransitionBookingStatus(i, target)
    BY <1>3 DEF CancelBooking, AdminCancelBooking, Status
  <1>4. Tick => UNCHANGED bookings
    BY DEF Tick
  <1>5. \A c \in Customers, t \in Tenants, input \in Inputs :
          OpenPage(c, t, input) => UNCHANGED bookings
    BY DEF OpenPage
  <1> QED
    BY <1>1, <1>2, <1>3, <1>4, <1>5 DEF BookingNext

LEMMA ProperStep ==
  ASSUME ProperRequests, BookingTypeOK, PagesAreRecords, BookingsAreProper, PagesAreProper,
         [BookingNext]_bookingVars
  PROVE  BookingsAreProper' /\ PagesAreProper'
  <1>1. BookingsAreProper'
    <2>1. CASE UNCHANGED bookings
      BY <2>1 DEF BookingsAreProper
    <2>2. ASSUME NEW t \in Tenants, NEW s \in Staff, NEW b \in Nat, NEW e \in Nat, b < e,
                 NEW existing, CreateBooking(t, s, b, e, existing)
          PROVE  BookingsAreProper'
      <3>1. /\ DOMAIN bookings' = DOMAIN bookings \cup {Len(bookings) + 1}
            /\ \A i \in DOMAIN bookings : bookings'[i] = bookings[i]
            /\ bookings'[Len(bookings) + 1] =
                 [tenant |-> t, staff |-> s, start |-> b, end |-> e, status |-> "requested"]
        BY <2>2, Created
      <3> QED
        BY <2>2, <3>1 DEF BookingsAreProper
    <2>3. ASSUME NEW i \in DOMAIN bookings, NEW target \in Status,
                 TransitionBookingStatus(i, target)
          PROVE  BookingsAreProper'
      <3>1. DOMAIN bookings' = DOMAIN bookings
        BY <2>3, Moved
      <3> QED
        BY <2>3, <3>1, MovedFields DEF BookingsAreProper
    <2> QED
      BY <2>1, <2>2, <2>3, AddsProper DEF bookingVars
  <1>2. PagesAreProper'
    <2>1. CASE UNCHANGED pages
      BY <2>1 DEF PagesAreProper
    <2>2. ASSUME NEW c \in Customers, NEW t \in Tenants, NEW input \in Inputs,
                 OpenPage(c, t, input)
          PROVE  PagesAreProper'
      <3>1. Active(t) \subseteq ProperWindow
        <4>1. ASSUME NEW i \in DOMAIN bookings
              PROVE  WindowOf(bookings[i]) \in ProperWindow
          <5>1. bookings[i] \in Booking
            BY BookingAt
          <5> QED
            BY <5>1 DEF BookingsAreProper, ProperWindow, Window, WindowOf, Booking
        <4> QED
          BY <4>1 DEF Active, WindowOf
      <3>2. ASSUME NEW d \in Customers, d # c
            PROVE  pages'[d] = pages[d]
        BY <2>2, <3>2 DEF OpenPage, BookingTypeOK
      <3>3. pages'[c].existing = Active(t)
        BY <2>2 DEF OpenPage, BookingTypeOK
      <3> QED
        BY <3>1, <3>2, <3>3 DEF PagesAreProper
    <2> QED
      BY <2>1, <2>2, GoesOn
  <1> QED
    BY <1>1, <1>2

LEMMA FreeSlotsOfRecords ==
  BookingTypeOK /\ PagesAreRecords /\ PagesAreProper => PagesShowTheFreeSlots
  <1> SUFFICES ASSUME BookingTypeOK, PagesAreRecords, PagesAreProper, NEW c \in Customers,
                      pages[c].open
               PROVE  pages[c].slots =
                 UNION {{[staff |-> s, start |-> m, end |-> m + pages[c].input.duration] :
                          m \in {t \in Times(date) :
                                   \E w \in pages[c].input.windows[s][date] :
                                     IsFreeSlot(pages[c], s, date, w, t)}} :
                        s \in Staff, date \in Dates}
    BY DEF PagesShowTheFreeSlots
  <1>1. PICK page : page = pages[c]
    OBVIOUS
  <1>2. PageIsRecord(page) /\ page.existing \subseteq ProperWindow
    BY <1>1 DEF PagesAreRecords, PagesAreProper
  <1>3. \A x : x \in page.slots <=> \E s \in Staff, date \in Dates : x \in FreeSlots(page, s, date)
    BY <1>2, SlotsAreFree DEF PageIsRecord
  <1>4. page.slots = UNION {FreeSlots(page, s, date) : s \in Staff, date \in Dates}
    BY <1>3
  <1> QED
    BY <1>1, <1>4 DEF FreeSlots, SlotFrom

(* The slots on a page are exactly the free ones, moment by moment, if nobody
   books a window that ends before it starts.                              *)
THEOREM PagesAlwaysFree == ProperRequests => (BookingSpec => []PagesShowTheFreeSlots)
  <1> SUFFICES ASSUME ProperRequests
               PROVE  BookingSpec => []PagesShowTheFreeSlots
    OBVIOUS
  <1> DEFINE IInv == BookingTypeOK /\ PagesAreRecords /\ BookingsAreProper /\ PagesAreProper
  <1>1. BookingInit => IInv
    <2>1. BookingInit => BookingsAreProper /\ PagesAreProper
      BY DEF BookingInit, BookingsAreProper, PagesAreProper, NoPage
    <2> QED
      BY <2>1, InitHolds, RecordsInit
  <1>2. IInv /\ [BookingNext]_bookingVars => IInv'
    <2>1. ASSUME IInv, [BookingNext]_bookingVars
          PROVE  IInv'
      BY <2>1, TypeStep, RecordsStep, ProperStep
    <2> QED
      BY <2>1
  <1>3. IInv => PagesShowTheFreeSlots
    BY FreeSlotsOfRecords
  <1> QED
    BY <1>1, <1>2, <1>3, PTL DEF BookingSpec
=============================================================================
