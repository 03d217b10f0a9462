-------------------------- MODULE SlotComputation ---------------------------
(***************************************************************************)
(* SlotComputationService: the slots a service can be booked in, from the  *)
(* opening hours, the staff's schedules and blackouts, the bookings that   *)
(* exist and the lead time.                                                *)
(*                                                                         *)
(* Times count from the first day and a day has DayLength of them, so the  *)
(* ISO strings the service compares are in the order of their times.       *)
(***************************************************************************)
EXTENDS Integers

CONSTANTS DayLength

ASSUME DayAssumption == DayLength \in Nat \ {0}

Closed == [isClosed |-> TRUE]

DateOf(t) == t \div DayLength

(* An availability input is a record of
     hours       for each date, a window [open, close] or Closed
     blackouts   dates on which the location is closed all the same
     windows     for each member of staff and date, the set of their windows
     off         for each member of staff, the dates they are away
     duration, buffer, lead, maxAdvance   of the service.                  *)

(* hasConflict: half-open windows of one member of staff meet.             *)
HasConflict(staff, start, end, existing) ==
  \E b \in existing : b.staff = staff /\ start < b.end /\ end > b.start

(* The common part of opening hours and working hours, on the time line.   *)
EffectiveWindow(date, hours, window) ==
  LET later   == IF hours.open > window.open THEN hours.open ELSE window.open
      earlier == IF hours.close < window.close THEN hours.close ELSE window.close
  IN  [open  |-> date * DayLength + later, close |-> date * DayLength + earlier]

(* Mutant: the next slot does not wait for the buffer.                     *)
StartsIn_NoBuffer(window, duration, buffer) ==
  LET From[s \in Nat] ==
        IF s + duration <= window.close THEN {s} \cup From[s + duration] ELSE {}
  IN  From[window.open]

(* The starts the loop of generateSlotsInWindow goes through.              *)
StartsIn(window, duration, buffer) ==
  LET From[s \in Nat] ==
        IF s + duration <= window.close
        THEN {s} \cup From[s + duration + buffer] ELSE {}
  IN  From[window.open]

(* Without a lead time the moment of the request does not count at all.    *)
LeadTimeMet(start, lead, now) == lead = 0 \/ start >= now + lead

Times(date) == date * DayLength..(date + 1) * DayLength

(* Mutant: bookings are not looked at.                                     *)
StaffSlots_IgnoreBookings(input, staff, date, now, existing) ==
  LET starts == UNION {StartsIn(EffectiveWindow(date, input.hours[date], w),
                                input.duration, input.buffer) :
                         w \in input.windows[staff][date]}
  IN  {[staff |-> staff, start |-> s, end |-> s + input.duration] :
         s \in {t \in Times(date) \cap starts :
                  LeadTimeMet(t, input.lead, now)}}

(* computeStaffSlotsForDate: those starts of all shifts that keep the lead
   time and meet no booking.                                               *)
StaffSlots(input, staff, date, now, existing) ==
  LET starts == UNION {StartsIn(EffectiveWindow(date, input.hours[date], w),
                                input.duration, input.buffer) :
                         w \in input.windows[staff][date]}
  IN  {[staff |-> staff, start |-> s, end |-> s + input.duration] :
         s \in {t \in Times(date) \cap starts :
                  /\ LeadTimeMet(t, input.lead, now)
                  /\ ~HasConflict(staff, t, t + input.duration, existing)}}

(* computeSlotsForDate                                                     *)
SlotsForDate(input, date, now, existing) ==
  IF input.hours[date] = Closed \/ date \in input.blackouts THEN {}
  ELSE UNION { StaffSlots(input, staff, date, now, existing) :
               staff \in {s \in DOMAIN input.windows : date \notin input.off[s]} }

(* computeSlotsForDateRange                                                *)
SlotsForDates(input, dates, now, existing) ==
  UNION { SlotsForDate(input, date, now, existing) :
          date \in {d \in dates : \/ input.maxAdvance = 0
                                  \/ d <= DateOf(now) + input.maxAdvance} }
=============================================================================
