---------------------------- MODULE DueDates ----------------------------
(* The calendar of a payment: AdminCreatePaymentRequest reads a date, checks *)
(* it against today and stores the end of that day; pages, the sweep, the    *)
(* transfer engine and the admin's table compare that instant with their     *)
(* clocks or show its date. An instant is a second of UTC and a day of UTC   *)
(* has DayLength of them (86400 in the code). The server's zone is ahead of  *)
(* UTC by some of them, and puts its clock forward or back during one day.   *)
EXTENDS Integers

CONSTANTS
    Bills,       \* forms sent, and the payments they create
    DayLength,   \* seconds of a day
    Zones,       \* the zones the server may be in
    Dates,       \* days an admin may write
    LastInstant  \* bound: the clock stops here

ASSUME CalendarAssumption ==
    /\ DayLength \in Nat \ {0, 1}
    /\ Zones \subseteq [before : (1 - DayLength) .. (DayLength - 1),
                        after : (1 - DayLength) .. (DayLength - 1), change : Int]
    /\ \A z \in Zones : z.after - z.before < DayLength
    /\ Dates \subseteq Int
    /\ LastInstant \in Nat

VARIABLES
    zone,     \* time.Local: its offset before and after the day of the change
    instant,  \* the instant, in UTC
    bill      \* per payment: its status, the date asked, when, and due_date

calendarVars == <<zone, instant, bill>>

-----------------------------------------------------------------------------
(* time.Date(.., 0, 0, 0, 0, now.Location()): the offset is the one of that  *)
(* midnight.                                                                 *)
Midnight(day) ==
    day * DayLength - (IF day <= zone.change THEN zone.before ELSE zone.after)

(* The date of an instant; the clock is changed within a day, not at the end.*)
LocalDay(t) ==
    IF t >= Midnight(zone.change + 1) THEN (t + zone.after) \div DayLength
    ELSE IF (t + zone.before) \div DayLength <= zone.change
         THEN (t + zone.before) \div DayLength ELSE zone.change

(* formatDate: t.Local().Format("2006-01-02"). *)
formatDate(t) == LocalDay(t)

(* time.Parse has no zone to go by, so it takes UTC. *)
Parsed(date) == date * DayLength

Unsent == [status |-> "unsent", date |-> 0, at |-> 0, due |-> 0]

CalendarInit ==
    /\ zone \in Zones
    /\ instant = 0
    /\ bill = [p \in Bills |-> Unsent]

(* Slip: midnight of UTC's today is compared. *)
InPastOfUTC(date) == Parsed(date) < (instant \div DayLength) * DayLength

InPast(date) == Parsed(date) < Midnight(LocalDay(instant))

(* Slip: a day is taken to be 24 hours long. *)
EndAfterFullDay(date) == Midnight(date) + DayLength - 1

(* 23:59:59 of the date in the server's zone. *)
EndOfDay(date) == Midnight(date + 1) - 1

RefuseDate(p, date) ==
    /\ bill[p].status = "unsent"
    /\ InPast(date)
    /\ bill' = [bill EXCEPT ![p] = [Unsent EXCEPT !.status = "refused",
                                                  !.date = date, !.at = instant]]
    /\ UNCHANGED <<zone, instant>>

AdminCreatePaymentRequest(p, date) ==
    /\ bill[p].status = "unsent"
    /\ ~InPast(date)
    /\ bill' = [bill EXCEPT ![p] = [status |-> "PENDING", date |-> date, at |-> instant,
                                    due |-> EndOfDay(date)]]
    /\ UNCHANGED <<zone, instant>>

(* A page compares clocks finer than a second: within the last second of the *)
(* day the due date has passed already, except at its very start.            *)
PassedForPage(p) == instant >= bill[p].due

(* SQL compares the seconds of CURRENT_TIMESTAMP: due_date < now. *)
PassedForSweep(p) == instant > bill[p].due

Expire(p, from) ==
    /\ bill[p].status = from
    /\ bill' = [bill EXCEPT ![p].status = "EXPIRED"]
    /\ UNCHANGED <<zone, instant>>

OpenPage(p) == PassedForPage(p) /\ Expire(p, "PENDING")
Sweep(p) == PassedForSweep(p) /\ Expire(p, "PENDING")

(* processOne of the transfer engine compares as the pages do. *)
ExpireTransfer(p) == PassedForPage(p) /\ Expire(p, "AWAITING_TRANSFER")

(* A page that finds the due date not passed lets the payer confirm; how     *)
(* late the confirmation may then come is the matter of RequestHandlers.     *)
Confirm(p) ==
    /\ bill[p].status = "PENDING"
    /\ ~PassedForSweep(p)
    /\ bill' = [bill EXCEPT ![p].status = "AWAITING_TRANSFER"]
    /\ UNCHANGED <<zone, instant>>

SecondPasses ==
    /\ instant < LastInstant
    /\ instant' = instant + 1
    /\ UNCHANGED <<zone, bill>>

CalendarNext ==
    \/ \E p \in Bills, date \in Dates :
         RefuseDate(p, date) \/ AdminCreatePaymentRequest(p, date)
    \/ \E p \in Bills : OpenPage(p) \/ Sweep(p) \/ ExpireTransfer(p) \/ Confirm(p)
    \/ SecondPasses

CalendarSpec == CalendarInit /\ [][CalendarNext]_calendarVars

-----------------------------------------------------------------------------
Created(p) == bill[p].status \in {"PENDING", "AWAITING_TRANSFER", "EXPIRED"}

(* Due dates are "inclusive for the full day" (admin.go:176): whatever the   *)
(* zone and however long the day its clock is changed on, a payment expires, *)
(* confirmed or not, in the last second of the day the admin wrote, as the   *)
(* server counts days, or after that day; and the pages show that day.       *)
DayIsInclusive ==
    \A p \in Bills : Created(p) =>
      /\ formatDate(bill[p].due) = bill[p].date
      /\ bill[p].status = "EXPIRED" =>
           LocalDay(instant) > bill[p].date \/ LocalDay(instant + 1) > bill[p].date

(* No payment is born overdue: the day of a request that was let through was *)
(* not over in the server's zone, whichever side of UTC it is on.            *)
NotBornOverdue ==
    \A p \in Bills : Created(p) =>
      bill[p].at <= bill[p].due /\ LocalDay(bill[p].at) <= bill[p].date

=============================================================================
