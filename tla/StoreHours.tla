------------------------------ MODULE StoreHours ------------------------------
(***************************************************************************)
(* The working hours and the phone that has to know them.  The server      *)
(* derives from the weekly table whether the store accepts orders and when *)
(* that changes next; the phone keeps the last answer and asks again by    *)
(* itself when the moment comes, whenever the app returns to the front and *)
(* whenever the checkout gets the focus.  Answers may come late, out of    *)
(* order or not at all, and an admin may change the settings at any time.  *)
(* The clocks of phone and server agree; a tick is any unit the table is   *)
(* written in, and the phone's extra second is shorter than one.           *)
(***************************************************************************)
EXTENDS Integers, FiniteSets

CONSTANTS WeekDays,      \* days of the week: day d is followed by (d + 1) % WeekDays
          DayLength,     \* ticks of a day
          Openings,      \* the opens_at and closes_at open days are given
          DayOff,        \* the entry of a day that is not open
          NoHours,       \* working_hours is NULL
          Never,         \* next_status_change_at is NULL
          MaxAsked,      \* bound on the requests under way
          MaxDelay       \* bound on the ticks an answer is under way

(* A time of day is within the day, and what stands for the lack of an     *)
(* entry, a table or a moment is none.                                     *)
ASSUME HoursAssumption ==
    /\ WeekDays \in Nat \ {0} /\ DayLength \in Nat \ {0}
    /\ Openings \subseteq [opens : 0 .. DayLength - 1, closes : 0 .. DayLength - 1]
    /\ DayOff \notin Openings
    /\ NoHours \notin [0 .. WeekDays - 1 -> Openings \cup {DayOff}]
    /\ Never \notin Int
    /\ MaxAsked \in Nat /\ MaxDelay \in Nat

VARIABLES settings,      \* ordering_enabled and working_hours
          now,           \* ticks since the week began
          asked,         \* requests that have not reached the server
          answers,       \* answers on their way
          phone          \* the status the app holds, its timer, and what it missed

hoursVars == <<settings, now, asked, answers, phone>>

Tables == [0 .. WeekDays - 1 -> Openings \cup {DayOff}] \cup {NoHours}
Settings == [ordering : BOOLEAN, hours : Tables]

(* Day d, counted from the beginning of this week; an interval that does   *)
(* not end after it starts ends the next day.                              *)
Entry(d) == settings.hours[d % WeekDays]
Start(d) == d * DayLength + Entry(d).opens
End(d) ==
    d * DayLength + Entry(d).closes + IF Entry(d).closes <= Entry(d).opens THEN DayLength ELSE 0

Today == now \div DayLength
OpenDays == {d \in {Today - 1, Today} : Entry(d) # DayOff /\ Start(d) <= now /\ now < End(d)}

(* The days ahead are searched in order, today and this weekday's next     *)
(* occurrence included.                                                    *)
\* Mutant: the search ends a day early.
SixDaysAhead == Today .. Today + WeekDays - 1

DaysAhead == Today .. Today + WeekDays

(* evaluate_working_hours: is it open, and in how many ticks that changes. *)
EvaluateWorkingHours ==
    LET ahead == {d \in DaysAhead : Entry(d) # DayOff /\ Start(d) > now}
        first(days) == CHOOSE d \in days : \A e \in days : d <= e
    IN IF settings.hours = NoHours THEN [open |-> TRUE, next |-> Never]
       ELSE IF OpenDays # {} THEN [open |-> TRUE, next |-> End(first(OpenDays)) - now]
       ELSE [open |-> FALSE, next |-> IF ahead = {} THEN Never ELSE Start(first(ahead)) - now]

AcceptingOrders == settings.ordering /\ EvaluateWorkingHours.open
StoreStatus ==
    [accepting |-> AcceptingOrders, next |-> EvaluateWorkingHours.next, current |-> TRUE, age |-> 0]

HoursInit ==
    /\ settings \in Settings /\ now = 0
    /\ asked = 1 /\ answers = {}
    /\ phone = [accepting |-> TRUE, next |-> Never, current |-> FALSE, timer |-> FALSE, missed |-> FALSE]

(***************************************************************************)
(* The server.  An answer that was computed from settings since changed is *)
(* marked, for the property; the phone cannot tell.                        *)
(***************************************************************************)
Changed(s) ==
    /\ s # settings
    /\ settings' = s
    /\ answers' = {[a EXCEPT !.current = FALSE] : a \in answers}
    /\ phone' = [phone EXCEPT !.current = FALSE]
    /\ UNCHANGED <<now, asked>>

SetOrderingEnabled(on) == Changed([settings EXCEPT !.ordering = on])
UpdateStoreSettings(s) == Changed(s)

GetStoreStatus ==
    /\ asked > 0
    /\ asked' = asked - 1
    /\ answers' = answers \cup {StoreStatus}
    /\ UNCHANGED <<settings, now, phone>>

(***************************************************************************)
(* The phone.                                                              *)
(***************************************************************************)
Outstanding == asked + Cardinality(answers)
TimerDue == phone.timer /\ phone.next # Never /\ phone.next <= 0

Refresh ==
    /\ Outstanding < MaxAsked
    /\ asked' = asked + 1
    /\ UNCHANGED <<settings, now, answers, phone>>

TimerFires ==
    /\ TimerDue /\ Outstanding < MaxAsked
    /\ asked' = asked + 1
    /\ phone' = [phone EXCEPT !.timer = FALSE]
    /\ UNCHANGED <<settings, now, answers>>

(* The answer is stored.  When it names another moment than the one before *)
(* the timer is set anew, or the app asks again at once if it has passed.  *)
StatusArrives(a) ==
    LET same == a.next = phone.next
        passed == a.next # Never /\ a.next <= 0
    IN /\ answers' = answers \ {a}
       /\ asked' = asked + IF ~same /\ passed THEN 1 ELSE 0
       /\ phone' = [accepting |-> a.accepting, next |-> a.next, current |-> a.current,
                    missed |-> phone.missed /\ passed,
                    timer |-> IF same THEN phone.timer ELSE a.next # Never /\ ~passed]
       /\ UNCHANGED <<settings, now>>

StatusLost(a) ==
    /\ answers' = answers \ {a}
    /\ phone' = [phone EXCEPT !.missed = TRUE]
    /\ UNCHANGED <<settings, now, asked>>

Sooner(next) == IF next = Never THEN Never ELSE IF next < -MaxDelay THEN next ELSE next - 1

HoursTick ==
    /\ ~TimerDue
    /\ \A a \in answers : a.age < MaxDelay
    /\ now' = (now + 1) % (WeekDays * DayLength)
    /\ answers' = {[a EXCEPT !.next = Sooner(@), !.age = @ + 1] : a \in answers}
    /\ phone' = [phone EXCEPT !.next = Sooner(@)]
    /\ UNCHANGED <<settings, asked>>

HoursNext ==
    \/ \E on \in BOOLEAN : SetOrderingEnabled(on)
    \/ \E s \in Settings : UpdateStoreSettings(s)
    \/ GetStoreStatus \/ Refresh \/ TimerFires \/ HoursTick
    \/ \E a \in answers : StatusArrives(a) \/ StatusLost(a)

HoursSpec == HoursInit /\ [][HoursNext]_hoursVars

(* The phone knows whether the store accepts orders, at every moment and   *)
(* without anybody touching it: with no answer on its way or lost, and no  *)
(* change of the settings since the last, what it shows is what the server *)
(* would say now, across openings, closings, midnight and days off.        *)
PhoneFollowsHours ==
    Outstanding = 0 /\ phone.current /\ ~phone.missed /\ ~TimerDue =>
        phone.accepting = AcceptingOrders
=============================================================================
