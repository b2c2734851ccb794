----------------------------- MODULE DateTimes ------------------------------
(***************************************************************************)
(* date, time, datetime and timestamp of include/MSTL/core/datetime.hpp.   *)
(* Quotients and remainders are C++'s, towards zero. The clock and the     *)
(* time zone are external: a zone is the seconds local time is ahead.      *)
(***************************************************************************)
EXTENDS Integers, FiniteSets, Sequences, SequencesExt

CONSTANTS
    Years,      \* bound: the years of the dates looked at
    Clocks,     \* bound: the times of day, in seconds
    Days,       \* bound: days added or subtracted
    Seconds,    \* bound: seconds added or subtracted
    Zones       \* seconds that local time is ahead

VARIABLE st     \* [date, time]

Quot(x, n) == IF x >= 0 THEN x \div n ELSE -((-x) \div n)
Rem(x, n)  == x - n * Quot(x, n)

-----------------------------------------------------------------------------
(* date                                                                    *)

MonthDays == <<31, 28, 31, 30, 31, 30, 31, 31, 30, 31, 30, 31>>
IsLeapYear(y) == (y % 4 = 0 /\ y % 100 # 0) \/ y % 400 = 0
GetMonthDay(y, m) == MonthDays[m] + IF m = 2 /\ IsLeapYear(y) THEN 1 ELSE 0

D(y, m, d) == [y |-> y, m |-> m, d |-> d]
Epoch == D(1970, 1, 1)
(* A date there is not becomes the epoch.                                  *)
Date(y, m, d) ==
    IF y >= 0 /\ m \in 1 .. 12 /\ d > 0 /\ (m \in 1 .. 12 => d <= GetMonthDay(y, m))
    THEN D(y, m, d) ELSE Epoch

DayOfWeek(a) ==
    LET y == IF a.m < 3 THEN a.y - 1 ELSE a.y
        m == IF a.m < 3 THEN a.m + 12 ELSE a.m
    IN  Rem(a.d + 2 * m + (3 * (m + 1)) \div 5 + y + Quot(y, 4) - Quot(y, 100) + Quot(y, 400) + 1, 7)
DayOfYear(a) == FoldLeft(LAMBDA n, m : n + GetMonthDay(a.y, m), a.d, [i \in 1 .. a.m - 1 |-> i])

DateAbove(a, b) ==
    a.y > b.y \/ (a.y = b.y /\ a.m > b.m) \/ (a.y = b.y /\ a.m = b.m /\ a.d > b.d)
DateBelow(a, b) == ~(DateAbove(a, b) \/ a = b)

RECURSIVE CarryUp(_), CarryDown(_)
CarryUp(a) ==
    LET n == GetMonthDay(a.y, a.m)
    IN  IF a.d <= n THEN a
        ELSE CarryUp(IF a.m = 12 THEN D(a.y + 1, 1, a.d - n) ELSE D(a.y, a.m + 1, a.d - n))
CarryDown(a) ==
    LET y == IF a.m = 1 THEN a.y - 1 ELSE a.y
        m == IF a.m = 1 THEN 12 ELSE a.m - 1
    IN  IF a.d > 0 THEN a ELSE CarryDown(D(y, m, a.d + GetMonthDay(y, m)))
AddDays(a, n) == IF n < 0 THEN CarryDown([a EXCEPT !.d = @ + n]) ELSE CarryUp([a EXCEPT !.d = @ + n])
SubDays(a, n) == IF n < 0 THEN CarryUp([a EXCEPT !.d = @ - n]) ELSE CarryDown([a EXCEPT !.d = @ - n])

(* The days from a to b, which the code counts one by one.                 *)
CountUp(a, b) ==
    365 * (b.y - a.y) + Cardinality({y \in a.y .. b.y - 1 : IsLeapYear(y)})
        + DayOfYear(b) - DayOfYear(a)
DateDiff(a, b) == IF DateBelow(a, b) THEN -CountUp(a, b) ELSE CountUp(b, a)

(* from_string(to_string()): four digits hold years from -999 to 9999.     *)
DateFromText(a) == IF a.y \in -999 .. 9999 THEN Date(a.y, a.m, a.d) ELSE Epoch

-----------------------------------------------------------------------------
(* time                                                                    *)

T(h, m, s) == [h |-> h, m |-> m, s |-> s]
Midnight == T(0, 0, 0)
Time(h, m, s) == IF h \in 0 .. 23 /\ m \in 0 .. 59 /\ s \in 0 .. 59 THEN T(h, m, s) ELSE Midnight
ToSeconds(t) == t.h * 3600 + t.m * 60 + t.s
TimeAbove(t, u) == t.h > u.h \/ (t.h = u.h /\ (t.m > u.m \/ (t.m = u.m /\ t.s > u.s)))

(* += and -= of any number: the loops of -= end at the remainders.         *)
AddTime(t, n) ==
    LET s == t.s + n
        m == t.m + (s \div 60)
        h == t.h + (m \div 60)
    IN  T(h % 24, m % 60, s % 60)
SubTime(t, n)  == AddTime(t, -n)
TimeDiff(t, u)  == (t.h - u.h) * 3600 + (t.m - u.m) * 60 + (t.s - u.s)

-----------------------------------------------------------------------------
(* datetime and timestamp. One day is carried at most.                     *)

DT(a, t) == [date |-> a, time |-> t]
DTAbove(x, y) == DateAbove(x.date, y.date) \/ (x.date = y.date /\ TimeAbove(x.time, y.time))

AddSeconds(x, n) ==
    LET left == 86400 - ToSeconds(x.time)
    IN  IF n < left THEN DT(x.date, AddTime(x.time, n))
        ELSE DT(AddDays(x.date, 1), AddTime(Midnight, n - left - 1 + 1))
SubSeconds_back(x, n) ==
    LET now == ToSeconds(x.time)
    IN  IF n <= now THEN DT(x.date, SubTime(x.time, n))
        ELSE DT(SubDays(x.date, 1), SubTime(T(23, 59, 59), n - now - 1))
SubSeconds(x, n) ==
    LET now == ToSeconds(x.time)
    IN  IF n < now THEN DT(x.date, SubTime(x.time, n))
        ELSE DT(SubDays(x.date, 1), SubTime(T(23, 59, 59), n - now - 1))
Plus(x, n)  == IF n < 0 THEN SubSeconds(x, -n) ELSE AddSeconds(x, n)
Minus(x, n) == IF n < 0 THEN AddSeconds(x, -n) ELSE SubSeconds(x, n)

(* The product of days and seconds is an int32_t: 67 years fit.            *)
DiffFits(x, y) == x.date.y - y.date.y \in -67 .. 67
Diff(x, y) == DateDiff(x.date, y.date) * 86400 + TimeDiff(x.time, y.time)
Origin == DT(Epoch, Midnight)
ToTimestamp(x) == Diff(x, Origin)
ToDatetime(n)  == Plus(Origin, n)

DTFromText(x) == DT(DateFromText(x.date), Time(x.time.h, x.time.m, x.time.s))

(* Local time and UTC. mktime and timegm return -1 for an error, and for   *)
(* one second before the epoch. External: Shift.                           *)
Shift(x, n) ==
    LET s == ToSeconds(x.time) + n
    IN  DT(AddDays(x.date, s \div 86400), AddTime(Midnight, s % 86400))
BeforeEpoch == Shift(Origin, -1)
Built(x) == DT(Date(x.date.y, x.date.m, x.date.d), Time(x.time.h, x.time.m, x.time.s))
FromUtc(x, zone) == IF x = BeforeEpoch THEN Origin ELSE Built(Shift(x, zone))
ToUtc(x, zone) ==
    LET u == Shift(x, -zone) IN IF u = BeforeEpoch THEN Origin ELSE Built(u)

-----------------------------------------------------------------------------

InitDates == \E y \in Years, c \in Clocks : st = DT(D(y, 1, 1), AddTime(Midnight, c))
NextDates == \E a \in {AddDays(st.date, 1)} : a.y = st.date.y /\ st' = [st EXCEPT !.date = a]

-----------------------------------------------------------------------------

(* The number of a day, by the rules of the Gregorian calendar.            *)
LeapsBefore(y) == LET p == y - 1 IN p \div 4 - p \div 100 + p \div 400
Number(a) == 365 * a.y + LeapsBefore(a.y) + DayOfYear(a)
Day(x)    == Number(x.date)
Clock(x)  == ToSeconds(x.time)
(* y is n seconds after x, n of either sign.                               *)
After(x, y, n) ==
    LET s == Clock(x) + n IN Day(y) = Day(x) + (s \div 86400) /\ Clock(y) = s % 86400
Now == Clock(st)

(* Days are added and subtracted, counted, compared and read back as the   *)
(* calendar has them; the day of the week follows from the day's number    *)
(* but in the first two months of a year before 1.                         *)
DatesSound ==
    LET a == st.date
    IN  /\ \A n \in Days :
              LET b == AddDays(a, n)
                  c == SubDays(a, n)
              IN  /\ Number(b) = Number(a) + n /\ b.d \in 1 .. GetMonthDay(b.y, b.m)
                  /\ Number(c) = Number(a) - n /\ c.d \in 1 .. GetMonthDay(c.y, c.m)
                  /\ DateDiff(b, a) = n /\ DateDiff(a, b) = -n
                  /\ DateAbove(b, a) <=> n > 0
                  /\ DateBelow(b, a) <=> n < 0
        /\ (DayOfWeek(a) = (Number(a) - 1) % 7)
              <=> ~(a.y < 0 \/ (a.y = 0 /\ a.m < 3))
        /\ (DateFromText(a) = a) <=> a.y >= 0
        /\ (Date(a.y, a.m, a.d) = a) <=> a.y >= 0

TimesSound ==
    \A n \in Seconds :
       /\ ToSeconds(AddTime(st.time, n)) = (Now + n) % 86400
       /\ ToSeconds(SubTime(st.time, n)) = (Now - n) % 86400
       /\ TimeDiff(AddTime(st.time, n), st.time) = ((Now + n) % 86400) - Now
       /\ TimeAbove(AddTime(st.time, n), st.time) <=> (Now + n) % 86400 > Now

(* A sum of seconds is right until the midnight after next: more than one  *)
(* day is never carried. So a timestamp becomes its datetime again on the  *)
(* first two days of 1970 and the one before them only. Subtracting the    *)
(* seconds since midnight, zero at midnight, goes one midnight too far.    *)
SecondsSound ==
    /\ \A n \in Seconds :
          LET y == Plus(st, n)
              z == Minus(st, n)
          IN  /\ After(st, y, n) <=> n < 2 * 86400 - Now
              /\ After(st, z, -n) <=> (n # Now /\ n <= Now + 86400)
              /\ n > 0 => Plus(st, -n) = z /\ Minus(st, -n) = y
              /\ After(st, y, n) => Diff(y, st) = n /\ (DTAbove(y, st) <=> n > 0)
    /\ DiffFits(st, Origin) =>
          LET s == ToTimestamp(st)
          IN  /\ After(Origin, st, s)
              /\ (ToDatetime(s) = st) <=> s \in -86400 .. 172799
    /\ (DTFromText(st) = st) <=> st.date.y >= 0
    /\ \A zone \in Zones :
          (FromUtc(ToUtc(st, zone), zone) = st)
             <=> (st.date.y >= 0 /\ Shift(st, -zone).date.y >= 0 /\ Shift(st, -zone) # BeforeEpoch)

DateTimesSound == DatesSound /\ TimesSound /\ SecondsSound

=============================================================================
