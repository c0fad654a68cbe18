------------------------------ MODULE Calendar ------------------------------
(***************************************************************************)
(* Dates of the proleptic Gregorian calendar in UTC (kmsrs-db/date.rs):    *)
(* conversion to and from days since 1970-01-01, and the day of the year.  *)
(* The arithmetic saturates at the edges of i32 in the code; years here    *)
(* are far from them.                                                      *)
(***************************************************************************)
EXTENDS Integers

EPOCH_SHIFT == 719468   \* days from 0000-03-01 to 1970-01-01

DAYS_PER_ERA == 146097  \* days in 400 years

is_leap_year(year) == year % 4 = 0 /\ (year % 100 # 0 \/ year % 400 = 0)

days_in_month(year, month) ==
    CASE month \in {1, 3, 5, 7, 8, 10, 12} -> 31
      [] month \in {4, 6, 9, 11} -> 30
      [] month = 2 -> IF is_leap_year(year) THEN 29 ELSE 28
      [] OTHER -> 0

Date(year, month, day) == [year |-> year, month |-> month, day |-> day]

\* Date::new answers None unless the date exists.
Exists(date) ==
    date.month \in 1..12 /\ date.day \in 1..days_in_month(date.year, date.month)

\* Days of the March-based year before its month number m, March being 0.
DaysBefore(m) == (153 * m + 2) \div 5

\* Days of the era before its year y.
YearsDays(y) == (365 * y + (y \div 4)) - (y \div 100)

days_since_epoch(date) ==
    LET year == IF date.month =< 2 THEN date.year - 1 ELSE date.year
        shifted == IF date.month > 2 THEN date.month - 3 ELSE date.month + 9
    IN  ((year \div 400) * DAYS_PER_ERA + YearsDays(year % 400)
            + DaysBefore(shifted) + date.day - 1) - EPOCH_SHIFT

from_days_since_epoch(days) ==
    LET era == (days + EPOCH_SHIFT) \div DAYS_PER_ERA
        day_of_era == (days + EPOCH_SHIFT) % DAYS_PER_ERA
        year_of_era == (((day_of_era - (day_of_era \div 1460)) + (day_of_era \div 36524))
                           - (day_of_era \div (DAYS_PER_ERA - 1))) \div 365
        day_of_year == day_of_era - YearsDays(year_of_era)
        shifted == (5 * day_of_year + 2) \div 153
        month == IF shifted < 10 THEN shifted + 3 ELSE shifted - 9
        year == year_of_era + era * 400
    IN  Date(IF month =< 2 THEN year + 1 ELSE year, month,
             (day_of_year - DaysBefore(shifted)) + 1)

\* Counted from 1 on 1 January.  Mutant: counted from 0.
day_of_year_from_zero(date) ==
    days_since_epoch(date) - days_since_epoch(Date(date.year, 1, 1))

day_of_year(date) ==
    (days_since_epoch(date) - days_since_epoch(Date(date.year, 1, 1))) + 1
=============================================================================
