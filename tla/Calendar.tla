------------------------------ MODULE Calendar ------------------------------
(***************************************************************************)
(* The dates of receipts and reports.  A run and a verification each read  *)
(* a clock in seconds since 1970 and write the date of it; the verifier    *)
(* turns the date back into seconds to measure an age.  A date is the      *)
(* tuple <<year, month, day, hour, minute, second>> its text spells.       *)
(***************************************************************************)
EXTENDS Integers, Sequences

DaySeconds == 86400
EraYears == 400
EraDays == 146097       \* of EraYears years
EpochDay == 719468      \* the days from 1 March of the year 0 to 1 January 1970

\* Mutant of CivilFromDays: the days that centuries do not have are not taken into account.
CivilShortYears(days) ==
    LET shifted == days + 719468
        era == shifted \div 146097
        dayOfEra == shifted % 146097
        yearOfEra == (dayOfEra - dayOfEra \div 1460 + dayOfEra \div 36524) \div 365
        dayOfYear == dayOfEra - (365 * yearOfEra + yearOfEra \div 4)
        shiftedMonth == (5 * dayOfYear + 2) \div 153
        day == dayOfYear - (153 * shiftedMonth + 2) \div 5 + 1
        month == IF shiftedMonth < 10 THEN shiftedMonth + 3 ELSE shiftedMonth - 9
    IN  <<yearOfEra + era * 400 + (IF month <= 2 THEN 1 ELSE 0), month, day>>

\* Years begin on 1 March here, and an era has 400 of them.  The year of a day of an era, the days
\* of the era before a year of it, the month of a day of a year, and the days before a month of it.
YearOfEra(dayOfEra) ==
    (dayOfEra - dayOfEra \div 1460 + dayOfEra \div 36524 - dayOfEra \div 146096) \div 365

DaysBeforeYear(yearOfEra) == 365 * yearOfEra + yearOfEra \div 4 - yearOfEra \div 100

MonthOfYear(dayOfYear) == (5 * dayOfYear + 2) \div 153

DaysBeforeMonth(shiftedMonth) == (153 * shiftedMonth + 2) \div 5

MonthNumber(shiftedMonth) == IF shiftedMonth < 10 THEN shiftedMonth + 3 ELSE shiftedMonth - 9

\* civil_from_days, for the days since 1970 a clock can show: 0 and later.
CivilFromDays(days) ==
    LET shifted == days + EpochDay
        era == shifted \div EraDays
        dayOfEra == shifted - era * EraDays
        yearOfEra == YearOfEra(dayOfEra)
        dayOfYear == dayOfEra - DaysBeforeYear(yearOfEra)
        shiftedMonth == MonthOfYear(dayOfYear)
        day == dayOfYear - DaysBeforeMonth(shiftedMonth) + 1
        month == MonthNumber(shiftedMonth)
    IN  <<yearOfEra + era * EraYears + (IF month <= 2 THEN 1 ELSE 0), month, day>>

FormatUtc(seconds) ==
    LET s == seconds % DaySeconds
    IN  CivilFromDays(seconds \div DaySeconds)
          \o <<s \div 3600, (s % 3600) \div 60, s % 60>>

Leap(year) == year % 4 = 0 /\ (year % 100 # 0 \/ year % 400 = 0)

DaysInMonth(year, month) ==
    CASE month \in {1, 3, 5, 7, 8, 10, 12} -> 31
      [] month \in {4, 6, 9, 11} -> 30
      [] month = 2 -> IF Leap(year) THEN 29 ELSE 28
      [] OTHER -> 0

\* require_timestamp, and what parse_utc_seconds asks of its text
ValidTimestamp(d) ==
    /\ d[1] \in 1..9999 /\ d[3] \in 1..DaysInMonth(d[1], d[2])
    /\ d[4] \in 0..23 /\ d[5] \in 0..59 /\ d[6] \in 0..59

\* parse_utc_seconds, of a valid date
DaysFromCivil(year, month, day) ==
    LET shiftedYear == IF month <= 2 THEN year - 1 ELSE year
        era == shiftedYear \div EraYears
        yearOfEra == shiftedYear - era * EraYears
        shiftedMonth == IF month > 2 THEN month - 3 ELSE month + 9
        dayOfYear == DaysBeforeMonth(shiftedMonth) + day - 1
    IN  era * EraDays + (DaysBeforeYear(yearOfEra) + dayOfYear) - EpochDay

ParseUtc(d) ==
    DaysFromCivil(d[1], d[2], d[3]) * DaySeconds + d[4] * 3600 + d[5] * 60 + d[6]

\* The order of the texts: all fields have a fixed width.
Earlier(d, e) ==
    \E i \in 1..6 : d[i] < e[i] /\ \A j \in 1..(i - 1) : d[j] = e[j]
=============================================================================
