----------------------------- MODULE TimeWeather ----------------------------
(***************************************************************************)
(* The clock of the launcher's first page,                                 *)
(* bearpi_hm_micro/app/launcher/.../time_weather_view.cpp: the weekday it  *)
(* computes for the date of the board, when the page is built and at every *)
(* minute after that.                                                      *)
(***************************************************************************)
EXTENDS Integers, FiniteSets

CONSTANT Dates   (* days the board's clock may show *)

ASSUME DatesAssumption == Dates \subseteq [year : 1970..2100, month : 1..12, day : 1..31]

VARIABLE viewTime   (* the date localtime gave last, and the weekday shown *)

(* GetWeekdayByYearday, 0 being Sunday, without its shift of two months. *)
WeekdayWithoutShift(y, m, d) ==
  (d + 1 + 2 * m + (3 * (m + 1)) \div 5 + y + y \div 4 - y \div 100 + y \div 400) % 7

GetWeekdayByYearday(y, m, d) ==
  LET iM == IF m \in {1, 2} THEN m + 12 ELSE m
      iY == IF m \in {1, 2} THEN y - 1 ELSE y
  IN  (d + 1 + 2 * iM + (3 * (iM + 1)) \div 5 + iY + iY \div 4 - iY \div 100 + iY \div 400) % 7

(* SetUpTimeView adds 1970, not 1900, to tm_year. *)
GivenYear(date) == date.year - 1900 + 1970

SetUpTimeView(date) ==
  viewTime' = [date |-> date,
               shown |-> GetWeekdayByYearday(GivenYear(date), date.month, date.day)]

NoDate == [year |-> 1970, month |-> 1, day |-> 1]

(* No view yet. *)
TimeInit == viewTime = [date |-> NoDate, shown |-> -1]

TimeNext == \E date \in Dates : date.year >= viewTime.date.year /\ SetUpTimeView(date)

TimeSpec == TimeInit /\ [][TimeNext]_viewTime

TimeTypeOK == viewTime.date \in Dates \cup {NoDate} /\ viewTime.shown \in -1..6

-----------------------------------------------------------------------------
(* The days of the calendar up to a day, by the lengths of the months. *)

Leap(y) == (y % 4 = 0 /\ y % 100 # 0) \/ y % 400 = 0

DaysOfMonth(y, m) ==
  IF m = 2 THEN (IF Leap(y) THEN 29 ELSE 28) ELSE IF m \in {4, 6, 9, 11} THEN 30 ELSE 31

LeapYears(y) == { n \in 1970..(y - 1) : Leap(n) }

DaysBefore(y, m) ==
  LET before[k \in 1..12] == IF k = 1 THEN 0 ELSE before[k - 1] + DaysOfMonth(y, k - 1)
  IN  before[m]

DayNumber(y, m, d) ==
  365 * (y - 1970) + Cardinality(LeapYears(y)) + DaysBefore(y, m) + d - 1

(* The weekday shown is the calendar's for the year GetWeekdayByYearday is *)
(* given (the first of January 1970 was a Thursday): in January and        *)
(* February as in the other months, and across leap years.                 *)
WeekdayOfGivenYear ==
  LET date == viewTime.date
  IN  viewTime.shown # -1 =>
        viewTime.shown = (4 + DayNumber(GivenYear(date), date.month, date.day)) % 7
=============================================================================
