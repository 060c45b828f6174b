-------------------------------- MODULE LayDate --------------------------------
(***************************************************************************)
(* The date picker of js/laydate/laydate.js as general.js uses it: `date`  *)
(* binds one date to an input, `dateRange` a range whose halves its done   *)
(* callback copies to two hidden fields.  A moment is a date and an hour,  *)
(* minutes and seconds behave as hours do.  The months count from zero.    *)
(***************************************************************************)
EXTENDS Integers, Sequences, FiniteSets, SequencesExt, Functions

CONSTANTS
  Years,        \* a bound of the navigation
  Today,        \* new Date()
  RangeDates,   \* dates clicked in the two calendars of a range
  Hours, MaxOpens,   \* a single picker is used the first time only
  none

VARIABLES
  range, type,          \* options
  opens,                \* how often the picker was rendered
  open,
  dateTime,             \* options.dateTime, whose month the calendar shows
  startDate, endDate,   \* moments, or none
  startTime, endTime,   \* hours, or none
  startState, endState,
  enabled,              \* the confirm button
  text,                 \* of the input: a sequence of no, one or two moments
  hidden                \* the fields of dateRange

vars == <<range, type, opens, open, dateTime, startDate, endDate, startTime, endTime,
          startState, endState, enabled, text, hidden>>
options == <<range, type, opens>>
picks == <<startDate, endDate, startTime, endTime, startState, endState>>

Date(y, m, d) == [year |-> y, month |-> m, date |-> d]
At(date, hours) == [date |-> date, hours |-> hours]

-----------------------------------------------------------------------------
(* The calendar *)

isLeapYear(year) == (year % 4 = 0 /\ year % 100 # 0) \/ year % 400 = 0

\* The days that new Date(year, month, date) counts, external.
Days(year, month, date) ==
  LET y      == year + (month \div 12)
      before == <<0, 31, 59, 90, 120, 151, 181, 212, 243, 273, 304, 334>>
  IN  365 * y + ((y - 1) \div 4) - ((y - 1) \div 100) + ((y - 1) \div 400)
      + before[(month % 12) + 1] + (IF (month % 12) > 1 /\ isLeapYear(y) THEN 1 ELSE 0) + date

newDate(d) == Days(d.year, d.month, d.date)
getDay(days) == (days + 6) % 7

\* The last day of a month counted from one: the day before the next one's first.
getEndDate(month, year) == Days(year, month, 1) - Days(year, month - 1, 1)

\* Fault: the year does not follow the month.
getAsYMSameYear(Y, M, step) == <<Y, (M + step) % 12>>

getAsYM(Y, M, step) ==
  LET m == M + step
  IN  <<IF m < 0 THEN Y - 1 ELSE IF m > 11 THEN Y + 1 ELSE Y, m % 12>>

\* The dates of the 42 cells that show d's month.
calendar(d) ==
  LET startWeek   == getDay(Days(d.year, d.month, 1))
      prevMaxDate == getEndDate(IF d.month = 0 THEN 12 ELSE d.month, d.year)
      thisMaxDate == getEndDate(d.month + 1, d.year)
      prev        == getAsYM(d.year, d.month, -1)
      next        == getAsYM(d.year, d.month, 1)
  IN  [i \in 0 .. 41 |->
         IF i < startWeek THEN Date(prev[1], prev[2], prevMaxDate - startWeek + i + 1)
         ELSE IF i < thisMaxDate + startWeek THEN Date(d.year, d.month, i - startWeek + 1)
         ELSE Date(next[1], next[2], i - thisMaxDate - startWeek + 1)]

\* A date that the month does not have becomes its last one.
checkValid(d) ==
  LET last == getEndDate(d.month + 1, d.year) IN IF d.date > last THEN [d EXCEPT !.date = last] ELSE d

limit(d) == d.year \notin Years   \* options.min and options.max

-----------------------------------------------------------------------------
(* Opening and closing *)

Init ==
  /\ range \in BOOLEAN /\ type \in {"date", "datetime"}
  /\ opens = 0 /\ open = FALSE /\ dateTime = Today
  /\ startDate = none /\ endDate = none /\ startTime = none /\ endTime = none
  /\ startState = FALSE /\ endState = FALSE
  /\ enabled = FALSE /\ text = <<>> /\ hidden = <<>>

Forget == /\ startState' = FALSE /\ endState' = FALSE /\ startDate' = none /\ endDate' = none
          /\ startTime' = none /\ endTime' = none /\ dateTime' = Today /\ text' = <<>>

\* The first date of a range was clicked and no second one.
Abandon == startState' = (startState /\ endState) /\ endState' = (startState \/ endState)

Single(value) == /\ dateTime' = value[1].date /\ text' = value
                 /\ UNCHANGED <<startState, endState, startDate, endDate, startTime, endTime>>

\* Fault: what was clicked stays where the dates of the value should return.
checkDateKeeps(value) ==
  CASE value = <<>> -> Forget
    [] value # <<>> /\ ~range -> Single(value)
    [] OTHER ->
         /\ Abandon
         /\ startDate' = (IF startDate = none THEN value[1] ELSE startDate)
         /\ endDate' = (IF endDate = none THEN value[2] ELSE endDate)
         /\ text' = (IF \E i \in 1 .. 2 : value[i].hours < 1 THEN <<startDate', endDate'>> ELSE value)
         /\ UNCHANGED <<startTime, endTime, dateTime>>

\* The value decides what the picker works with from now on.  One with an hour below
\* one is written again.
checkDate(value) ==
  CASE value = <<>> -> Forget
    [] value # <<>> /\ ~range -> Single(value)
    [] OTHER ->
         /\ Abandon
         /\ startDate' = value[1] /\ endDate' = value[2]
         /\ startTime' = value[1].hours /\ endTime' = value[2].hours
         /\ UNCHANGED dateTime
         /\ text' = (IF \E i \in 1 .. 2 : value[i].hours < 1
                     THEN <<At(startDate'.date, startTime'), At(endDate'.date, endTime')>>
                     ELSE value)

\* stampRange disables the button of a range that has no end.
render ==
  /\ ~open /\ opens < MaxOpens
  /\ opens' = opens + 1
  /\ open' = TRUE
  /\ checkDate(text)
  /\ enabled' = (range => endDate' # none)
  /\ UNCHANGED <<range, type, hidden>>

\* A click elsewhere, or another picker that opens.
remove ==
  /\ open /\ open' = FALSE
  /\ checkDate(text)
  /\ UNCHANGED <<options, enabled, hidden>>

-----------------------------------------------------------------------------
(* Navigation *)

Show(d) ==
  /\ open /\ d.year \in Years /\ ~range /\ opens = 1
  /\ dateTime' = checkValid(d)
  /\ UNCHANGED <<options, open, picks, enabled, text, hidden>>

prevYear == Show([dateTime EXCEPT !.year = @ - 1])
nextYear == Show([dateTime EXCEPT !.year = @ + 1])
Month(step) == LET YM == getAsYM(dateTime.year, dateTime.month, step)
               IN  Show([dateTime EXCEPT !.year = YM[1], !.month = YM[2]])
prevMonth == Month(-1)
nextMonth == Month(1)

\* The lists of years and of months.
list(field, value) == Show([dateTime EXCEPT ![field] = value])

-----------------------------------------------------------------------------
(* Choosing *)

Zero(time) == IF time = none THEN 0 ELSE time

\* YMD put into a moment, which keeps its hour.
extend(moment, YMD, time) == At(YMD, IF moment = none THEN time ELSE moment.hours)

\* done merges the chosen hours into the dates of a range and copies them.
Merged(moment, time) == IF time = none THEN moment ELSE At(moment.date, time)

choose(YMD) ==
  /\ open /\ ~limit(YMD) /\ range
  /\ YMD \in RangeDates
  /\ startTime' = Zero(startTime) /\ endTime' = Zero(endTime)
  /\ IF startState /\ ~endState
     THEN LET end      == extend(endDate, YMD, endTime')
              reversed == newDate(YMD) < newDate(startDate.date)
              first    == IF reversed THEN At(end.date, startDate.hours) ELSE startDate
              last     == IF reversed THEN At(startDate.date, end.hours) ELSE end
          IN  /\ startDate' = Merged(first, startTime') /\ endDate' = Merged(last, endTime')
              /\ endState' = TRUE
              /\ UNCHANGED <<startState>>
     ELSE /\ startDate' = extend(startDate, YMD, startTime')
          /\ endDate' = IF endState THEN none ELSE endDate
          /\ startState' = TRUE /\ endState' = FALSE
  /\ enabled' = (endDate' # none)
  /\ UNCHANGED <<options, open, dateTime, text, hidden>>

\* The hours of one side of a range; the button compares the merged moments.
chooseTime(index, hours) ==
  /\ open /\ range /\ type = "datetime"
  /\ startTime' = (IF index = 0 THEN hours ELSE Zero(startTime))
  /\ endTime' = (IF index = 1 THEN hours ELSE Zero(endTime))
  /\ IF endDate = none THEN UNCHANGED <<startDate, endDate>>
     ELSE startDate' = Merged(startDate, startTime') /\ endDate' = Merged(endDate, endTime')
  /\ enabled' = (IF endDate = none THEN startDate = none
                 ELSE \/ newDate(startDate'.date) < newDate(endDate'.date)
                      \/ /\ startDate'.date = endDate'.date
                         /\ startDate'.hours <= endDate'.hours)
  /\ UNCHANGED <<options, open, dateTime, startState, endState, text, hidden>>

\* A cell of the single calendar; a picker without hours closes at once.
chooseOne(cell) ==
  /\ open /\ ~range /\ opens = 1 /\ ~limit(calendar(dateTime)[cell])
  /\ dateTime' = calendar(dateTime)[cell]
  /\ IF type = "date" THEN text' = <<At(dateTime', 0)>> /\ open' = FALSE ELSE UNCHANGED <<text, open>>
  /\ UNCHANGED <<options, picks, enabled, hidden>>

confirm ==
  /\ open /\ enabled /\ (range => endDate # none)
  /\ open' = FALSE
  /\ hidden' = IF range THEN <<Merged(startDate, startTime), Merged(endDate, endTime)>> ELSE <<>>
  /\ checkDate(IF range THEN hidden' ELSE <<At(dateTime, 0)>>)
  /\ UNCHANGED <<options, enabled>>

clear ==
  /\ open /\ open' = FALSE
  /\ hidden' = <<>> /\ checkDate(<<>>)
  /\ UNCHANGED <<options, enabled>>

now ==
  /\ open /\ ~range
  /\ open' = FALSE
  /\ checkDate(<<At(Today, 0)>>)
  /\ UNCHANGED <<options, enabled, hidden>>

Next ==
  \/ render \/ remove \/ clear \/ now \/ confirm
  \/ prevYear \/ nextYear \/ prevMonth \/ nextMonth
  \/ \E y \in Years : list("year", y)
  \/ \E m \in 0 .. 11 : list("month", m)
  \/ \E d \in RangeDates : choose(d)
  \/ \E index \in {0, 1}, h \in Hours : chooseTime(index, h)
  \/ \E cell \in 0 .. 41 : chooseOne(cell)

-----------------------------------------------------------------------------
(* Properties *)

\* The 42 cells are consecutive days of the real calendar, they begin on a Sunday and
\* contain the whole month, in January, December and February of leap years too.
GridConsecutive ==
  LET cells == calendar(dateTime) IN
  /\ \A i \in 0 .. 41 : newDate(cells[i]) = newDate(cells[0]) + i
  /\ \A i \in 0 .. 41 : cells[i].date \in 1 .. getEndDate(cells[i].month + 1, cells[i].year)
  /\ getDay(newDate(cells[0])) = 0
  /\ \A d \in 1 .. getEndDate(dateTime.month + 1, dateTime.year) :
       Date(dateTime.year, dateTime.month, d) \in Range(cells)

\* The hidden fields hold what the input of a range shows, whatever was clicked and then
\* abandoned, and a range of dates runs forwards.
RangeAgrees ==
  range => /\ hidden = text
           /\ text # <<>> /\ type = "date" => newDate(text[1].date) <= newDate(text[2].date)
=============================================================================
