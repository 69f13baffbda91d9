---------------------------- MODULE CronSchedule ----------------------------
(***************************************************************************)
(* The timer among the event sources: a five-field expression is parsed,   *)
(* the next matching minute is found by a scan that skips months, days and *)
(* hours as wholes, and the source sleeps until then.                      *)
(*                                                                         *)
(* Time is counted in minutes.  The calendar is a parameter, so that small *)
(* ones have all the corners of the real one.                              *)
(***************************************************************************)
EXTENDS Integers, Sequences

CONSTANTS
    Minutes, Hours,   \* minutes of an hour, hours of a day
    Weekdays,         \* days of a week
    MonthsPerYear,
    Calendar,         \* the days on which the months begin, from day 0 on; the last one is not a month
    Expressions,      \* per field, the token lists it may consist of
    MaxScan,          \* _MAX_SCAN_YEARS, in minutes
    MaxTime           \* bound: the clock stops here

VARIABLES
    cron,    \* the parsed expression
    now,
    source,  \* where consume() is, from when it scans, and the minute it is at
    fired    \* history: the scheduled time of the last event

vars == << cron, now, source, fired >>

-----------------------------------------------------------------------------
(* Parsing.                                                                *)
Fields == {"minute", "hour", "dom", "month", "dow"}

Bounds(f) ==
    CASE f = "minute" -> 0..(Minutes - 1)
      [] f = "hour"   -> 0..(Hours - 1)
      [] f = "dom"    -> 1..31
      [] f = "month"  -> 1..MonthsPerYear
      [] f = "dow"    -> 0..Weekdays

Least(S) == CHOOSE x \in S : \A y \in S : x <= y
EveryNth(S, step) == {x \in S : (x - Least(S)) % step = 0}

\* A token is "*", a range or a value; only the first two use the step after "/".
ParseToken(token, bounds) ==
    CASE token.kind = "any"   -> EveryNth(bounds, token.step)
      [] token.kind = "range" -> EveryNth(token.lo..token.hi, token.step)
      [] token.kind = "value" -> {token.lo}

\* ValueError: the server does not start.
WellFormed(token, bounds) ==
    /\ token.step > 0
    /\ token.kind # "any" => token.lo \in bounds
    /\ token.kind = "range" => token.hi \in bounds /\ token.lo <= token.hi

ParseField(f, tokens) == UNION {ParseToken(t, Bounds(f)) : t \in tokens}

\* Variant: 7 is kept.
SundayIsSeven(days) == days

\* Both 0 and 7 mean Sunday.
SundayIsZero(days) == IF Weekdays \in days THEN (days \ {Weekdays}) \cup {0} ELSE days

Parsed(fields) ==
    [f \in Fields |-> IF f = "dow" THEN SundayIsZero(ParseField(f, fields[f])) ELSE ParseField(f, fields[f])]

-----------------------------------------------------------------------------
(* The calendar.                                                           *)
Hour == Minutes
Day == Minutes * Hours

DayOf(t) == t \div Day

MonthIndex(t) == CHOOSE i \in 1..(Len(Calendar) - 1) : Calendar[i] <= DayOf(t) /\ DayOf(t) < Calendar[i + 1]

\* Time 0 is a Monday, as weekday() counts; cron counts from Sunday.
Component(f, t) ==
    CASE f = "minute" -> t % Minutes
      [] f = "hour"   -> (t \div Hour) % Hours
      [] f = "dom"    -> DayOf(t) - Calendar[MonthIndex(t)] + 1
      [] f = "month"  -> ((MonthIndex(t) - 1) % MonthsPerYear) + 1
      [] f = "dow"    -> (DayOf(t) + 1) % Weekdays

FieldMatches(f, t) == Component(f, t) \in cron[f]
Matches(t) == \A f \in Fields : FieldMatches(f, t)

AdvanceMonth(t) == Calendar[MonthIndex(t) + 1] * Day
AdvanceDay(t) == (DayOf(t) + 1) * Day

\* Variant: the minutes are kept.
AdvanceHourOnly(t) == t + Hour

AdvanceHour(t) == ((t \div Hour) + 1) * Hour

-----------------------------------------------------------------------------
(* CronSource.consume.                                                     *)
TypeOK ==
    /\ cron \in [Fields -> SUBSET Nat]
    /\ cron["dow"] \subseteq 0..(Weekdays - 1)
    /\ now \in 0..MaxTime
    /\ source \in [pc : {"next", "scan", "sleep", "busy", "raised"}, from : Nat, dt : Nat]
    /\ fired \in Nat

Init ==
    /\ \E fields \in Expressions :
         /\ \A f \in Fields : \A t \in fields[f] : WellFormed(t, Bounds(f))
         /\ cron = Parsed(fields)
    /\ now = 0
    /\ source = [pc |-> "next", from |-> 0, dt |-> 0]
    /\ fired = 0

At(pc) == source.pc = pc

\* Scanning starts at the next whole minute.
StartScan ==
    /\ At("next")
    /\ source' = [pc |-> "scan", from |-> now, dt |-> now + 1]
    /\ UNCHANGED << cron, now, fired >>

\* The first field that does not match decides how far to go.
Skip(t) ==
    IF ~FieldMatches("month", t) THEN AdvanceMonth(t)
    ELSE IF ~(FieldMatches("dom", t) /\ FieldMatches("dow", t)) THEN AdvanceDay(t)
    ELSE IF ~FieldMatches("hour", t) THEN AdvanceHour(t)
    ELSE t + 1

\* One round of the loop.
Scan ==
    /\ At("scan")
    /\ source.dt <= source.from + MaxScan
    /\ source' = IF Matches(source.dt) THEN [source EXCEPT !.pc = "sleep"]
                                       ELSE [source EXCEPT !.dt = Skip(@)]
    /\ UNCHANGED << cron, now, fired >>

\* RuntimeError: no time within reach matches, and the event loop of the source ends.
ScanRaises ==
    /\ At("scan")
    /\ source.dt > source.from + MaxScan
    /\ source' = [source EXCEPT !.pc = "raised"]
    /\ UNCHANGED << cron, now, fired >>

\* The sleep ends; the rate limiter lets the event through, which may take a while.
Fire ==
    /\ At("sleep")
    /\ now >= source.dt
    /\ fired' = source.dt
    /\ source' = [source EXCEPT !.pc = "busy"]
    /\ UNCHANGED << cron, now >>

\* The event loop asks for the next event.
Continue ==
    /\ At("busy")
    /\ source' = [source EXCEPT !.pc = "next"]
    /\ UNCHANGED << cron, now, fired >>

Tick ==
    /\ now < MaxTime
    /\ At("sleep") \/ At("busy")
    /\ now' = now + 1
    /\ UNCHANGED << cron, source, fired >>

Next == StartScan \/ Scan \/ ScanRaises \/ Fire \/ Continue \/ Tick

Spec == Init /\ [][Next]_vars

-----------------------------------------------------------------------------
(* Properties.                                                             *)

\* Whether a field leaves out any of its values.
Restricts(f) == cron[f] # IF f = "dow" THEN 0..(Weekdays - 1) ELSE Bounds(f)

\* When a crontab of POSIX, which the module promises (cron.py:1, 29), would run: if the day
\* of the month and the day of the week are both restricted, one of them has to match.
PosixMatches(t) ==
    /\ \A f \in {"minute", "hour", "month"} : FieldMatches(f, t)
    /\ FieldMatches("dom", t) \/ FieldMatches("dow", t)
    /\ \/ Restricts("dom") /\ Restricts("dow")
       \/ FieldMatches("dom", t) /\ FieldMatches("dow", t)

\* The skips of a scan pass no minute at which all the fields match, over the ends of hours,
\* days, months and years: the source sleeps until the first one after the minute in which
\* it asked, and gives up only when there is none.  No minute is fired for twice.  Each is
\* one that POSIX promises too, and of those a scan passes only ones of an expression that
\* restricts both days.  (What a scan does not look at are the minutes that went by before
\* it, while the event loop was busy with the last event: those are passed over.)
NothingIsSkipped ==
    /\ At("sleep") => Matches(source.dt) /\ PosixMatches(source.dt) /\ fired < source.dt
    /\ source.pc \in {"scan", "sleep", "raised"} =>
         \A t \in (source.from + 1)..(source.dt - 1) :
            ~Matches(t) /\ (PosixMatches(t) => Restricts("dom") /\ Restricts("dow"))
=============================================================================
