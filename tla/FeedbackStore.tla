--------------------------- MODULE FeedbackStore ---------------------------
(***************************************************************************)
(* What users say of an answer: the feedback routes of server/app.py and   *)
(* the SQLite and PostgreSQL stores of server/feedback.py.  A PATCH writes *)
(* and then reads again, with other requests and the housekeeping between. *)
(* Ratings are counted by windows of time; the clock counts hours, hour 0  *)
(* being the first of a Sunday.                                            *)
(***************************************************************************)
EXTENDS Integers, FiniteSets

CONSTANTS
    Backends,           \* the stores to check, of {"sqlite", "postgres"}
    Records,            \* feedback ids
    Users,              \* subjects of the gateway's header, "anonymous" where it has none
    Patches,            \* PATCH requests
    HoursPerDay, DaysPerWeek,
    MaxHour             \* bound on the clock

VARIABLES
    backend,
    rows,       \* for each feedback id, its row
    patch,      \* for each PATCH request, what it asks and what it has been told
    hour

vars == << backend, rows, patch, hour >>

NoRow == [kind |-> "none"]
Unset == "unset"

\* What a PATCH may ask: any of its columns, or none.  The correction is changed as the
\* comment is.
Bodies == [rating : {"up", Unset}, comment : {"better", Unset}]
Asked(body) == {c \in {"rating", "comment"} : body[c] # Unset}

Idle == [at |-> "idle"]

Init ==
    /\ backend \in Backends
    /\ rows = [f \in Records |-> NoRow]
    /\ patch = [p \in Patches |-> Idle]
    /\ hour = 0

-----------------------------------------------------------------------------
(* Windows.                                                                *)

Day(h) == h \div HoursPerDay
Weekday(d) == d % DaysPerWeek

\* SQLite: on to the coming Sunday ('weekday 0'), and six days back.
SqliteWindow(window, h) ==
    CASE window = "hour" -> h
      [] window = "week" ->
            LET sunday == Day(h) + ((DaysPerWeek - Weekday(Day(h))) % DaysPerWeek)
            IN (sunday - (DaysPerWeek - 1)) * HoursPerDay
      [] OTHER -> Day(h) * HoursPerDay

\* PostgreSQL: date_trunc, whose weeks begin on Monday.
PgWindow(window, h) ==
    CASE window = "hour" -> h
      [] window = "week" ->
            (Day(h) - ((Weekday(Day(h)) + DaysPerWeek - 1) % DaysPerWeek)) * HoursPerDay
      [] OTHER -> Day(h) * HoursPerDay

WindowEnd(window, start) ==
    CASE window = "hour" -> start + 1
      [] window = "week" -> start + DaysPerWeek * HoursPerDay
      [] OTHER -> start + HoursPerDay

Windows == {"hour", "day", "week"}

\* The ids of the rows of a user, all users' when there is none, in [since, until).
Query(user, since, until) ==
    {f \in Records : /\ rows[f] # NoRow
                     /\ user = "all" \/ rows[f].user = user
                     /\ since <= rows[f].created /\ rows[f].created < until}

\* GROUP BY the start of the window.
Grouped(window, found, Start(_)) ==
    {LET at == {f \in found : Start(rows[f].created) = s}
         Rated(r) == Cardinality({f \in at : rows[f].rating = r})
     IN [start |-> s, end |-> WindowEnd(window, s), up |-> Rated("up"), down |-> Rated("down"),
         total |-> Cardinality(at)] : s \in {Start(rows[f].created) : f \in found}}

SqliteStats(window, since, until) ==
    Grouped(window, Query("all", since, until), LAMBDA h : SqliteWindow(window, h))

PgStats(window, since, until) ==
    Grouped(window, Query("all", since, until), LAMBDA h : PgWindow(window, h))

Stats(window, since, until) ==
    IF backend = "sqlite" THEN SqliteStats(window, since, until) ELSE PgStats(window, since, until)

-----------------------------------------------------------------------------
(* Routes.                                                                 *)

\* POST /v1/feedback.
Create(f, user, rating, comment) ==
    /\ rows[f] = NoRow
    /\ \A p \in Patches : patch[p].at # "idle" => patch[p].id # f       \* a fresh id
    /\ rows' = [rows EXCEPT ![f] =
          [kind |-> "row", user |-> user, rating |-> rating, comment |-> comment, created |-> hour]]
    /\ UNCHANGED << backend, patch, hour >>

Patched(row, body) ==
    [row EXCEPT !.rating = IF body.rating = Unset THEN @ ELSE body.rating,
                !.comment = IF body.comment = Unset THEN @ ELSE body.comment]

\* Other requests learn by `touched' that the row changed under them.
Touch(ids) ==
    [p \in Patches |-> IF patch[p].at = "wrote" /\ patch[p].id \in ids
                       THEN [patch[p] EXCEPT !.touched = TRUE] ELSE patch[p]]

\* PATCH /v1/feedback/{id}: the columns that the body names are written, nothing when it
\* names none; ...
PatchWrite(p, f, body) ==
    LET At(pc) == [at |-> pc, id |-> f, body |-> body, before |-> rows[f], touched |-> FALSE, answer |-> NoRow] IN
    /\ patch[p] = Idle
    /\ IF Asked(body) # {} /\ rows[f] = NoRow
       THEN /\ patch' = [patch EXCEPT ![p] = At("answered")]
            /\ UNCHANGED rows
       ELSE /\ patch' = [Touch(IF Asked(body) = {} THEN {} ELSE {f}) EXCEPT ![p] = At("wrote")]
            /\ rows' = IF Asked(body) = {} THEN rows ELSE [rows EXCEPT ![f] = Patched(@, body)]
    /\ UNCHANGED << backend, hour >>

\* ... the row that is read then, if there is one, is the answer.
PatchRead(p) ==
    /\ patch[p].at = "wrote"
    /\ patch' = [patch EXCEPT ![p] = [@ EXCEPT !.at = "answered", !.answer = rows[patch[p].id]]]
    /\ UNCHANGED << backend, rows, hour >>

\* Housekeeping.
DeleteBefore(cutoff) ==
    LET old == {f \in Records : rows[f] # NoRow /\ rows[f].created < cutoff} IN
    /\ rows' = [f \in Records |-> IF f \in old THEN NoRow ELSE rows[f]]
    /\ patch' = Touch(old)
    /\ UNCHANGED << backend, hour >>

Tick ==
    /\ hour < MaxHour
    /\ hour' = hour + 1
    /\ UNCHANGED << backend, rows, patch >>

Next ==
    \/ \E f \in Records, user \in Users, rating \in {"up", "down"} : Create(f, user, rating, "worse")
    \/ \E p \in Patches, f \in Records, body \in Bodies : PatchWrite(p, f, body)
    \/ \E p \in Patches : PatchRead(p)
    \/ \E cutoff \in 1 .. hour : DeleteBefore(cutoff)
    \/ Tick

Spec == Init /\ [][Next]_vars

-----------------------------------------------------------------------------
TypeOK ==
    /\ backend \in Backends
    /\ \A f \in Records : rows[f] # NoRow =>
          /\ rows[f].rating \in {"up", "down"} /\ rows[f].comment \in {"better", "worse"}
          /\ rows[f].user \in Users /\ rows[f].created \in 0 .. hour
    /\ \A p \in Patches : patch[p].at \in {"idle", "wrote", "answered"}
    /\ hour \in 0 .. MaxHour

\* A PATCH that no other request and no housekeeping disturbed answers with the row it found
\* and its own columns in it; it is told that there is no such row when there was none.
PatchesAnswerThemselves ==
    \A p \in Patches :
        LET q == patch[p] IN
        q.at = "answered" /\ ~q.touched =>
            q.answer = IF q.before = NoRow THEN NoRow ELSE Patched(q.before, q.body)

\* A window counts the ratings that are in it, each rating is in one window, and the two
\* stores count alike.
StatsCountOnce ==
    \A window \in Windows :
        LET all == Stats(window, 0, MaxHour + 1)
            counted == Query("all", 0, MaxHour + 1)
            In(s) == {f \in counted : s.start <= rows[f].created /\ rows[f].created < s.end}
        IN /\ SqliteStats(window, 0, MaxHour + 1) = PgStats(window, 0, MaxHour + 1)
           /\ \A s \in all : s.total = Cardinality(In(s)) /\ s.up + s.down = s.total
           /\ \A f \in counted : Cardinality({s \in all : f \in In(s)}) = 1

\* Feedback is answered and counted as it was given.
FeedbackIsTrue == PatchesAnswerThemselves /\ StatsCountOnce
=============================================================================
