---------------------------- MODULE Contributions -----------------------------
(*****************************************************************************)
(* The graph of a user's activity on the profile page (ContributionGraph of  *)
(* profile/page.tsx): a square for each local date of the last year, in      *)
(* columns of a week, coloured by the activities of that date.               *)
(*                                                                           *)
(* Time is counted in hours, in UTC.  The browser's clock is `zone` hours    *)
(* ahead, and one more on the dates of `summer`: a date on which the clock   *)
(* changes has 23 or 25 hours.  An activity is logged on the server with its *)
(* UTC time; the squares are dates of the browser, and toISOString turns     *)
(* their midnights into UTC dates to look their activities up.               *)
(*****************************************************************************)
EXTENDS Integers, FiniteSetsExt, SequencesExt

CONSTANTS
    Span,         \* days before today that are shown (365 in the code)
    ClockChanges, \* dates whose midnight is the first one after a change of the clock
    Pause,        \* bound: the page is drawn again after a multiple of it, in hours
    MaxDays,      \* bound: days that pass
    MaxLog        \* bound: entries of the log

Dates == 0..(Span + MaxDays + 4)

ASSUME ContributionAssumption ==
    /\ {Span, MaxDays, MaxLog, Pause} \subseteq Nat /\ Span > 0
    /\ ClockChanges \subseteq Dates

Zones == -12..13
Summers ==  \* nowhere, in the north, and in the south
    {{}} \cup UNION {{from..(to - 1), Dates \ (from..(to - 1))} : from \in ClockChanges, to \in ClockChanges}
Amounts == {1, 2, 5}        \* activities logged at once
First == 24 * (Span + 2)

VARIABLES
    zone,       \* of the browser, without summer time
    summer,     \* the dates that begin in summer time
    now,        \* the time
    log,        \* activities: [at, n]
    drawn       \* the profile has been brought: the graph is on the screen

clockVars == <<zone, summer>>
GraphVars == <<clockVars, now, log, drawn>>

Times == First..(First + 24 * MaxDays)

GraphTypeOK ==
    /\ zone \in Zones /\ summer \subseteq Dates /\ now \in Times
    /\ log \subseteq [at : Times, n : Amounts] /\ drawn \in BOOLEAN

GraphInit == zone \in Zones /\ summer \in Summers /\ now = First /\ log = {} /\ drawn = FALSE

ProfileArrives == ~drawn /\ drawn' = TRUE /\ UNCHANGED <<clockVars, now, log>>

LogActivity(n) ==
    /\ drawn /\ Cardinality(log) < MaxLog
    /\ log' = log \cup {[at |-> now, n |-> n]}
    /\ UNCHANGED <<clockVars, now, drawn>>

\* The page is drawn again some time later.
Tick == drawn /\ now + Pause \in Times /\ now' = now + Pause /\ UNCHANGED <<clockVars, log, drawn>>

GraphNext == ProfileArrives \/ Tick \/ \E n \in Amounts : LogActivity(n)

GraphSpec == GraphInit /\ [][GraphNext]_GraphVars

-----------------------------------------------------------------------------
\* How far the clock is ahead when a date begins, and when that is in UTC.
Ahead(d) == zone + (IF d \in summer THEN 1 ELSE 0)
Midnight(d) == 24 * d - Ahead(d)

UtcDay(t) == t \div 24

\* The last date to begin.
LocalDay(t) ==
    LET d == UtcDay(t) IN
    CASE t < Midnight(d) -> d - 1
      [] t >= Midnight(d + 1) -> d + 1
      [] OTHER -> d

\* eachDayOfInterval, and the UTC date of a local midnight.
Days == [i \in 1..(Span + 1) |-> LocalDay(now) - Span + i - 1]
Key(d) == UtcDay(Midnight(d))

\* The server answers with the activities of the last year.
Activities == {a \in log : now - a.at <= 24 * Span}

Count(d) == MapThenSumSet(LAMBDA a : a.n, {a \in Activities : UtcDay(a.at) = Key(d)})

Level(count) ==
    CASE count >= 5 -> 4
      [] count \in 3..4 -> 3
      [] count = 2 -> 2
      [] count = 1 -> 1
      [] OTHER -> 0

\* Mutant: a Sunday ends the week and is forgotten.
AddDayButSundays(columns, d) ==
    IF d % 7 = 0 /\ columns.week # <<>>
      THEN [weeks |-> Append(columns.weeks, columns.week), week |-> <<>>]
      ELSE [columns EXCEPT !.week = Append(@, d)]

\* A column ends before a Sunday.
AddDay(columns, d) ==
    IF d % 7 = 0 /\ columns.week # <<>>
      THEN [weeks |-> Append(columns.weeks, columns.week), week |-> <<d>>]
      ELSE [columns EXCEPT !.week = Append(@, d)]

Weeks ==
    LET columns == FoldLeft(AddDay, [weeks |-> <<>>, week |-> <<>>], Days) IN
    IF columns.week = <<>> THEN columns.weeks ELSE Append(columns.weeks, columns.week)

-----------------------------------------------------------------------------
East(d) == Ahead(d) > 0

\* An activity is counted on one square of one column from a day after it was
\* logged until it is a year old, in every time zone, unless the clock is ahead
\* of UTC at one of the two midnights around it and not at the other: by a
\* change of the clock at Greenwich it is on the squares of two dates in spring
\* and on none in autumn.  The squares are of its local date or one beside it
\* (profile/page.tsx:88-121).  In its first day it may be on none at all: east
\* of Greenwich the square of today has the key of yesterday, and west of it
\* tomorrow may have begun in UTC.
OldActivityIsCounted ==
    \A a \in log :
      now - a.at \in 24..(24 * (Span - 1)) =>
        LET d == UtcDay(a.at)
            weeks == Weeks
            squares == {s \in (1..Len(weeks)) \X (1..7) :
                          /\ s[2] \in DOMAIN weeks[s[1]]
                          /\ Key(weeks[s[1]][s[2]]) = d}
        IN
        /\ Cardinality(squares) = CASE East(d) = East(d + 1) -> 1
                                    [] ~East(d) /\ East(d + 1) -> 2
                                    [] East(d) /\ ~East(d + 1) -> 0
        /\ \A s \in squares :
             /\ weeks[s[1]][s[2]] - LocalDay(a.at) \in -1..1
             /\ Level(Count(weeks[s[1]][s[2]])) >= Level(a.n)

=============================================================================
