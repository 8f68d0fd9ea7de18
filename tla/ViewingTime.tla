---------------------------- MODULE ViewingTime -----------------------------
(***************************************************************************)
(* How long a channel has been watched: the limits' verdict (limits.go:    *)
(* CheckLimit, chainContSecLocked, EndSession), the statistics it reads    *)
(* (stats.go: AddRange, HistoricalSum, HistoricalSumWeek) and the times at *)
(* which a stream of the channel calls them (relay.go: ServeHTTP).         *)
(*                                                                         *)
(* One channel with one limit and one replacement rule.  All its streams   *)
(* add up, also those a rule or a limit has put on another source.  The    *)
(* opening of the reader between a stream's first check and its StartTime  *)
(* takes no time here.                                                     *)
(***************************************************************************)
EXTENDS RuleWindow, Sequences, FiniteSetsExt

CONSTANTS Streams,
          SecondTicks,
          Instants,    \* when anything happens at all
          MaxSessions, \* bound: streams begun
          MaxEdits,    \* bound: edits of the limit
          Rule,        \* the channel's rule: a window
          DailyMax, WeekdayMax, WeeklyMax, ContinuousMax, RestDuration

ASSUME LimitAssumption ==
    /\ SecondTicks \in Nat \ {0}
    /\ Instants \subseteq Nat /\ \E last \in Instants : \A t \in Instants : t <= last
    /\ {MaxSessions, MaxEdits} \subseteq Nat
    /\ Rule \in Windows
    /\ WeekdayMax \in [0..6 -> Nat]
    /\ {DailyMax, WeeklyMax, ContinuousMax, RestDuration} \subseteq Nat

VARIABLES now,
          edits,     \* bounded by MaxEdits
          limit,     \* "off": none enabled; "sums"; "chain": ContinuousEnabled
          stream,    \* where a stream is: "out", "on", "ending"
          start,     \* info.StartTime
          aggr,      \* s.aggr of the channel: day -> seconds
          session,   \* s.sessions of the channel; known: there is an entry
          \* history
          checked,   \* a check has judged the chain since the stream began
          added,     \* the ranges added to the statistics
          ended,     \* the sessions ended since session was last deleted
          alone      \* no two streams ever ran at once

clock == <<now, limit, edits>>
past  == <<aggr, session, added, ended>>
vars == <<clock, stream, start, checked, past, alone>>

NoSession == [known |-> FALSE, lastEnd |-> 0, cont |-> 0]
Earliest == Min(Instants)
Days == Day(Earliest)..Day(Max(Instants))
Seconds(ticks) == ticks \div SecondTicks

Init == /\ now = Earliest
        /\ limit \in {"off", "sums", "chain"}
        /\ edits = 0
        /\ stream = [s \in Streams |-> "out"]
        /\ start = [s \in Streams |-> 0]
        /\ checked = [s \in Streams |-> FALSE]
        /\ aggr = [d \in Days |-> 0]
        /\ session = NoSession
        /\ added = <<>>
        /\ ended = <<>>
        /\ alone = TRUE

-----------------------------------------------------------------------------
(* The limits' arithmetic                                                  *)

StartOfDay(t) == Day(t) * DayTicks

Monday(day) == day - (IF Weekday(day) = 0 THEN 6 ELSE Weekday(day) - 1)
StartOfISOWeek(t) == Monday(Day(t)) * DayTicks

(* The seconds of a stream that runs since from and fall into the window.  *)
LiveInWindow(from, windowStart) ==
    Seconds(now - (IF from < windowStart THEN windowStart ELSE from))

HistoricalSum(day) == aggr[day]
HistoricalSumWeek(day) ==
    SumFunctionOnSet(aggr, {d \in Days : Monday(d) = Monday(day)})

DayTotal(from)  == HistoricalSum(Day(now)) + LiveInWindow(from, StartOfDay(now))
WeekTotal(from) == HistoricalSumWeek(Day(now))
                   + LiveInWindow(from, StartOfISOWeek(now))

BrokenByNow(from) ==                \* bug: the rest goes on while one watches
    now - session.lastEnd > RestDuration * SecondTicks

(* chainContSecLocked: a rest longer than RestDuration breaks the chain.   *)
Broken(from) == from - session.lastEnd > RestDuration * SecondTicks

JudgesChain == limit = "chain" /\ ContinuousMax > 0

JudgeChain(from) == session' = IF JudgesChain /\ session.known /\ Broken(from)
                               THEN [session EXCEPT !.cont = 0] ELSE session
ChainTotal(from) == (IF session.known /\ ~Broken(from) THEN session.cont ELSE 0)
                    + Seconds(now - from)

(* A weekday's own maximum replaces the daily one.                         *)
DayMax == IF WeekdayMax[Weekday(Day(now))] > 0
          THEN WeekdayMax[Weekday(Day(now))] ELSE DailyMax

(* CheckLimit for a stream that runs since from: the first limit reached.  *)
DayReached(from)   == DayMax > 0 /\ DayTotal(from) >= DayMax
WeekReached(from)  == WeeklyMax > 0 /\ WeekTotal(from) >= WeeklyMax
ChainReached(from) == JudgesChain /\ ChainTotal(from) >= ContinuousMax

Verdict(from) == IF limit = "off" THEN "none"
                 ELSE IF DayReached(from) THEN "day"
                 ELSE IF WeekReached(from) THEN "week"
                 ELSE IF ChainReached(from) THEN "chain" ELSE "none"

(* AddRange: every day gets the seconds that fall into it.                 *)
AddToFirstDay(from) ==              \* bug: no split at midnight
    aggr' = [aggr EXCEPT ![Day(from)] = @ + Seconds(now - from)]

AddRange(from) ==
    aggr' = [d \in Days |->
               LET a == Max({from, d * DayTicks})
                   b == Min({now, (d + 1) * DayTicks})
               IN  aggr[d] + (IF a < b THEN Seconds(b - a) ELSE 0)]

(* EndSession: with no limit there is nothing to remember.                 *)
EndSession(from, judged) ==
    IF now <= from THEN UNCHANGED <<session, ended>>
    ELSE IF limit = "off" THEN session' = NoSession /\ ended' = <<>>
    ELSE /\ session' = [known |-> TRUE, lastEnd |-> now,
                        cont |-> session.cont + Seconds(now - from)]
         /\ ended' = Append(ended, [end |-> now, start |-> from,
                                  judged |-> judged])

-----------------------------------------------------------------------------
(* Streams of the channel, the user's edits and the clock                  *)

Begun == Len(added) + Cardinality({s \in Streams : stream[s] # "out"})

(* A check at this moment.  What the stream does with the verdict is in    *)
(* StreamSession.                                                          *)
CheckLimit(s, from) ==
    /\ JudgeChain(from)
    /\ checked' = [checked EXCEPT ![s] = JudgesChain]
    /\ UNCHANGED <<aggr, added, ended>>

(* ServeHTTP begins: no check for a stream that a rule sends elsewhere.    *)
Begin(s) ==
    /\ stream[s] = "out" /\ Begun < MaxSessions
    /\ stream' = [stream EXCEPT ![s] = "on"]
    /\ start' = [start EXCEPT ![s] = now]
    /\ IF ActiveAt(Rule, now)
       THEN /\ checked' = [checked EXCEPT ![s] = FALSE]
            /\ UNCHANGED past
       ELSE CheckLimit(s, now)
    /\ alone' = (alone /\ \A z \in Streams : stream[z] = "out")
    /\ UNCHANGED clock

(* ruleCheckTicker: whether a rule applied is remembered from the beginning *)
(* (rulesResolvedAddr).  A tick may find a candidate or an override and    *)
(* skip the check.                                                         *)
TickCheck(s) ==
    /\ stream[s] = "on" /\ ~ActiveAt(Rule, start[s])
    /\ CheckLimit(s, start[s])
    /\ UNCHANGED <<clock, stream, start, alone>>

(* The defer of a stream calls two stores, each with its own time.Now().   *)
EndStats(s) ==
    /\ stream[s] = "on"
    /\ stream' = [stream EXCEPT ![s] = "ending"]
    /\ AddRange(start[s])
    /\ added' = Append(added, [start |-> start[s], end |-> now])
    /\ UNCHANGED <<clock, start, checked, session, ended, alone>>

EndLimits(s) ==
    /\ stream[s] = "ending"
    /\ stream' = [stream EXCEPT ![s] = "out"]
    /\ EndSession(start[s], checked[s])
    /\ start' = [start EXCEPT ![s] = 0]
    /\ checked' = [checked EXCEPT ![s] = FALSE]
    /\ UNCHANGED <<clock, aggr, added, alone>>

(* UpdateLimit: the sums and the session entry stay.                       *)
SetLimit(l) ==
    /\ limit # l /\ edits < MaxEdits
    /\ edits' = edits + 1
    /\ limit' = l
    /\ UNCHANGED <<now, stream, start, checked, past, alone>>

Advance ==
    /\ \E t \in Instants : t > now
    /\ now' = Min({t \in Instants : t > now})
    /\ UNCHANGED <<limit, edits, stream, start, checked, past, alone>>

Next == \/ Advance
        \/ \E l \in {"off", "sums", "chain"} : SetLimit(l)
        \/ \E s \in Streams : Begin(s) \/ TickCheck(s) \/ EndStats(s) \/ EndLimits(s)

Spec == Init /\ [][Next]_vars

-----------------------------------------------------------------------------
TypeOK == /\ now \in Instants
          /\ limit \in {"off", "sums", "chain"} /\ edits \in 0..MaxEdits
          /\ stream \in [Streams -> {"out", "on", "ending"}]
          /\ start \in [Streams -> Nat] /\ \A s \in Streams : start[s] <= now
          /\ checked \in [Streams -> BOOLEAN]
          /\ aggr \in [Days -> Nat]
          /\ session \in [known : BOOLEAN, lastEnd : Nat, cont : Nat]
          /\ session.lastEnd <= now

(* What was watched, counted tick by tick: the ticks of a range from one   *)
(* midnight to another.                                                    *)
Watched(range, firstDay, lastDay) ==
    Seconds(Cardinality({t \in range.start..(range.end - 1) :
                           Day(t) \in firstDay..lastDay}))

(* The ended ranges count in whole seconds of each day, the running stream *)
(* in whole seconds of what it has been watched since firstDay.            *)
WatchedOn(day) == SumFunction([i \in DOMAIN added |-> Watched(added[i], day, day)])
WatchedSince(s, firstDay) ==
    SumFunction([d \in firstDay..Day(now) |-> WatchedOn(d)])
    + Watched([start |-> start[s], end |-> now], firstDay, Day(now))

LastMonday == CHOOSE d \in (Day(now) - 6)..Day(now) : Weekday(d) = 1

(* The verdict is what the limits mean: the day's maximum is reported just *)
(* when all streams together have watched the channel that long since the  *)
(* last midnight, else the week's just when they have since the last       *)
(* Monday (streams over midnight, over Sunday and side by side).           *)
VerdictIsRight ==
    \A s \in Streams : stream[s] = "on" /\ limit # "off" =>
        LET v == Verdict(start[s])
            day  == DayMax > 0 /\ WatchedSince(s, Day(now)) >= DayMax
            week == WeeklyMax > 0 /\ WatchedSince(s, LastMonday) >= WeeklyMax
        IN  /\ v = "day" <=> day
            /\ v = "week" <=> week /\ ~day

(* The chain of the stream s by what happened: the ended sessions with no  *)
(* rest between any of them and s that is longer than RestDuration.        *)
Rest(s, i) == (IF i < Len(ended) THEN ended[i + 1].start ELSE start[s])
              - ended[i].end
Chain(s) == {i \in DOMAIN ended :
    \A j \in i..Len(ended) : Rest(s, j) <= RestDuration * SecondTicks}
ChainWatched(s) ==
    SumFunction([i \in Chain(s) |-> Seconds(ended[i].end - ended[i].start)])

Judged(s) == JudgesChain /\ stream[s] = "on" /\ checked[s] /\ alone

(* Once a check has judged a stream, what it carries over from before is   *)
(* its chain: never less; and not more either when every session before    *)
(* was judged, one stream at a time, whatever the limit's edits between.   *)
ChainIsContinuous ==
    \A s \in Streams : Judged(s) =>
        /\ session.cont >= ChainWatched(s)
        /\ (\A i \in DOMAIN ended : ended[i].judged)
              => session.cont = ChainWatched(s)

(* What README.md:14 says: only viewings separated by no more than the     *)
(* rest are continuous.  (A session that began under a rule is never       *)
(* judged, but EndSession adds it to the chain.)                           *)
RestEndsChain ==
    \A s \in Streams : Judged(s) => session.cont = ChainWatched(s)

(* A rule is active exactly in the windows the user meant, which open on   *)
(* its weekdays and may close on the next day.                             *)
WindowIsRight == \A r \in Windows : ActiveAt(r, now) <=> InWindow(r, now)
=============================================================================
