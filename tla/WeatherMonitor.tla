---------------------------- MODULE WeatherMonitor ----------------------------
(***************************************************************************)
(* The weather monitor: WeatherIntelligenceService, the periodic scan and  *)
(* the requests that run it, and the alerts it raises and staff handle.    *)
(*                                                                         *)
(* A scan, a run for one case and a location refresh load their cases,     *)
(* then call slow services for one case after another, and commit at the   *)
(* end.  Sessions overlap: beat, the routes and several worker processes   *)
(* start them without regard to each other.  What staff do is one step     *)
(* each here, and falls between any two steps of the sessions.             *)
(*                                                                         *)
(* next_weather_check_at is modelled by what the scan does with it: due is *)
(* the order of the cases whose time has come, later the cases whose time  *)
(* is still to come; a case in neither has NULL.                           *)
(***************************************************************************)
EXTENDS Naturals, Sequences, SequencesExt, OrmSession

CONSTANTS
    Cases,       \* the rows that may come to exist in cases
    Unreachable, \* the cases for which calls to the services may fail
    Limit,       \* WEATHER_MONITOR_CASE_SCAN_LIMIT
    Workers,     \* the processes and threads: a session is open in each at most
    Idle,        \* a worker without a session
    MaxAlerts,   \* bound: the alerts that are remembered at once
    MaxEvents    \* how many requests are made and sessions lost

ASSUME CasesAssumption == IsFiniteSet(Cases)
ASSUME LimitAssumption == Limit \in Nat \ {0}
ASSUME UnreachableAssumption == Unreachable \subseteq Cases
ASSUME WorkersAssumption == IsFiniteSet(Workers)
ASSUME BoundsAssumption == MaxAlerts \in Nat /\ MaxEvents \in Nat

VARIABLES
    rows,   \* the committed row of each case that exists
    due,    \* the cases whose next_weather_check_at has come, oldest first
    later,  \* the cases whose next_weather_check_at is still to come
    alerts, \* the rows of alerts of type weather_risk
    open,   \* the session of each worker
    outrun, \* history: for each case, the commits that wrote its place or its next check
            \* after another one had since it was loaded; 2 for two or more
    overlapped, \* history: the cases that a commit assessed after another one had since
            \* it looked for their alert
    events  \* how many requests were made and sessions lost

vars == <<rows, due, later, alerts, open, outrun, overlapped, events>>

-----------------------------------------------------------------------------
GeocodeStatus == {"not_requested", "pending", "resolved", "failed", "manual_review"}

\* What the newest hazard_assessments row of a case says.  The score of the
\* forecast and the language model decide, and either may decide anything.
Verdict == {"none", "danger", "calm"}

\* The columns of a case the monitor works with: whether the status is one of
\* ACTIVE_MONITOR_CASE_STATUSES, whether location_name and both coordinates
\* are set, and geocode_status; and its newest assessment.
Row == [active : BOOLEAN, named : BOOLEAN, located : BOOLEAN,
        geocode : GeocodeStatus, verdict : Verdict]

\* Two columns are history: who last made the alert active, and the cases it
\* has belonged to.
Alert == [case : Cases, active : BOOLEAN, opened : {"monitor", "staff"}, been : SUBSET Cases]
AlertIds == 1 .. MaxAlerts

\* What a session does to next_weather_check_at.
Move == {"keep", "now", "later", "null"}

\* A session: the cases it is still to handle, the rows it loaded and holds,
\* those of its cases that had no next check, what it staged for each case's
\* next check, and the alerts it will write.  Two fields are history: behind, the
\* cases whose place or next check others wrote since they were loaded, and late,
\* those that others assessed since the session looked for their alert.
IsSession(s) ==
    /\ DOMAIN s = {"kind", "todo", "loaded", "mine", "unscheduled", "move", "raise", "resolve",
                   "behind", "late"}
    /\ s.kind \in {"scan", "run", "refresh"}
    /\ s.todo \in Seq(DOMAIN s.loaded)
    /\ DOMAIN s.loaded \subseteq DOMAIN rows
    /\ s.mine \in [DOMAIN s.loaded -> Row] /\ s.loaded \in [DOMAIN s.loaded -> Row]
    /\ s.unscheduled \subseteq DOMAIN s.loaded
    /\ s.move \in [DOMAIN s.loaded -> Move]
    /\ s.raise \subseteq DOMAIN s.loaded
    /\ s.resolve \subseteq AlertIds
    /\ s.behind \subseteq DOMAIN s.loaded /\ s.late \subseteq DOMAIN s.loaded

TypeOK ==
    /\ DOMAIN rows \subseteq Cases /\ rows \in [DOMAIN rows -> Row]
    /\ due \in Seq(DOMAIN rows) /\ IsInjective(due)
    /\ later \subseteq DOMAIN rows /\ later \cap Range(due) = {}
    /\ DOMAIN alerts \subseteq AlertIds /\ alerts \in [DOMAIN alerts -> Alert]
    /\ open = [w \in Workers |-> open[w]]
    /\ \A w \in Workers : open[w] = Idle \/ IsSession(open[w])
    /\ outrun \in [Cases -> 0 .. 2]
    /\ overlapped \subseteq Cases
    /\ events \in 0 .. MaxEvents

\* A row as create_case writes it.
Created(named, located) ==
    [active |-> TRUE, named |-> named, located |-> located,
     geocode |-> IF located THEN "resolved" ELSE IF named THEN "pending" ELSE "not_requested",
     verdict |-> "none"]

\* A row as the seed script writes it: geocode_status and
\* next_weather_check_at are left at their defaults.
Seeded(located) == [Created(TRUE, located) EXCEPT !.geocode = "not_requested"]

\* Seeded cases, and cases created since: these are due in that order.
Init ==
    /\ \E seeds, created \in SUBSET Cases : \E located \in SUBSET (seeds \cup created) :
        /\ seeds \cap created = {}
        /\ rows = [c \in seeds \cup created |->
                      IF c \in seeds THEN Seeded(c \in located) ELSE Created(TRUE, c \in located)]
        /\ due \in SetToSeqs(created)
    /\ later = {}
    /\ alerts = <<>>
    /\ open = [w \in Workers |-> Idle]
    /\ outrun = [c \in Cases |-> 0]
    /\ overlapped = {}
    /\ events = 0

-----------------------------------------------------------------------------
\* SelectSeq for the members of a set, by a function that can be unfolded.
Keep(s, set) ==
    LET kept[n \in 0 .. Len(s)] ==
            IF n = 0 THEN <<>>
            ELSE IF s[n] \in set THEN Append(kept[n - 1], s[n]) ELSE kept[n - 1]
    IN  kept[Len(s)]

Event == events < MaxEvents /\ events' = events + 1

\* A new alert takes an id that is free: one never used, or that of a
\* resolved alert of the monitor, which is then forgotten.
Free(table) ==
    {n \in AlertIds :
        /\ n \in DOMAIN table => ~table[n].active /\ table[n].opened = "monitor"
        /\ \A w \in Workers : open[w] # Idle => n \notin open[w].resolve}

\* There are ids for a new alert of each of some cases.
Fits(table, cases) == \E f \in [cases -> Free(table)] : IsInjective(f)

\* The alerts after a new one for each of some cases.
Raised(table, cases, opener) ==
    LET id == CHOOSE f \in [cases -> Free(table)] : IsInjective(f)
        New(c) == [case |-> c, active |-> TRUE, opened |-> opener, been |-> {c}]
    IN  [n \in DOMAIN table \cup Range(id) |->
            IF n \in Range(id) THEN New(CHOOSE c \in cases : id[c] = n) ELSE table[n]]

Active(c) == {n \in DOMAIN alerts : alerts[n].case = c /\ alerts[n].active}

\* History: the sessions after a commit wrote the place or the next check of some
\* cases and assessed others.
Overtaken(sessions, written, assessed) ==
    [w \in Workers |->
        IF sessions[w] = Idle THEN Idle
        ELSE LET cases == DOMAIN sessions[w].loaded
             IN  [sessions[w] EXCEPT
                     !.behind = @ \cup (written \cap cases),
                     !.late = @ \cup ((assessed \cap cases) \ Range(sessions[w].todo))]]

-----------------------------------------------------------------------------
(***************************************************************************)
(* The requests of staff.                                                  *)
(***************************************************************************)

CreateCase(c, named, located) ==
    /\ Event
    /\ c \notin DOMAIN rows
    /\ rows' = [d \in DOMAIN rows \cup {c} |->
                    IF d = c THEN Created(named, located) ELSE rows[d]]
    /\ due' = IF named \/ located THEN Append(due, c) ELSE due
    /\ UNCHANGED <<later, alerts, open, outrun, overlapped>>

\* update_case when location_name or the coordinates are among the fields:
\* coordinates that are already there count as those of a new name.
UpdateLocation(c, named, located) ==
    /\ Event
    /\ c \in DOMAIN rows
    /\ LET there == rows[c].located \/ located
           waiting == Keep(due, Cases \ {c})
       IN  /\ rows' = [rows EXCEPT ![c].named = named, ![c].located = there,
                  ![c].geocode = IF there THEN "resolved"
                                 ELSE IF named THEN "pending" ELSE "not_requested"]
           /\ due' = IF there \/ named THEN Append(waiting, c) ELSE waiting
    /\ later' = later \ {c}
    /\ open' = Overtaken(open, {c}, {})
    /\ UNCHANGED <<alerts, outrun, overlapped>>

\* Closing, rejecting, deleting or assigning a case ends it, or revives it.
ChangeStatus(c) ==
    /\ Event
    /\ c \in DOMAIN rows
    /\ rows' = [rows EXCEPT ![c].active = ~@]
    /\ UNCHANGED <<due, later, alerts, open, outrun, overlapped>>

\* POST /alerts/{id}/resolve and /activate: the status is not looked at.
ResolveAlert(n) ==
    /\ Event
    /\ n \in DOMAIN alerts
    /\ alerts' = [alerts EXCEPT ![n].active = FALSE]
    /\ UNCHANGED <<rows, due, later, open, outrun, overlapped>>

ActivateAlert(n) ==
    /\ Event
    /\ n \in DOMAIN alerts
    /\ alerts' = [alerts EXCEPT ![n].active = TRUE, ![n].opened = "staff"]
    /\ UNCHANGED <<rows, due, later, open, outrun, overlapped>>

\* POST /alerts and POST /alerts/intelligence/simulate for a new alert.
RaiseAlert(c) ==
    /\ Event
    /\ c \in DOMAIN rows
    /\ Fits(alerts, {c})
    /\ alerts' = Raised(alerts, {c}, "staff")
    /\ UNCHANGED <<rows, due, later, open, outrun, overlapped>>

\* A simulation that finds its message in an active alert moves that alert to
\* the newest case; messages and ages are left open.
MoveSimulation(c) ==
    /\ Event
    /\ c \in DOMAIN rows
    /\ \E n \in DOMAIN alerts :
        /\ alerts[n].active /\ alerts[n].opened = "staff"
        /\ alerts' = [alerts EXCEPT ![n].case = c, ![n].been = @ \cup {c}]
    /\ UNCHANGED <<rows, due, later, open, outrun, overlapped>>

-----------------------------------------------------------------------------
(***************************************************************************)
(* The sessions of the monitor.                                            *)
(***************************************************************************)

Load(w, kind, batch) ==
    /\ open[w] = Idle
    /\ LET cases == Range(batch)
           loaded == [c \in cases |-> rows[c]]
       IN  open' = [open EXCEPT ![w] =
               [kind |-> kind, todo |-> batch, loaded |-> loaded, mine |-> loaded,
                unscheduled |-> cases \ (Range(due) \cup later),
                move |-> [c \in cases |-> "keep"], raise |-> {}, resolve |-> {},
                behind |-> {}, late |-> {}]]
    /\ UNCHANGED <<rows, due, later, alerts, outrun, overlapped>>


\* The query of scan_due_cases: active cases, the oldest first, Limit of them.  The
\* organization that POST /alerts/intelligence/run selects besides is left out: cases
\* of one organization only do not meet those of another.
Batch ==
    LET waiting == Keep(due, {c \in DOMAIN rows : rows[c].active})
    IN  SubSeq(waiting, 1, IF Len(waiting) < Limit THEN Len(waiting) ELSE Limit)

\* The scan of beat, POST /reminders/run or POST /alerts/intelligence/run.
StartScan(w) ==
    /\ Batch # <<>>
    /\ Load(w, "scan", Batch)
    /\ UNCHANGED events

StartRun(w, c) == Event /\ c \in DOMAIN rows /\ Load(w, "run", <<c>>)
StartRefresh(w, c) == Event /\ c \in DOMAIN rows /\ Load(w, "refresh", <<c>>)

\* OpenMeteoGeocodingClient.geocode: it fails, knows no such place, or finds one
\* (always with a confidence above 65).
Geocoded(c, row, unscheduled) ==
    {<<[row EXCEPT !.geocode = "failed"], "keep">> : d \in Unreachable \cap {c}}
    \cup {<<[row EXCEPT !.geocode = "manual_review"], IF unscheduled THEN "keep" ELSE "null">>,
          <<[row EXCEPT !.geocode = "resolved", !.located = TRUE], "now">>}

Unnamed(row, unscheduled) ==
    <<[row EXCEPT !.geocode = "not_requested"], IF unscheduled THEN "keep" ELSE "null">>

\* Mutant of Refreshed: a located case is not scheduled.
RefreshedUnscheduled(c, row, unscheduled) ==
    IF row.located THEN {<<[row EXCEPT !.geocode = "resolved"], "keep">>}
    ELSE IF ~row.named THEN {Unnamed(row, unscheduled)}
    ELSE Geocoded(c, row, unscheduled)

\* refresh_case_location: what may become of a row and of its next check.
Refreshed(c, row, unscheduled) ==
    IF row.located
    THEN {<<[row EXCEPT !.geocode = "resolved"], IF unscheduled THEN "now" ELSE "keep">>}
    ELSE IF ~row.named THEN {Unnamed(row, unscheduled)}
    ELSE Geocoded(c, row, unscheduled)

\* The session s after the next of its cases, now with this row and move.
Handled(s, row, move) ==
    LET c == Head(s.todo)
    IN  [s EXCEPT !.todo = Tail(@), !.mine[c] = row, !.move[c] = move]

Put(w, s) ==
    /\ open' = [open EXCEPT ![w] = s]
    /\ UNCHANGED <<rows, due, later, alerts, outrun, overlapped, events>>

Working(w) == open[w] # Idle /\ open[w].todo # <<>>

\* run_case_monitor up to the forecast: coordinates are looked up if missing.
Located(s) ==
    LET c == Head(s.todo)
    IN  IF s.mine[c].located THEN {<<s.mine[c], "keep">>}
        ELSE Refreshed(c, s.mine[c], c \in s.unscheduled)

\* The location is refreshed; or run_case_monitor stops: the case has ended,
\* or its location stays unknown.
Refresh(w) ==
    LET s == open[w]
        c == Head(s.todo)
    IN  /\ Working(w)
        /\ \/ /\ s.kind = "refresh"
              /\ \E found \in Refreshed(c, s.mine[c], c \in s.unscheduled) :
                   Put(w, Handled(s, found[1], found[2]))
           \/ /\ s.kind # "refresh" /\ ~s.mine[c].active
              /\ Put(w, Handled(s, s.mine[c], "keep"))
           \/ /\ s.kind # "refresh" /\ s.mine[c].active
              /\ \E found \in Located(s) :
                   ~found[1].located /\ Put(w, Handled(s, found[1], found[2]))

\* A snapshot and an assessment with this verdict are added, and the next
\* check follows in 30 to 180 minutes.
Assessed(s, row, verdict) == Handled(s, [row EXCEPT !.verdict = verdict], "later")

\* Mutant of Endangered: no active alert is looked for.
EndangeredAnew(s, row) ==
    [Assessed(s, row, "danger") EXCEPT !.raise = @ \cup {Head(s.todo)}]

\* _upsert_weather_alert: an active alert gets a new text, or one is written.
Endangered(s, row) ==
    [Assessed(s, row, "danger") EXCEPT
        !.raise = IF Active(Head(s.todo)) = {} THEN @ \cup {Head(s.todo)} ELSE @]

\* _resolve_active_weather_alert: the first active alert, if there is one.
Calmed(s, row) ==
    {[Assessed(s, row, "calm") EXCEPT !.resolve = @ \cup chosen] :
        chosen \in IF Active(Head(s.todo)) = {} THEN {{}}
                   ELSE {{n} : n \in Active(Head(s.todo))}}

\* generate_weather_alert_decision, or "none": the model is not configured or fails.
Generated == Verdict

\* _fallback_decision: what the score says, whatever the forecast.
Fallback == {"danger", "calm"}

\* _finalize_decision: the verdict of the model goes before that of the score.
Finalized == (Generated \ {"none"}) \cup Fallback

\* _create_assessment and what run_case_monitor does about its verdict.
Decided(s, row) ==
    UNION {IF v = "danger" THEN {Endangered(s, row)} ELSE Calmed(s, row) : v \in Finalized}

\* The rest of run_case_monitor, for a case whose location is known.
Assess(w) ==
    LET s == open[w]
    IN  /\ Working(w)
        /\ s.kind # "refresh" /\ s.mine[Head(s.todo)].active
        /\ \E found \in Located(s) :
            /\ found[1].located
            /\ \E next \in Decided(s, found[1]) : Put(w, next)

\* fetch_forecast, and fetch_warnings if there is a feed of warnings, answer or raise
\* an exception.
Forecast(c) == IF c \in Unreachable THEN {"summary", "exception"} ELSE {"summary"}
Warnings(c) == IF c \in Unreachable THEN {"list", "exception"} ELSE {"list"}

\* The forecast or the warnings cannot be had: the scan goes on with the next
\* case and keeps what was staged, a run is rolled back.
AssessFails(w) ==
    LET s == open[w]
        c == Head(s.todo)
    IN  /\ Working(w)
        /\ s.kind # "refresh" /\ s.mine[c].active
        /\ "exception" \in Forecast(c) \cup Warnings(c)
        /\ \E found \in Located(s) :
            /\ found[1].located
            /\ Put(w, IF s.kind = "run" THEN Idle ELSE Handled(s, found[1], found[2]))

\* A row after the flush; an assessment is a row of its own.
MergeRow(now, loaded, mine, assessed) ==
    [now EXCEPT !.located = Flushed(@, loaded.located, mine.located),
                !.geocode = Flushed(@, loaded.geocode, mine.geocode),
                !.verdict = IF assessed THEN mine.verdict ELSE @]

\* The order after some cases left it and others came to it, at the time they
\* were handled, which may be before that of cases that came meanwhile.
Order(moved, again) ==
    LET kept == Keep(due, Cases \ moved)
    IN  {s \in SetToSeqs(Range(kept) \cup again) : Keep(s, Cases \ again) = kept}

\* The cases whose place or next check a session writes.
Written(s) == {c \in DOMAIN s.loaded : s.mine[c] # s.loaded[c] \/ s.move[c] # "keep"}

\* db.commit() of the task or the route.
Commit(w) ==
    /\ open[w] # Idle /\ open[w].todo = <<>>
    /\ LET s == open[w]
           With(move) == {c \in DOMAIN s.move : s.move[c] = move}
           moved == With("now") \cup With("later") \cup With("null")
           settled == [n \in DOMAIN alerts |-> [alerts[n] EXCEPT !.active = @ /\ n \notin s.resolve]]
       IN  /\ Fits(settled, s.raise)
           /\ rows' = [c \in DOMAIN rows |->
                  IF c \in DOMAIN s.mine
                  THEN MergeRow(rows[c], s.loaded[c], s.mine[c], s.move[c] = "later")
                  ELSE rows[c]]
           /\ due' \in Order(moved, With("now"))
           /\ later' = (later \ moved) \cup With("later")
           /\ alerts' = Raised(settled, s.raise, "monitor")
           /\ open' = Overtaken([open EXCEPT ![w] = Idle], Written(s), With("later"))
           /\ outrun' = [c \in Cases |->
                  IF c \in Written(s) \cap s.behind /\ outrun[c] < 2
                  THEN outrun[c] + 1 ELSE outrun[c]]
           /\ overlapped' = overlapped \cup (With("later") \cap s.late)
    /\ UNCHANGED events

\* The worker is lost, or the database refuses the commit.
Lose(w) ==
    /\ open[w] # Idle
    /\ Event
    /\ open' = [open EXCEPT ![w] = Idle]
    /\ UNCHANGED <<rows, due, later, alerts, outrun, overlapped>>

\* Time passes: the next check of a case has come.
ComeDue(c) ==
    /\ c \in later
    /\ later' = later \ {c}
    /\ due' = Append(due, c)
    /\ UNCHANGED <<rows, alerts, open, outrun, overlapped, events>>

-----------------------------------------------------------------------------
Staff ==
    \/ \E c \in Cases, named, located \in BOOLEAN :
          CreateCase(c, named, located) \/ UpdateLocation(c, named, located)
    \/ \E c \in Cases : ChangeStatus(c) \/ RaiseAlert(c) \/ MoveSimulation(c)
    \/ \E n \in AlertIds : ResolveAlert(n) \/ ActivateAlert(n)
    \/ \E w \in Workers, c \in Cases : StartRun(w, c) \/ StartRefresh(w, c)

Work(w) == Refresh(w) \/ Assess(w) \/ AssessFails(w) \/ Commit(w)

Next ==
    \/ Staff
    \/ \E w \in Workers : StartScan(w) \/ Work(w) \/ Lose(w)
    \/ \E c \in Cases : ComeDue(c)

Spec == Init /\ [][Next]_vars

\* Beat starts a scan every 30 minutes and a worker ends what it has begun.
FairSpec == Spec /\ \A w \in Workers : WF_vars(StartScan(w)) /\ WF_vars(Work(w))

-----------------------------------------------------------------------------
(***************************************************************************)
(* What holds although sessions of the monitor overlap, and staff act      *)
(* between their steps.                                                    *)
(***************************************************************************)

Watched(c) == {n \in Active(c) : alerts[n].opened = "monitor"}

\* Sessions that overlap look for an alert of a case before any of them writes
\* one, and write one each: but a case never has more active alerts of the monitor
\* than there are workers, however long it goes on (_upsert_weather_alert).
AlertsBounded == \A c \in DOMAIN rows : Cardinality(Watched(c)) <= Cardinality(Workers)

\* The alerts of a case follow its newest assessment: the monitor has at most
\* one alert of its own active, and none once an assessment found no danger,
\* unless staff raised or reopened an alert of the case; until a commit assesses
\* the case by what it looked up before another assessment was committed.
AlertsFollowVerdict ==
    \A c \in DOMAIN rows \ overlapped :
        /\ Cardinality(Watched(c)) <= 1
        /\ (\A n \in DOMAIN alerts : c \in alerts[n].been => alerts[n].opened = "monitor")
              => (Active(c) # {} => rows[c].verdict = "danger")

\* A case whose location is resolved is scheduled: the scans come back to it.
\* It takes two commits outrun by staff or by other sessions to strand one: the
\* first leaves a case that has a next check in manual_review, the second finds
\* that again, writes nothing over the status that was resolved meanwhile, and
\* takes the check away (refresh_case_location).
ResolvedIsScheduled ==
    \A c \in DOMAIN rows :
        rows[c].geocode = "resolved" /\ outrun[c] < 2 => c \in Range(due) \cup later

Waits(c) == c \in Range(due) /\ rows[c].active

\* Cases that fail whenever they are handled keep their old place, and there are
\* as many before this one as a scan takes.
Blocked(c) ==
    \E n \in DOMAIN due :
        /\ due[n] = c
        /\ Cardinality({m \in 1 .. n - 1 : due[m] \in Unreachable /\ Waits(due[m])}) >= Limit


=============================================================================
