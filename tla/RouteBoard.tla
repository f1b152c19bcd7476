------------------------------ MODULE RouteBoard -----------------------------
(***************************************************************************)
(* The subway route of the map page (frontend/app/discover/page.tsx) and   *)
(* its schedule: when it is calculated, what is fetched for it, and what   *)
(* of that is kept for the next calculation.  The map of the lines is kept *)
(* twice, by src/lib/subwayLineMap.ts and by src/lib/transitTimetable.ts,  *)
(* the rows of the timetables by the latter.  What a calculation does with *)
(* them is RouteSchedule's.                                                *)
(***************************************************************************)
EXTENDS MapPage, Integers, Sequences, FiniteSets

CONSTANTS Minutes, NoMinute,
          Routes,          \* bound: the routes the user makes
          MaxChanges,      \* bound: changes of route, minute or station list
          MaxFaults        \* bound: requests that fail

ASSUME BoardAssumption ==
    /\ NoMinute \notin Minutes /\ Routes \subseteq Seq(Stations)
    /\ MaxChanges \in Nat /\ MaxFaults \in Nat

VARIABLES ids,         \* subwayRouteStationIds
          minute,      \* subwayDepartureTime
          schedule,    \* subwaySchedule: <<>>, or what it was calculated for
          status,      \* subwayScheduleStatus
          calcDue,     \* the effect that calculates is to run again
          calcs,       \* calculations under way
          lineMap,     \* lineMapPromise of subwayLineMap.ts
          timetableMap,   \* lineMapPromise of transitTimetable.ts
          boardMap,    \* the line map of the board
          cache,       \* timetableCache, by station
          changes, faults      \* counters of the bounds

boardVars == <<ids, known, minute, schedule, status, calcDue, calcs,
          lineMap, timetableMap, boardMap, cache, changes, faults>>
maps == <<lineMap, timetableMap, boardMap>>

(* subwayRouteStations: stations the page does not know are left out *)
Of(stations, r) ==
    LET kept[i \in 0..Len(r)] ==
            IF i = 0 THEN <<>>
            ELSE IF r[i] \in stations THEN Append(kept[i - 1], r[i]) ELSE kept[i - 1]
    IN  kept[Len(r)]
Route == Of(known, ids)

(* hop is 0 until the map is there, then the hop whose rows are waited for;
   active is cleared by the effect's clean-up. *)
Calc == [route : Seq(Stations), minute : Minutes, hop : Nat, active : BOOLEAN]
Needs(c) == IF c.hop = 0 THEN {} ELSE {c.route[c.hop], c.route[c.hop + 1]}

BoardInit ==
    /\ ids = <<>> /\ known = {} /\ minute = NoMinute
    /\ schedule = <<>> /\ status = "idle" /\ calcDue = FALSE /\ calcs = {}
    /\ lineMap = "none" /\ timetableMap = "none" /\ boardMap = "none"
    /\ cache = [s \in Stations |-> "none"]
    /\ changes = 0 /\ faults = 0

-----------------------------------------------------------------------------
(* What makes the schedule another one. *)

Change == changes < MaxChanges /\ changes' = changes + 1 /\ calcDue' = TRUE

Cleared(n) ==
    /\ schedule' = <<>>
    /\ status' = IF n >= 2 THEN "loading" ELSE "idle"

(* replaceSubwayRoute, by the handlers of the board and the answers that
   bring a plan *)
ReplaceRoute(r) ==
    /\ Change /\ ids' = r /\ Cleared(Len(r))
    /\ UNCHANGED <<known, minute, calcs, maps, cache, faults>>

(* syncClock in a new minute *)
SyncClock(m) ==
    /\ Change /\ m # minute /\ minute' = m /\ Cleared(Len(ids))
    /\ UNCHANGED <<ids, known, calcs, maps, cache, faults>>

(* loadStations, and the details that add a station *)
StationsJoin(new) ==
    /\ Change /\ ~(new \subseteq known) /\ known' = known \cup new
    /\ UNCHANGED <<ids, minute, schedule, status, calcs, maps, cache, faults>>

StationsLost ==
    /\ Change /\ faults < MaxFaults /\ faults' = faults + 1 /\ known' = {}
    /\ UNCHANGED <<ids, minute, schedule, status, calcs, maps, cache>>

-----------------------------------------------------------------------------
(* The map of the lines. *)

(* The board is mounted and asks for it, once *)
BoardMounts ==
    /\ boardMap = "none"
    /\ boardMap' = IF lineMap = "here" THEN "shown" ELSE "waiting"
    /\ lineMap' = IF lineMap = "none" THEN "pending" ELSE lineMap
    /\ UNCHANGED <<ids, known, minute, schedule, status, calcDue, calcs,
                   timetableMap, cache, changes, faults>>

(* Of what is on it nothing is told apart: lines whose list is refused are
   missing, for as long as the page lives, and so may be any station. *)
MapArrives ==
    /\ lineMap = "pending" /\ lineMap' = "here"
    /\ boardMap' = IF boardMap = "waiting" THEN "shown" ELSE boardMap
    /\ timetableMap' = IF timetableMap = "pending" THEN "here" ELSE timetableMap
    /\ UNCHANGED <<ids, known, minute, schedule, status, calcDue, calcs, cache,
                   changes, faults>>

(* A request for a list rejects: the one module forgets the promise, the
   other keeps it. *)
MapFails ==
    /\ lineMap = "pending" /\ lineMap' = "none"
    /\ faults < MaxFaults /\ faults' = faults + 1
    /\ boardMap' = IF boardMap = "waiting" THEN "error" ELSE boardMap
    /\ timetableMap' = IF timetableMap = "pending" THEN "rejected" ELSE timetableMap
    /\ UNCHANGED <<ids, known, minute, schedule, status, calcDue, calcs, cache, changes>>

-----------------------------------------------------------------------------
(* A calculation. *)

(* Mutant: no clean-up. *)
EffectRunsNoCleanUp ==
    /\ calcDue /\ calcDue' = FALSE
    /\ IF Len(Route) < 2 \/ minute = NoMinute THEN UNCHANGED <<calcs, lineMap, timetableMap>>
       ELSE /\ calcs' = calcs \cup
                 {[route |-> Route, minute |-> minute, hop |-> 0, active |-> TRUE]}
            /\ timetableMap' = IF timetableMap # "none" THEN timetableMap
                               ELSE IF lineMap = "here" THEN "here" ELSE "pending"
            /\ lineMap' = IF timetableMap = "none" /\ lineMap = "none" THEN "pending"
                          ELSE lineMap
    /\ UNCHANGED <<ids, known, minute, schedule, status, boardMap, cache, changes, faults>>

(* Mutant: the minute is not asked for. *)
EffectRunsUntimed ==
    /\ calcDue /\ calcDue' = FALSE
    /\ LET old == {[c EXCEPT !.active = FALSE] : c \in calcs}
       IN  IF Len(Route) < 2
           THEN calcs' = old /\ UNCHANGED <<lineMap, timetableMap>>
           ELSE /\ calcs' = old \cup
                     {[route |-> Route, minute |-> minute, hop |-> 0, active |-> TRUE]}
                /\ timetableMap' = IF timetableMap # "none" THEN timetableMap
                                   ELSE IF lineMap = "here" THEN "here" ELSE "pending"
                /\ lineMap' = IF timetableMap = "none" /\ lineMap = "none" THEN "pending"
                              ELSE lineMap
    /\ UNCHANGED <<ids, known, minute, schedule, status, boardMap, cache, changes, faults>>

(* The effect, with the clean-up of its last run, and getLineMap: at once
   after a click, but after the rendering when the clock or an answer has
   made the change *)
EffectRuns ==
    /\ calcDue /\ calcDue' = FALSE
    /\ LET old == {[c EXCEPT !.active = FALSE] : c \in calcs}
       IN  IF Len(Route) < 2 \/ minute = NoMinute
           THEN calcs' = old /\ UNCHANGED <<lineMap, timetableMap>>
           ELSE /\ calcs' = old \cup
                     {[route |-> Route, minute |-> minute, hop |-> 0, active |-> TRUE]}
                /\ timetableMap' = IF timetableMap # "none" THEN timetableMap
                                   ELSE IF lineMap = "here" THEN "here" ELSE "pending"
                /\ lineMap' = IF timetableMap = "none" /\ lineMap = "none" THEN "pending"
                              ELSE lineMap
    /\ UNCHANGED <<ids, known, minute, schedule, status, boardMap, cache, changes, faults>>

(* What the page makes of a calculation that is given up *)
Failed(cs) ==
    /\ calcs' = calcs \ cs
    /\ IF \E c \in cs : c.active THEN schedule' = <<>> /\ status' = "error"
       ELSE UNCHANGED <<schedule, status>>

Succeeded(c) ==
    /\ calcs' = calcs \ {c}
    /\ IF c.active
       THEN schedule' = <<[route |-> c.route, minute |-> c.minute]>> /\ status' = "success"
       ELSE UNCHANGED <<schedule, status>>

(* Once the rows of a hop are there (or the map), those of the next one are
   asked for, unless they are kept or under way. *)
NextHop(c) ==
    /\ IF c.hop = 0 THEN timetableMap = "here"
       ELSE \A s \in Needs(c) : cache[s] = "kept"
    /\ IF c.hop = Len(c.route) - 1 THEN Succeeded(c) /\ UNCHANGED cache
       ELSE LET d == [c EXCEPT !.hop = c.hop + 1]
            IN  /\ calcs' = (calcs \ {c}) \cup {d}
                /\ cache' = [s \in Stations |->
                     IF s \in Needs(d) /\ cache[s] = "none" THEN "pending" ELSE cache[s]]
                /\ UNCHANGED <<schedule, status>>
    /\ UNCHANGED <<ids, known, minute, calcDue, maps, changes, faults>>

(* The map is not to be had, or it has not the next station, or no way for the
   hop whose rows give no train. *)
NoMap(c) ==
    /\ IF c.hop = 0 THEN timetableMap \in {"rejected", "here"}
       ELSE \A s \in Needs(c) : cache[s] = "kept"
    /\ Failed({c})
    /\ UNCHANGED <<ids, known, minute, calcDue, maps, cache, changes, faults>>

RowsArrive(s) ==
    /\ cache[s] = "pending" /\ cache' = [cache EXCEPT ![s] = "kept"]
    /\ UNCHANGED <<ids, known, minute, schedule, status, calcDue, calcs, maps,
                   changes, faults>>

(* Mutant: the page is not told. *)
RowsFailSilently(s) ==
    /\ cache[s] = "pending" /\ cache' = [cache EXCEPT ![s] = "none"]
    /\ faults < MaxFaults /\ faults' = faults + 1
    /\ calcs' = {c \in calcs : s \notin Needs(c)}
    /\ UNCHANGED <<ids, known, minute, schedule, status, calcDue, maps, changes>>

(* A request for rows that fails is forgotten, and fails every calculation
   that waits for it. *)
RowsFail(s) ==
    /\ cache[s] = "pending" /\ cache' = [cache EXCEPT ![s] = "none"]
    /\ faults < MaxFaults /\ faults' = faults + 1
    /\ Failed({c \in calcs : s \in Needs(c)})
    /\ UNCHANGED <<ids, known, minute, calcDue, maps, changes>>

-----------------------------------------------------------------------------
UserNext ==
    \/ \E r \in Routes : ReplaceRoute(r)
    \/ \E m \in Minutes : SyncClock(m)
    \/ \E new \in SUBSET Stations : StationsJoin(new)
    \/ StationsLost

MapNext == MapArrives \/ MapFails

CalcNext == \E c \in calcs : NextHop(c) \/ NoMap(c)

RowsNext == \E s \in Stations : RowsArrive(s) \/ RowsFail(s)

BoardNext == UserNext \/ BoardMounts \/ MapNext \/ EffectRuns \/ CalcNext \/ RowsNext

(* Effects run, promises are taken and requests answered, one way or another *)
BoardSpec ==
    /\ BoardInit /\ [][BoardNext]_boardVars
    /\ WF_boardVars(EffectRuns) /\ WF_boardVars(MapNext)
    /\ WF_boardVars(CalcNext) /\ WF_boardVars(RowsNext)

-----------------------------------------------------------------------------
BoardTypeOK ==
    /\ ids \in Seq(Stations) /\ known \subseteq Stations
    /\ minute \in Minutes \cup {NoMinute}
    /\ schedule # <<>> =>
         /\ Len(schedule) = 1 /\ DOMAIN schedule[1] = {"route", "minute"}
         /\ schedule[1].route \in Seq(Stations) /\ schedule[1].minute \in Minutes
    /\ status \in {"idle", "loading", "success", "error"} /\ calcDue \in BOOLEAN
    /\ calcs \subseteq Calc
    /\ lineMap \in {"none", "pending", "here"}
    /\ timetableMap \in {"none", "pending", "here", "rejected"}
    /\ boardMap \in {"none", "waiting", "shown", "error"}
    /\ cache \in [Stations -> {"none", "pending", "kept"}]

Settled == ~calcDue /\ \A c \in calcs : ~c.active

(* Once nothing is under way any more, the schedule of a route is that of the *)
(* stations and the minute shown, whatever order the calculations ended in    *)
(* (one that ends before the clean-up may stay if no calculation follows,     *)
(* that is with less than two stations).                                      *)
SettledScheduleFits ==
    Settled /\ schedule # <<>> /\ Len(Route) >= 2 =>
        schedule = <<[route |-> Route, minute |-> minute]>>

(* A route of two stations the page knows is not "loading" for ever: the      *)
(* calculation ends with times or an error, through failures and changes.     *)
LoadingEnds ==
    []<>(status = "loading" => Len(Route) < 2 \/ minute = NoMinute)
=============================================================================
