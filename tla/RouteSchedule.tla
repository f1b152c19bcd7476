---------------------------- MODULE RouteSchedule ---------------------------
(***************************************************************************)
(* The calculation of a route's times from the timetables                  *)
(* (calculateSubwayRouteSchedule of frontend/src/lib/transitTimetable.ts): *)
(* one hop after the other, by a direct train, by two trains with a        *)
(* change, or, without times, along the map of the lines; and what the     *)
(* route board shows of the result (src/components/SubwayRouteBoard.tsx).  *)
(***************************************************************************)
EXTENDS LineMap

CONSTANTS Networks,       \* bound: what the lists of the lines may be
          Timetables,     \* bound: what the rows of the day's trains may be
          Routes,         \* bound: the stations of the routes asked for
          Asked,          \* bound: the minutes asked for
          NoTrain, NoTime,
          Day,            \* minutes of a day (1440)
          MaxLeg,         \* MAX_LEG_MINUTES (180)
          ChangeTime      \* minutes between two trains (2)

ASSUME ScheduleAssumption ==
    /\ Day \in Nat \ {0} /\ MaxLeg \in Nat /\ ChangeTime \in Nat
    /\ NoTime \notin Int /\ Asked \subseteq Nat
    /\ Networks \subseteq [Lines -> Seq(Stations)]
    /\ \A t \in Timetables : \A r \in t : {r.dep, r.arr} \subseteq Nat \cup {NoTime}
    /\ \A r \in Routes : r \in Seq(Stations) /\ Len(r) >= 2

VARIABLES lists,       \* the map of the lines
          rows,        \* the rows of /stations/{id}/timetables
          route, asked,
          hop,         \* hops done
          legs, stops,
          earliest,    \* earliestMinute
          timed,       \* fullyTimed
          outcome

vars == <<lists, rows, route, asked, hop, legs, stops, earliest, timed, outcome>>
inputs == <<lists, rows, route, asked>>

Leg(from, to, line, train, dep, arr) ==
    [from |-> from, to |-> to, line |-> line, train |-> train,
     dep |-> dep, arr |-> arr]
Stop(id, minute) == [id |-> id, minute |-> minute]

-----------------------------------------------------------------------------
(* findNextTrainOnLine *)

Departs(row) == IF row.dep # NoTime THEN row.dep ELSE row.arr
Arrives(row) == IF row.arr # NoTime THEN row.arr ELSE row.dep

(* A time that is not after the departure is one of a later day. *)
AfterDeparture(minute, dep) ==
    IF minute > dep THEN minute ELSE minute + Day * ((dep - minute) \div Day + 1)

RowsAt(s, l) == {r \in rows : r.station = s /\ r.line = l /\ r.train # NoTrain
                              /\ Departs(r) # NoTime}

(* The trains of a line that may be taken, by their numbers *)
Trains(from, to, l, after) ==
    LET same == {p \in RowsAt(from, l) \X RowsAt(to, l) :
                    /\ p[1].train = p[2].train /\ p[1].dir = p[2].dir
                    /\ Departs(p[1]) >= after}
        leg(p) == Leg(from, to, l, p[1].train, Departs(p[1]),
                      AfterDeparture(Arrives(p[2]), Departs(p[1])))
    IN  {t \in {leg(p) : p \in same} : t.arr - t.dep <= MaxLeg}

(* Mutant: the last to leave. *)
NextTrainsLast(from, to, l, after) ==
    LET all == Trains(from, to, l, after)
    IN  {t \in all : \A u \in all : t.dep >= u.dep}

(* The first to leave, and of these the first to arrive: one of several if
   they are the same in both *)
NextTrains(from, to, l, after) ==
    LET all == Trains(from, to, l, after)
    IN  {t \in all : \A u \in all :
            \/ t.dep < u.dep
            \/ t.dep = u.dep /\ t.arr <= u.arr}

-----------------------------------------------------------------------------
(* resolveHop *)

Shared(s, t) == LinesAt(lists, s) \cap LinesAt(lists, t)

(* Over the lines both stations are on, in their order *)
FirstToArrive(from, to, after) ==
    LET all == UNION {NextTrains(from, to, l, after) : l \in Shared(from, to)}
    IN  {t \in all : \A u \in all :
            \/ t.arr < u.arr
            \/ t.arr = u.arr /\ t.line <= u.line}

(* findTransferCandidates *)
Changes(from, to) ==
    {s \in Known(lists) \ {from, to} : Shared(from, s) # {} /\ Shared(s, to) # {}}

(* Mutant: no time to change. *)
ViaAtOnce(from, change, to, after) ==
    UNION {{<<t, u>> : u \in FirstToArrive(change, to, after)} :
               t \in FirstToArrive(from, change, after)}

(* tryTransferVia *)
Via(from, change, to, after) ==
    UNION {{<<t, u>> : u \in FirstToArrive(change, to, t.arr + ChangeTime)} :
               t \in FirstToArrive(from, change, after)}

(* The hops by train: with a change only where the stations share no line *)
TimedHops(from, to, after) ==
    IF Shared(from, to) # {} THEN {<<t>> : t \in FirstToArrive(from, to, after)}
    ELSE LET all == UNION {Via(from, s, to, after) : s \in Changes(from, to)}
         IN  {h \in all : \A g \in all :
                 \/ h[2].arr < g[2].arr
                 \/ h[2].arr = g[2].arr
                    /\ Rank(lists, h[1].to) <= Rank(lists, g[1].to)}

TimedStops(h) == [i \in DOMAIN h |-> Stop(h[i].to, h[i].arr)]

(* buildPathOnlyHop: a leg for every edge, but a stop only where the line
   changes *)
PathLegs(path) ==
    [i \in DOMAIN path |->
        Leg(path[i].from, path[i].to, path[i].line, NoTrain, NoTime, NoTime)]

PathStops(path) ==
    LET stopsTo[n \in 0..Len(path)] ==
            IF n = 0 THEN <<>>
            ELSE LET before == stopsTo[n - 1]
                 IN  IF n = Len(path) \/ path[n + 1].line # path[n].line
                     THEN Append(before, Stop(path[n].to, NoTime)) ELSE before
    IN  stopsTo[Len(path)]

RealLegs(h) == [i \in DOMAIN h |-> [h[i] EXCEPT !.line = Real[h[i].line]]]

-----------------------------------------------------------------------------
Init ==
    /\ lists \in Networks /\ rows \in Timetables
    /\ route \in Routes /\ asked \in Asked
    /\ hop = 0 /\ legs = <<>> /\ stops = <<Stop(Head(route), asked)>>
    /\ earliest = asked /\ timed = TRUE /\ outcome = "running"

From == route[hop + 1]
To == route[hop + 2]
OnMap == {From, To} \subseteq Known(lists)

Ride ==
    /\ outcome = "running" /\ hop < Len(route) - 1 /\ OnMap
    /\ \E h \in TimedHops(From, To, earliest) :
         /\ legs' = legs \o RealLegs(h) /\ stops' = stops \o TimedStops(h)
         /\ earliest' = Last(h).arr
    /\ hop' = hop + 1
    /\ UNCHANGED <<inputs, timed, outcome>>

FollowMap ==
    /\ outcome = "running" /\ hop < Len(route) - 1 /\ OnMap
    /\ TimedHops(From, To, earliest) = {}
    /\ LET path == FindPath(lists, From, To)
       IN  /\ path # <<>>
           /\ legs' = legs \o PathLegs(path) /\ stops' = stops \o PathStops(path)
    /\ timed' = FALSE /\ hop' = hop + 1
    /\ UNCHANGED <<inputs, earliest, outcome>>

Give(result) ==
    /\ outcome' = result
    /\ UNCHANGED <<inputs, hop, legs, stops, earliest, timed>>

NoWay ==
    /\ outcome = "running" /\ hop < Len(route) - 1
    /\ ~OnMap \/ (TimedHops(From, To, earliest) = {}
                  /\ FindPath(lists, From, To) = <<>>)
    /\ Give("no way")

(* One of the requests for rows is answered with an error. *)
RequestFails ==
    /\ outcome = "running" /\ hop < Len(route) - 1 /\ OnMap
    /\ Shared(From, To) # {} \/ Changes(From, To) # {}
    /\ Give("no rows")

(* The first stop gets the time the first train leaves. *)
Finish ==
    /\ outcome = "running" /\ hop = Len(route) - 1
    /\ LET rides == {i \in DOMAIN legs : legs[i].dep # NoTime}
       IN  stops' = IF rides = {} THEN stops
                    ELSE [stops EXCEPT ![1].minute = legs[Min(rides)].dep]
    /\ outcome' = "done"
    /\ UNCHANGED <<inputs, hop, legs, earliest, timed>>

Next == Ride \/ FollowMap \/ NoWay \/ RequestFails \/ Finish

Spec == Init /\ [][Next]_vars

-----------------------------------------------------------------------------
(* displayStops of the route board: the line whose colour a stop has *)
Badge(i) == IF i <= Len(legs) THEN legs[i].line ELSE Last(legs).line

-----------------------------------------------------------------------------
Minute == Nat \cup {NoTime}

TypeOK ==
    /\ hop \in 0..(Len(route) - 1)
    /\ \A i \in DOMAIN legs :
         /\ legs[i].from \in Stations /\ legs[i].to \in Stations
         /\ legs[i].line \in Range(Real)
         /\ legs[i].dep \in Minute /\ legs[i].arr \in Minute
    /\ \A i \in DOMAIN stops : stops[i].id \in Stations /\ stops[i].minute \in Minute
    /\ earliest \in Nat /\ timed \in BOOLEAN
    /\ outcome \in {"running", "done", "no way", "no rows"}

(* The legs join up, from the first station to the last. *)
LegsJoin ==
    /\ \A i \in 1..(Len(legs) - 1) : legs[i].to = legs[i + 1].from
    /\ hop > 0 => legs[1].from = route[1] /\ Last(legs).to = route[hop + 1]

(* No train leaves before the traveller has arrived, with the time to change
   where no station was chosen, and none before the minute asked. *)
TrainsCaught ==
    /\ \A i, j \in DOMAIN legs : i < j /\ legs[i].arr # NoTime /\ legs[j].dep # NoTime =>
         legs[j].dep >= legs[i].arr +
             (IF j = i + 1 /\ legs[i].to \notin Range(route) THEN ChangeTime ELSE 0)
    /\ \A i \in DOMAIN legs : legs[i].dep # NoTime =>
         asked <= legs[i].dep /\ legs[i].dep < legs[i].arr

(* The stations the user chose are stops in their order, and so is every
   station where the line changes. *)
StopsComplete ==
    LET chosen == SubSeq(route, 1, hop + 1)
    IN  /\ \E f \in [DOMAIN chosen -> DOMAIN stops] :
             /\ \A i \in DOMAIN chosen : stops[f[i]].id = chosen[i]
             /\ \A i, j \in DOMAIN chosen : i < j => f[i] < f[j]
        /\ \A i \in 1..(Len(legs) - 1) : legs[i].line # legs[i + 1].line =>
             \E j \in DOMAIN stops : stops[j].id = legs[i].to

(* If it has all its times, leg i leaves stop i, so that the badge, the time
   and the train of a stop belong together. *)
TimedBadgesFit ==
    timed => /\ Len(stops) = Len(legs) + 1
             /\ \A i \in DOMAIN legs :
                    stops[i].id = legs[i].from /\ Badge(i) = legs[i].line

(* The route can be travelled as it is shown: its legs are of lines that run   *)
(* (not of their branches' lists, TypeOK) and join up, its trains             *)
(* are caught, and whoever follows the stops of the board does not miss a     *)
(* change, nor a colour that is not the line's if all the times are known.    *)
CanBeTravelled ==
    TypeOK /\ LegsJoin /\ TrainsCaught /\ StopsComplete /\ TimedBadgesFit

(* A reference: every way to ride a hop, and whether trains keep their order. *)
Rides(from, to, after) ==
    LET direct(s, t, m) == UNION {Trains(s, t, l, m) : l \in Shared(s, t)}
    IN  IF Shared(from, to) # {} THEN {t.arr : t \in direct(from, to, after)}
        ELSE UNION {UNION {{u.arr : u \in direct(s, to, t.arr + ChangeTime)} :
                               t \in direct(from, s, after)} : s \in Stations \ {from, to}}

NoneOvertaken ==
    \A l \in Lines : \A s, t \in Range(lists[l]) :
        LET all == Trains(s, t, l, 0)
        IN  \A g, h \in all : g.dep < h.dep => g.arr <= h.arr

(* Where no train overtakes another, the trains chosen for a hop are the      *)
(* first to arrive of all that share a line with both stations, or of all     *)
(* pairs with one change; and a hop has no times only if there are none.      *)
ArrivesFirst ==
    [][hop' = hop + 1 /\ NoneOvertaken =>
         LET all == Rides(From, To, earliest)
         IN  IF all = {} THEN ~timed'
             ELSE earliest' \in all /\ \A m \in all : earliest' <= m]_vars

(* Stations within n edges of one, the reference for the search *)
Within(s) ==
    LET edges == Range(Edges(lists))
        beside(near) == near \cup {e.to : e \in {e \in edges : e.from \in near}}
                             \cup {e.from : e \in {e \in edges : e.to \in near}}
        within[n \in 0..Cardinality(Stations)] ==
            IF n = 0 THEN {s} ELSE LET near == within[n - 1] IN beside(near)
    IN  within

(* Without times a hop takes the fewest stations the map allows, and the      *)
(* calculation finds no way only where the map has none.                      *)
ShortestWay ==
    [][/\ hop' = hop + 1 /\ timed' = FALSE /\ earliest' = earliest
              /\ Last(legs').dep = NoTime =>
            LET n == Len(legs') - Len(legs)
            IN  To \in Within(From)[n] /\ To \notin Within(From)[n - 1]
       /\ outcome' = "no way" =>
            From = To \/ To \notin Within(From)[Cardinality(Stations)]]_vars
=============================================================================
