----------------------------- MODULE PlanEditor -----------------------------
(***************************************************************************)
(* The plan editor of the map page (frontend/app/discover/page.tsx): one   *)
(* page edits one plan of the user, saves it by itself, and creates, opens *)
(* and deletes plans.  Every call passes the adapter                       *)
(* (src/lib/legacyApiAdapter.ts), which rewrites it for the backend and    *)
(* keeps what the backend does not store in the browser.                   *)
(***************************************************************************)
EXTENDS Integers, FiniteSets, Sequences, SequencesExt

CONSTANTS Stations, Places,
          NoStation,
          Minutes,        \* the schedules of the route, by what makes them differ
          OnSchedule,     \* the stations a schedule has a time for
          Near,           \* <<place, station>>: the place is reached from there
          LastUntimed,    \* last index whose made-up hour is below 24 (13)
          MaxPlans,       \* bound: plans ever created
          MaxItems,       \* bound: items of a plan
          MaxRows,        \* bound: rows the backend ever adds
          MaxEdits,       \* bound: edits of the user
          MaxCalls,       \* bound: calls in flight
          MaxFaults       \* bound: calls that fail for no reason of their own

ASSUME PlanAssumption ==
    /\ Stations # {} /\ NoStation \notin Stations /\ OnSchedule \subseteq Stations
    /\ Near \subseteq Places \X Stations
    /\ MaxPlans \in Nat \ {0} /\ MaxItems \in Nat \ {0, 1} /\ MaxRows \in Nat \ {0}
    /\ LastUntimed \in Nat /\ MaxEdits \in Nat /\ MaxCalls \in Nat \ {0}
    /\ MaxFaults \in Nat

VARIABLES plan,       \* plannerPlan: <<>> or <<[id, items]>>
          dirty,      \* plannerDirty
          pending,    \* plannerPending
          readOnly,   \* plannerReadOnly
          schedule,   \* subwaySchedule: the minute it is for, or none
          retimed,    \* nextPlan of the effect that copies its times, while
                      \* the task that writes it waits: <<>> or <<[id, items]>>
          url,        \* what the address asks to be opened, once
          server,     \* travel_plans: <<items>> per id, <<>> once deleted
          calls,      \* calls in flight
          rows, edits, faults,    \* counters of the bounds
          wanted,     \* history: per plan, the items after the last edit
          racing,     \* history: plans last edited during a save of theirs
          crossed     \* history: plans saved or deleted while they were being
                      \* saved or deleted, or whose deletion's answer was lost

vars == <<plan, dirty, pending, readOnly, schedule, retimed, url, server,
          calls, rows, edits, faults, wanted, racing, crossed>>
shown == <<plan, dirty, readOnly>>
history == <<wanted, racing, crossed>>

PlanIds == 1..MaxPlans
PublicId == 0                \* `recruitment-...`, no plan of the user
Tags == 1..(2 * MaxEdits + 2 * MaxPlans + 1)
Times == {"none", "picked", "made up"} \cup Minutes
NoSchedule == "none"

(* An item.  row is planItemId once the backend has stored it; an item that
   was just added has a random id, which only the page knows.  at is the
   station a PLACE was saved with.  tag is history: what the user added. *)
Item == [tag : Tags, kind : {"STATION", "PLACE"},
         what : Stations \cup Places, at : Stations \cup {NoStation},
         row : 0..MaxRows, time : Times]

(* Mutant: a new item names its place as its station. *)
NewItemAtPlace(tag, kind, what) ==
    [tag |-> tag, kind |-> kind, what |-> what, at |-> what,
     row |-> 0, time |-> "none"]

NewItem(tag, kind, what) ==
    [tag |-> tag, kind |-> kind, what |-> what, at |-> NoStation,
     row |-> 0, time |-> "none"]
TagsOf(items) == [i \in DOMAIN items |-> items[i].tag]
RowsOf(items) == {items[i].row : i \in DOMAIN items}

-----------------------------------------------------------------------------
(* legacyPlanWrite: what a save or a creation sends to the backend. *)

(* Where the stations are *)
StationsIn(items) == {i \in DOMAIN items : items[i].kind = "STATION"}

StartStation(items) ==
    IF StationsIn(items) # {} THEN items[Min(StationsIn(items))].what
    ELSE IF items # <<>> THEN items[1].at ELSE NoStation

(* A place goes with the last station in front of it. *)
AccessStation(items, i) ==
    LET before == {j \in StationsIn(items) : j <= i}
    IN  IF before # {} THEN items[Max(before)].what ELSE StartStation(items)

(* A place without a time is sent with the hour 10 + its index. *)
Written(items) ==
    [i \in DOMAIN items |->
        IF items[i].kind = "STATION" THEN items[i]
        ELSE [items[i] EXCEPT !.at = AccessStation(items, i),
                              !.time = IF items[i].time = "none"
                                       THEN "made up" ELSE items[i].time]]

NewRows(items) == Cardinality({i \in DOMAIN items : items[i].row = 0})

(* What the backend's validation makes of it: _require_references, the
   type of visit_time, and _sync_plan_items against the rows it holds, as long
   as there are ids for new rows (bound). *)
Acceptable(items, held) ==
    /\ rows + NewRows(items) <= MaxRows
    /\ StartStation(items) # NoStation
    /\ \A i \in DOMAIN items :
        /\ items[i].kind = "PLACE" =>
            /\ <<items[i].what, AccessStation(items, i)>> \in Near
            /\ items[i].time = "none" => i - 1 <= LastUntimed
        /\ items[i].row \in held \cup {0}

(* The rows of a stored snapshot: new ids for new items, in their order. *)
Stored(items) ==
    LET before(i) == Cardinality({j \in 1..(i - 1) : items[j].row = 0})
    IN  [i \in DOMAIN items |->
            IF items[i].row # 0 THEN Written(items)[i]
            ELSE [Written(items)[i] EXCEPT !.row = rows + 1 + before(i)]]

-----------------------------------------------------------------------------
IsItems(items) == items \in Seq(Item) /\ Len(items) <= MaxItems

IsCall(c) ==
    /\ c.op \in {"save", "create", "delete", "open", "public"}
    /\ c.at \in {"opening", "sent", "done", "failed", "listing"}
    /\ c.id \in 0..MaxPlans /\ IsItems(c.items)

NewCall(op, id, items) ==
    [op |-> op, at |-> "sent", id |-> id, items |-> items]

Send(c) == /\ Cardinality(calls) < MaxCalls
           /\ c \notin calls
           /\ calls' = calls \cup {c}

Becomes(c, at) == calls' = (calls \ {c}) \cup {[c EXCEPT !.at = at]}

Saving(id) == \E c \in calls : c.op = "save" /\ c.id = id
Writing(id) == \E c \in calls : c.op \in {"save", "delete"} /\ c.id = id
Own == plan # <<>> /\ plan[1].id # PublicId
Exists(id) == id \in DOMAIN server /\ server[id] # <<>>
FirstStation == CHOOSE s \in Stations : TRUE

AddressItems(op) ==
    LET first == <<NewItem(1, "STATION", FirstStation)>>
        place == 2 * MaxEdits + 2
    IN  IF op = "open" THEN {<<>>}
        ELSE {first} \cup {Append(first, NewItem(place, "PLACE", p)) : p \in Places}

Init ==
    /\ plan = <<>> /\ dirty = FALSE /\ pending = FALSE /\ readOnly = FALSE
    /\ schedule = NoSchedule /\ retimed = <<>>
    /\ url \in {"none", "open", "create", "public"}
    /\ server = IF url = "open"
                THEN <<<<<<[NewItem(1, "STATION", FirstStation) EXCEPT !.row = 1]>>>>>>
                ELSE <<>>
    /\ calls = {}
    /\ rows = (IF url = "open" THEN 1 ELSE 0) /\ edits = 0 /\ faults = 0
    /\ wanted = [id \in 0..MaxPlans |-> <<>>] /\ racing = {} /\ crossed = {}

-----------------------------------------------------------------------------
(* The user's edits.  React renders what an event of the user has changed, and
   runs the effects of it, before the next task: the task that the effect of
   the schedule has set before is cleared (page.tsx:536). *)

NewTag == 2 * edits + 2

(* Mutant: the effect's clean-up does not clear its task. *)
EditTaskKept(items) ==
    /\ edits < MaxEdits /\ edits' = edits + 1
    /\ Len(items) <= MaxItems
    /\ plan' = <<[plan[1] EXCEPT !.items = items]>>
    /\ dirty' = TRUE
    /\ wanted' = [wanted EXCEPT ![plan[1].id] = TagsOf(items)]
    /\ racing' = IF Saving(plan[1].id) THEN racing \cup {plan[1].id}
                 ELSE racing \ {plan[1].id}
    /\ UNCHANGED <<retimed, pending, readOnly, url, server, calls, rows, faults,
                   crossed>>

Edit(items) ==
    /\ edits < MaxEdits /\ edits' = edits + 1
    /\ Len(items) <= MaxItems
    /\ plan' = <<[plan[1] EXCEPT !.items = items]>>
    /\ dirty' = TRUE
    /\ wanted' = [wanted EXCEPT ![plan[1].id] = TagsOf(items)]
    /\ racing' = IF Saving(plan[1].id) THEN racing \cup {plan[1].id}
                 ELSE racing \ {plan[1].id}
    /\ retimed' = <<>>
    /\ UNCHANGED <<pending, readOnly, url, server, calls, rows, faults, crossed>>

(* addSelectedStationToPlan, for a station that is not in the plan yet; the
   route may have been another (syncSubwayRouteWithPlan) *)
AddStation(s) ==
    /\ ~readOnly /\ plan # <<>>
    /\ \A i \in DOMAIN plan[1].items :
         plan[1].items[i].kind = "STATION" => plan[1].items[i].what # s
    /\ Edit(Append(plan[1].items, NewItem(NewTag, "STATION", s)))
    /\ schedule' \in {schedule, NoSchedule}

(* addSelectedPlaceToPlan: the selected station first, unless it is the last *)
AddPlace(p, s) ==
    /\ ~readOnly /\ plan # <<>>
    /\ LET items == plan[1].items
           stops == StationsIn(items)
           head == IF stops # {} /\ items[Max(stops)].what = s THEN <<>>
                   ELSE <<NewItem(NewTag, "STATION", s)>>
       IN  Edit(items \o Append(head, NewItem(NewTag + 1, "PLACE", p)))
    /\ UNCHANGED schedule

(* removePlanItem *)
RemoveItem(i) ==
    /\ ~readOnly /\ plan # <<>> /\ i \in DOMAIN plan[1].items
    /\ Edit(RemoveAt(plan[1].items, i))
    /\ UNCHANGED schedule

(* reorderPlanItems, by one place: longer moves are sequences of these *)
ReorderItem(i) ==
    /\ ~readOnly /\ plan # <<>> /\ {i, i + 1} \subseteq DOMAIN plan[1].items
    /\ Edit([plan[1].items EXCEPT ![i] = plan[1].items[i + 1],
                                  ![i + 1] = plan[1].items[i]])
    /\ UNCHANGED schedule

(* updatePlanItem with the time the user types for a place *)
SetPlaceTime(i) ==
    /\ ~readOnly /\ plan # <<>> /\ i \in DOMAIN plan[1].items
    /\ plan[1].items[i].kind = "PLACE"
    /\ \E time \in {"none", "picked"} :
         Edit([plan[1].items EXCEPT ![i].time = time])
    /\ UNCHANGED schedule

(* applyDepartureTime with updatePlanItem, for the station the timetable was
   opened for: by id, so no item gets the time if that one's id has changed
   with a save; the plan counts as changed either way. *)
ApplyDeparture(i) ==
    /\ ~readOnly /\ plan # <<>> /\ i \in DOMAIN plan[1].items
    /\ plan[1].items[i].kind = "STATION"
    /\ \/ Edit([plan[1].items EXCEPT ![i].time = "picked"])
       \/ Edit(plan[1].items)
    /\ UNCHANGED schedule

(* The title, by its input *)
Retitle ==
    /\ ~readOnly /\ plan # <<>>
    /\ Edit(plan[1].items)
    /\ UNCHANGED schedule

-----------------------------------------------------------------------------
(* Effects of the page. *)

(* The schedule of the route is dropped, since the minute has changed
   (syncClock) or the route has (replaceSubwayRoute), or calculated: with the
   times of another minute or the same. *)
ScheduleChanges ==
    /\ IF schedule = NoSchedule THEN schedule' \in Minutes
       ELSE schedule' = NoSchedule
    /\ UNCHANGED <<retimed, shown, pending, url, server, calls, rows,
                   edits, faults, history>>

(* The plan with the schedule's times for its stations *)
Late(item) == /\ item.kind = "STATION" /\ item.what \in OnSchedule
              /\ item.time # schedule
WithTimes(items) ==
    [i \in DOMAIN items |->
        IF Late(items[i]) THEN [items[i] EXCEPT !.time = schedule] ELSE items[i]]

(* The effect that copies those times: it clears the task it has set before,
   and sets one for the plan as it is now, if a time of it differs.  It runs
   when what it reads has changed and is shown, which an answer or the clock
   does not wait for. *)
ApplySchedule ==
    /\ retimed' = IF /\ schedule # NoSchedule /\ plan # <<>> /\ ~readOnly
                     /\ \E i \in DOMAIN plan[1].items : Late(plan[1].items[i])
                  THEN <<[plan[1] EXCEPT !.items = WithTimes(plan[1].items)]>>
                  ELSE <<>>
    /\ retimed' # retimed
    /\ UNCHANGED <<shown, pending, schedule, url, server, calls, rows,
                   edits, faults, history>>

(* Its task, setTimeout 0: what the effect made of the plan is the plan again,
   whatever an answer has put there meanwhile. *)
WriteTimes ==
    /\ retimed # <<>>
    /\ plan' = retimed /\ dirty' = TRUE
    /\ retimed' = <<>>
    /\ UNCHANGED <<readOnly, pending, schedule, url, server, calls,
                   rows, edits, faults, history>>

(* The autosave effect, 650 ms after the last change, with persistPlan *)
Autosave ==
    /\ ~readOnly /\ dirty /\ plan # <<>> /\ ~pending
    /\ Send(NewCall("save", plan[1].id, plan[1].items))
    /\ pending' = TRUE
    /\ crossed' = crossed \cup (IF Writing(plan[1].id) THEN {plan[1].id} ELSE {})
    /\ UNCHANGED <<retimed, shown, schedule, url, server, rows, edits,
                   faults, wanted, racing>>

RoomForPlan ==          \* bound
    Len(server) + Cardinality({c \in calls : c.op = "create" /\ c.at # "listing"})
        < MaxPlans

(* createPlanWithSelectedPlace; `pending` disables one of its buttons only *)
CreatePlan(s, withPlace) ==
    /\ plan = <<>> /\ edits < MaxEdits /\ RoomForPlan
    /\ \E p \in Places :
         Send(NewCall("create", 0,
              <<NewItem(NewTag, "STATION", s)>> \o
              (IF withPlace THEN <<NewItem(NewTag + 1, "PLACE", p)>> ELSE <<>>)))
    /\ pending' = TRUE /\ edits' = edits + 1
    /\ UNCHANGED <<retimed, shown, schedule, url, server, rows, faults, history>>

(* deleteCurrentPlan: its button is never disabled *)
DeletePlan ==
    /\ plan # <<>> /\ ~readOnly
    /\ Send(NewCall("delete", plan[1].id, <<>>))
    /\ pending' = TRUE
    /\ crossed' = crossed \cup (IF Writing(plan[1].id) THEN {plan[1].id} ELSE {})
    /\ UNCHANGED <<retimed, shown, schedule, url, server, rows, edits,
                   faults, wanted, racing>>

(* openPlanner from the address, once, to open a plan or create one *)
OpenAddress ==
    /\ url \in {"open", "create"} /\ url' = "none"
    /\ url = "create" => RoomForPlan
    /\ readOnly' = FALSE
    /\ \E items \in AddressItems(url) :
         Send([NewCall(url, IF url = "open" THEN 1 ELSE 0, items)
                 EXCEPT !.at = "opening"])
    /\ UNCHANGED <<retimed, plan, dirty, pending, schedule, server, rows, edits, faults,
                   history>>

(* ... goes on with openPlan or createPlanWithSelectedPlace once the list of
   plans is there *)
PlannerOpened(c) ==
    /\ c.at = "opening" /\ Becomes(c, "sent") /\ pending' = TRUE
    /\ UNCHANGED <<retimed, shown, schedule, url, server, rows, edits, faults, history>>

(* A recruitment's plan, from the address, once *)
OpenPublicPlan ==
    /\ url = "public" /\ url' = "none"
    /\ Send(NewCall("public", PublicId, <<>>))
    /\ pending' = TRUE
    /\ UNCHANGED <<retimed, shown, schedule, server, rows, edits, faults, history>>

(* openPlanner by its button: whatever plan is shown may be edited now *)
OpenPlanner ==
    /\ readOnly /\ readOnly' = FALSE
    /\ UNCHANGED <<retimed, plan, dirty, pending, schedule, url, server, 
                   calls, rows, edits, faults, history>>

-----------------------------------------------------------------------------
(* The adapter and the backend. *)

ServeSave(c) ==
    /\ c.op = "save" /\ c.at = "sent"
    /\ IF Exists(c.id) /\ Acceptable(c.items, RowsOf(server[c.id][1]))
       THEN /\ rows' = rows + NewRows(c.items)
            /\ server' = [server EXCEPT ![c.id] = <<Stored(c.items)>>]
            /\ calls' = (calls \ {c}) \cup
                 {[c EXCEPT !.at = "done", !.items = Stored(c.items)]}
       ELSE Becomes(c, "failed") /\ UNCHANGED <<rows, server>>
    /\ UNCHANGED <<retimed, shown, pending, schedule, url, edits, faults, history>>

ServeCreate(c) ==
    /\ c.op = "create" /\ c.at = "sent"
    /\ IF Acceptable(c.items, {})
       THEN /\ rows' = rows + NewRows(c.items)
            /\ server' = Append(server, <<Stored(c.items)>>)
            /\ calls' = (calls \ {c}) \cup
                 {[c EXCEPT !.at = "done", !.id = Len(server) + 1,
                            !.items = Stored(c.items)]}
       ELSE Becomes(c, "failed") /\ UNCHANGED <<rows, server>>
    /\ UNCHANGED <<retimed, shown, pending, schedule, url, edits, faults, history>>

ServeDelete(c) ==
    /\ c.op = "delete" /\ c.at = "sent"
    /\ Becomes(c, IF Exists(c.id) THEN "done" ELSE "failed")
    /\ server' = [server EXCEPT ![c.id] = <<>>]
    /\ UNCHANGED <<retimed, shown, pending, schedule, url, rows, edits,
                   faults, history>>

ServeOpen(c) ==
    /\ c.op \in {"open", "public"} /\ c.at = "sent"
    /\ IF c.op = "public"
       THEN calls' = (calls \ {c}) \cup {[c EXCEPT !.at = "done",
              !.items = <<NewItem(1, "STATION", FirstStation)>>]}
       ELSE IF ~Exists(c.id) THEN Becomes(c, "failed")
       ELSE calls' = (calls \ {c}) \cup {[c EXCEPT !.at = "done",
                                          !.items = server[c.id][1]]}
    /\ UNCHANGED <<retimed, shown, pending, schedule, url, server, rows,
                   edits, faults, history>>

NotTold(c) == crossed \cup
    (IF c.op = "delete" /\ c.at = "done" THEN {c.id} ELSE {})

(* The proxy's 502, or a backend without MySQL: before or after the work *)
CallFails(c) ==
    /\ c.at \in {"sent", "done"} /\ faults < MaxFaults /\ faults' = faults + 1
    /\ Becomes(c, "failed")
    /\ crossed' = NotTold(c)
    /\ UNCHANGED <<retimed, shown, pending, schedule, url, server, rows,
                   edits, wanted, racing>>

(* The browser does not reach the page's own server, or loses its answer: fetch
   rejects, and what the handler had still to do, setPlannerPending(false)
   with it, does not happen. *)
CallThrows(c) ==
    /\ c.at # "failed" /\ faults < MaxFaults /\ faults' = faults + 1
    /\ calls' = calls \ {c}
    /\ crossed' = NotTold(c)
    /\ UNCHANGED <<retimed, shown, pending, schedule, url, server, rows, edits,
                   wanted, racing>>

-----------------------------------------------------------------------------
(* The answers, as the page takes them. *)

(* Mutant: the plan still counts as changed. *)
SaveAnsweredDirty(c) ==
    /\ c.op = "save" /\ c.at = "done"
    /\ plan' = <<[id |-> c.id, items |-> c.items]>>
    /\ pending' = FALSE
    /\ calls' = calls \ {c}
    /\ UNCHANGED <<retimed, dirty, readOnly, schedule, url, server, rows, edits, faults, history>>

SaveAnswered(c) ==
    /\ c.op = "save" /\ c.at = "done"
    /\ plan' = <<[id |-> c.id, items |-> c.items]>>
    /\ dirty' = FALSE /\ pending' = FALSE
    /\ calls' = calls \ {c}
    /\ UNCHANGED <<retimed, readOnly, schedule, url, server, rows, edits, faults, history>>

CreateAnswered(c) ==
    /\ c.op = "create" /\ c.at = "done"
    /\ plan' = <<[id |-> c.id, items |-> c.items]>>
    /\ Becomes(c, "listing")
    /\ wanted' = [wanted EXCEPT ![c.id] = TagsOf(c.items)]
    /\ schedule' = NoSchedule      \* replaceSubwayRoute
    /\ UNCHANGED <<retimed, dirty, pending, readOnly, url, server, rows,
                   edits, faults, racing, crossed>>

(* ... and loads the list of plans before it is through *)
CreateListed(c) ==
    /\ c.op = "create" /\ c.at = "listing"
    /\ pending' = FALSE /\ calls' = calls \ {c}
    /\ UNCHANGED <<retimed, shown, schedule, url, server, rows, edits,
                   faults, history>>

DeleteAnswered(c) ==
    /\ c.op = "delete" /\ c.at = "done"
    /\ plan' = <<>> /\ dirty' = FALSE /\ pending' = FALSE
    /\ calls' = calls \ {c}
    /\ UNCHANGED <<retimed, readOnly, schedule, url, server, rows, edits,
                   faults, history>>

OpenAnswered(c) ==
    /\ c.op \in {"open", "public"} /\ c.at = "done"
    /\ plan' = <<[id |-> c.id, items |-> c.items]>>
    /\ readOnly' = (c.op = "public")
    /\ pending' = FALSE /\ calls' = calls \ {c}
    /\ wanted' = [wanted EXCEPT ![c.id] = TagsOf(c.items)]
    /\ schedule' = NoSchedule      \* replaceSubwayRoute
    /\ UNCHANGED <<retimed, dirty, url, server, rows, edits,
                   faults, racing, crossed>>

(* Mutant: a failed save counts as saved. *)
FailureAnsweredClean(c) ==
    /\ c.at = "failed"
    /\ dirty' = FALSE /\ pending' = FALSE /\ calls' = calls \ {c}
    /\ UNCHANGED <<retimed, plan, readOnly, schedule, url, server, rows, edits,
                   faults, history>>

(* Any failure: a message, and the autosave effect runs again *)
FailureAnswered(c) ==
    /\ c.at = "failed"
    /\ pending' = FALSE /\ calls' = calls \ {c}
    /\ UNCHANGED <<retimed, shown, schedule, url, server, rows, edits,
                   faults, history>>

-----------------------------------------------------------------------------
UserNext ==
    \/ \E s \in Stations : AddStation(s)
    \/ \E p \in Places, s \in Stations : AddPlace(p, s)
    \/ \E i \in 1..MaxItems : RemoveItem(i) \/ ReorderItem(i)
                            \/ SetPlaceTime(i) \/ ApplyDeparture(i)
    \/ \E s \in Stations, withPlace \in BOOLEAN : CreatePlan(s, withPlace)
    \/ Retitle \/ DeletePlan \/ OpenPlanner

Serve(c) == ServeSave(c) \/ ServeCreate(c) \/ ServeDelete(c) \/ ServeOpen(c)
Answered(c) ==
    \/ PlannerOpened(c) \/ SaveAnswered(c) \/ CreateAnswered(c) \/ CreateListed(c)
    \/ DeleteAnswered(c) \/ OpenAnswered(c) \/ FailureAnswered(c)

Next ==
    \/ UserNext
    \/ OpenAddress \/ OpenPublicPlan
    \/ ScheduleChanges \/ ApplySchedule \/ WriteTimes \/ Autosave
    \/ \E c \in calls : Serve(c) \/ Answered(c) \/ CallFails(c) \/ CallThrows(c)

Spec == Init /\ [][Next]_vars

(* The page's effects run, and the backend answers; the user owes nothing. *)
FairSpec ==
    /\ Spec
    /\ WF_vars(Autosave) /\ WF_vars(ApplySchedule) /\ WF_vars(WriteTimes)
    /\ WF_vars(\E c \in calls : Serve(c) \/ Answered(c))

-----------------------------------------------------------------------------
TypeOK ==
    /\ Len(plan) <= 1
    /\ plan # <<>> => plan[1].id \in 0..MaxPlans /\ IsItems(plan[1].items)
    /\ Len(retimed) <= 1
    /\ retimed # <<>> => retimed[1].id \in 0..MaxPlans /\ IsItems(retimed[1].items)
    /\ dirty \in BOOLEAN /\ pending \in BOOLEAN /\ readOnly \in BOOLEAN
    /\ schedule \in Minutes \cup {NoSchedule}
    /\ url \in {"none", "open", "create", "public"}
    /\ Len(server) <= MaxPlans
    /\ \A id \in DOMAIN server : Exists(id) => IsItems(server[id][1])
    /\ Cardinality(calls) <= MaxCalls
    /\ \A c \in calls : IsCall(c)

(* "자동 저장됨" (page.tsx:1055) is true: a plan of the user that is neither *)
(* dirty nor in a call is what the backend holds, unless it was saved or     *)
(* deleted while another save of it was in flight, or the answer of its      *)
(* deletion was lost.                                                        *)
CleanMeansSaved ==
    Own /\ ~dirty /\ calls = {} /\ plan[1].id \notin crossed =>
        Exists(plan[1].id) /\ server[plan[1].id] = <<plan[1].items>>

(* The plan shown has the items of the user's last edit, in their order,     *)
(* through every save and back, unless that edit was made while a save of    *)
(* the plan was in flight: its answer (page.tsx:547) replaces the plan.      *)
EditsLostOnlyDuringSave ==
    plan # <<>> /\ plan[1].id \notin racing =>
        TagsOf(plan[1].items) = wanted[plan[1].id]

Savable == /\ Own /\ ~readOnly /\ Exists(plan[1].id)
           /\ Acceptable(plan[1].items, RowsOf(server[plan[1].id][1]))

(* A call that threw leaves the page waiting for nothing. *)
Abandoned == pending /\ calls = {}

(* Autosave gets there: a plan of the user that the backend can take does    *)
(* not stay changed and unsaved, although the schedule changes it every      *)
(* minute and a save may fail, unless a call has thrown.                     *)
SavedAgainAndAgain == []<>(Savable /\ ~Abandoned => ~dirty)
=============================================================================
