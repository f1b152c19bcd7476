------------------------------- MODULE Discover ------------------------------
(***************************************************************************)
(* The map page (frontend/app/discover/page.tsx): the station, the area,   *)
(* the categories and the words that are searched, the place that is       *)
(* selected, and the four requests whose answers the page shows for them.  *)
(* An effect asks again whenever what it depends on changes, and nothing   *)
(* withdraws what it asked before.  The answers are given by               *)
(* src/lib/legacyApiAdapter.ts.                                            *)
(***************************************************************************)
EXTENDS MapPage, Integers, Sequences, FiniteSets

CONSTANTS NoStation,
          Listed, Default,   \* the first hundred stations by name; of them, 천안
          Places, NoPlace, Areas, NoArea,
          Found,         \* what there is around a station or in an area
          Kind,          \* the category the backend has for a place
          Named,         \* the places that contain the words searched
          Categories, InitialCategories, LegacyOf,   \* toLegacyCategory
          Addresses, NoAddress,   \* what the query of the address may name
          MaxCalls,      \* bound: lists of one kind under way when one is asked for
          MaxEvents      \* bound: what the user does, and requests that fail

ASSUME DiscoverAssumption ==
    /\ Listed \subseteq Stations /\ Default \in Listed
    /\ NoStation \notin Stations
    /\ NoPlace \notin Places /\ NoArea \notin Areas
    /\ Found \in [Stations \cup Areas -> SUBSET Places]
    /\ Named \subseteq Places
    /\ InitialCategories \subseteq Categories /\ InitialCategories # {}
    /\ \A a \in Addresses \ {NoAddress} :
                           /\ a.place \in Places /\ a.cat \in Categories
                           /\ a.station \in Stations \cup {NoStation}
                           /\ a.area \in Areas
    /\ MaxCalls \in Nat \ {0} /\ MaxEvents \in Nat

VARIABLES listed,      \* the list of stations is there
          station,            \* selectedStationId
          area, cats, word,   \* searchCenter, categories, query and radius
          selected, items,    \* selectedPlace, places
          shown,              \* by operation, what the answer shown is for
          due, calls,         \* the timers set; by operation, its requests, oldest first
          address, addressDue, handled,   \* ...; its effect; initialPlaceHandled
          cached,             \* placeCache of the adapter has the address's place
          astray,             \* history: operations that show a late answer
          events              \* counter of the bound

vars == <<known, listed, station, area, cats, word, selected, items,
          shown, due, calls, address, addressDue, handled, cached, astray,
          events>>
search == <<station, area, cats, word>>
place == <<selected, items>>
arrival == <<address, handled, cached>>

Ops == {"places", "departures", "suggestions", "route"}
Remote == Ops \ {"route"}
Timed == Ops \ {"departures"}

selectedStation == IF station \in known THEN station ELSE NoStation
Criteria == [station |-> station, area |-> area, cats |-> cats, word |-> word]

(* What each effect depends on, and when it does not return early *)
Inputs == [places |-> Criteria, departures |-> station, suggestions |-> word,
           route |-> <<selectedStation, selected>>]
Ready == [places |-> station # NoStation, suggestions |-> TRUE,
          route |-> selected # NoPlace /\ selectedStation # NoStation]

(* Nothing shown: no departures, no suggestions, no route *)
Criterion == [station : Stations \cup {NoStation}, area : Areas \cup {NoArea},
              cats : SUBSET Categories, word : {"", "typed"}]
Nothing == [places |-> [station |-> NoStation, area |-> NoArea,
                        cats |-> InitialCategories, word |-> ""],
            departures |-> NoStation, suggestions |-> "",
            route |-> <<NoStation, NoPlace>>]

(* The effect of the address: with a station it waits until station and
   category are the address's, without one it asks for the place. *)
AddressOpen ==
    /\ known # {} /\ ~handled /\ address # NoAddress
    /\ address.station # NoStation =>
          station # address.station \/ address.cat \notin cats

Init ==
    /\ known = {} /\ listed = FALSE
    /\ station = NoStation /\ area = NoArea /\ cats = InitialCategories /\ word = ""
    /\ selected = NoPlace /\ items = {}
    /\ shown = Nothing /\ calls = [op \in Remote |-> <<>>]
    /\ due = {}
    /\ address \in Addresses /\ addressDue = FALSE /\ handled = FALSE
    /\ cached = FALSE
    /\ astray = {} /\ events = 0

-----------------------------------------------------------------------------
(* Rendering. *)

(* The effects that run again after a change; another object for the place
   selected is a change as well.  That of the departures asks at once, the
   others set a timer.  `others` are the requests under way without it. *)
Ask(op, x, others) ==
    [others EXCEPT ![op] = Append(@, [for |-> x, overtaken |-> FALSE])]

(* Mutant: the effect of the route depends on the place alone. *)
EffectsOfPlace(other, others) ==
    /\ due' = {op \in Timed : IF IF op = "route" THEN other \/ selected' # selected
                                 ELSE Inputs'[op] # Inputs[op]
                              THEN Ready'[op] ELSE op \in due}
    /\ calls' = IF station' # station THEN Ask("departures", station', others) ELSE others
    /\ addressDue' = IF <<cats, station, known>>' # <<cats, station, known>>
                     THEN AddressOpen' ELSE addressDue

Effects(other, others) ==
    /\ due' = {op \in Timed : IF Inputs'[op] # Inputs[op] \/ (op = "route" /\ other)
                              THEN Ready'[op] ELSE op \in due}
    /\ calls' = IF station' # station THEN Ask("departures", station', others) ELSE others
    /\ addressDue' = IF <<cats, station, known>>' # <<cats, station, known>>
                     THEN AddressOpen' ELSE addressDue

Event == events < MaxEvents /\ events' = events + 1
Calm == UNCHANGED events

-----------------------------------------------------------------------------
(* Stations. *)

StationsArrive ==
    /\ ~listed /\ listed' = TRUE
    /\ known' = known \cup Listed
    /\ station' = IF station = NoStation THEN Default ELSE station
    /\ UNCHANGED <<area, cats, word, place, shown, arrival, astray>>
    /\ Effects(FALSE, calls) /\ Calm

StationsFail ==
    /\ Event /\ ~listed
    /\ known' = {}
    /\ UNCHANGED <<listed, search, place, shown, arrival, astray>>
    /\ Effects(FALSE, calls)

(* selectStation: the board's map may hold stations the page has not loaded;
   openSubwayView puts its own on the list. *)
SelectStation(s) ==
    /\ Event
    /\ station' = s /\ area' = NoArea /\ shown' = [shown EXCEPT !.route = Nothing.route]
    /\ known' \in {known, known \cup {s}}
    /\ UNCHANGED <<listed, cats, word, place, arrival, astray>>
    /\ Effects(FALSE, calls)

(* selectStationFromSearch *)
SelectSuggestion(s) ==
    /\ Event /\ shown.suggestions # ""
    /\ station' = s /\ area' = NoArea /\ word' = ""
    /\ known' = known \cup {s}
    /\ shown' = [shown EXCEPT !.route = Nothing.route, !.suggestions = Nothing.suggestions]
    /\ UNCHANGED <<listed, cats, place, arrival, astray>>
    /\ Effects(FALSE, calls)

(* A station of the planner's timeline *)
FocusStation(s) ==
    /\ Event /\ station' = s /\ listed
    /\ UNCHANGED <<known, listed, area, cats, word, place, shown, arrival, astray>>
    /\ Effects(FALSE, calls)

-----------------------------------------------------------------------------
(* What is searched, and the place selected. *)

(* Mutant: the last category can be switched off. *)
ToggleCategoryOff(c) ==
    /\ Event
    /\ cats' = IF c \in cats THEN cats \ {c} ELSE cats \cup {c}
    /\ UNCHANGED <<known, listed, station, area, word, place, shown, arrival, astray>>
    /\ Effects(FALSE, calls)

ToggleCategory(c) ==
    /\ Event /\ cats # {c}
    /\ cats' = IF c \in cats THEN cats \ {c} ELSE cats \cup {c}
    /\ UNCHANGED <<known, listed, station, area, word, place, shown, arrival, astray>>
    /\ Effects(FALSE, calls)

TypeWord ==
    /\ Event /\ word' = IF word = "" THEN "typed" ELSE ""
    /\ UNCHANGED <<known, listed, station, area, cats, place, shown, arrival, astray>>
    /\ Effects(FALSE, calls)

SearchThisArea(a) ==
    /\ Event /\ a # area /\ area' = a
    /\ UNCHANGED <<known, listed, station, cats, word, place, shown, arrival, astray>>
    /\ Effects(FALSE, calls)

(* From the list, the map or the planner's timeline, whose plan may hold any *)
SelectPlace(p) ==
    /\ Event
    /\ selected' = p /\ shown' = [shown EXCEPT !.route = Nothing.route]
    /\ UNCHANGED <<known, listed, search, items, arrival, astray>>
    /\ Effects(FALSE, calls)

ClosePlace ==
    /\ Event /\ selected # NoPlace /\ selected' = NoPlace
    /\ UNCHANGED <<known, listed, search, items, shown, arrival, astray>>
    /\ Effects(FALSE, calls)

-----------------------------------------------------------------------------
(* Requests and answers. *)

(* The timer of the effect *)
Send(op) ==
    /\ op \in due /\ ~(op = "suggestions" /\ word = "")
    /\ Len(calls[op]) < MaxCalls
    /\ due' = due \ {op}
    /\ calls' = Ask(op, Inputs[op], calls)
    /\ UNCHANGED <<known, listed, search, place, shown, arrival,
                   addressDue, astray>> /\ Calm

(* The way on foot: the adapter makes a straight line of what it has kept, and
   asks nobody. *)
SendRoute ==
    /\ "route" \in due /\ due' = due \ {"route"}
    /\ shown' = [shown EXCEPT !.route = Inputs.route]
    /\ UNCHANGED <<known, listed, search, place, calls, arrival, addressDue,
                   astray>> /\ Calm

(* Without a word to look for the timer removes the suggestions at once. *)
ClearSuggestions ==
    /\ "suggestions" \in due /\ word = ""
    /\ due' = due \ {"suggestions"}
    /\ shown' = [shown EXCEPT !.suggestions = Nothing.suggestions]
    /\ calls' = [calls EXCEPT !.suggestions =
                   LET q == calls.suggestions
                   IN  [j \in DOMAIN q |-> [q[j] EXCEPT !.overtaken = TRUE]]]
    /\ astray' = astray \ {"suggestions"}
    /\ UNCHANGED <<known, listed, search, place, arrival, addressDue>>
    /\ Calm

(* The i-th request is over: what was sent before it is overtaken. *)
Without(op, i) ==
    LET q == calls[op]
    IN  [calls EXCEPT ![op] =
           [j \in 1..Len(q) - 1 |->
              IF j < i THEN [q[j] EXCEPT !.overtaken = TRUE] ELSE q[j + 1]]]

Strays(op, i, rejected) ==
    astray' = IF calls[op][i].overtaken = rejected
              THEN IF rejected THEN astray ELSE astray \ {op}
              ELSE astray \cup {op}

(* A request rejects: nobody waits for it, and what is shown stays. *)
Reject(op, i) ==
    /\ i \in DOMAIN calls[op] /\ Event
    /\ calls' = Without(op, i) /\ Strays(op, i, TRUE)
    /\ UNCHANGED <<known, listed, search, place, shown, due, arrival,
                   addressDue>>

(* The suggestions, or the departures with the station's detail, which joins
   the list.  Each may be refused: what was shown of it goes. *)
Answer(op, i, given, joins) ==
    /\ op # "places" /\ i \in DOMAIN calls[op]
    /\ joins => op = "departures"
    /\ IF given /\ (op = "departures" => joins) THEN Calm ELSE Event
    /\ Strays(op, i, FALSE)
    /\ shown' = [shown EXCEPT ![op] = IF given THEN calls[op][i].for ELSE Nothing[op]]
    /\ known' = IF joins THEN known \cup {calls[op][i].for} ELSE known
    /\ UNCHANGED <<listed, search, place, arrival>>
    /\ Effects(FALSE, Without(op, i))

(* handlePlaces: the categories are asked for one by one, and one that fails
   is left out without a word. *)
Asked(c) == {LegacyOf[x] : x \in c.cats}
Around(c, kinds) ==
    {p \in Found[IF c.area = NoArea THEN c.station ELSE c.area] : Kind[p] \in kinds}
Items(c, kinds) == {p \in Around(c, kinds) : c.word = "" \/ p \in Named}

(* The place of the address if it is among them, else the place selected,
   else the first, which may be any here. *)
Selection(new) ==
    IF ~handled /\ address # NoAddress /\ address.place \in new THEN {address.place}
    ELSE IF selected \in new THEN {selected}
    ELSE IF new # {} THEN new ELSE {NoPlace}

(* Mutant: the first list settles the address, whether the place is in it or
   not. *)
AnswerPlacesOnce(i, kinds) ==
    LET c == calls.places[i].for
        new == Items(c, kinds)
    IN  /\ i \in DOMAIN calls.places
        /\ IF kinds = Asked(c) THEN Calm ELSE kinds \subseteq Asked(c) /\ Event
        /\ Strays("places", i, FALSE)
        /\ items' = new /\ shown' = [shown EXCEPT !.places = c]
        /\ cached' = (cached \/ (address # NoAddress /\ address.place \in Around(c, kinds)))
        /\ selected' \in Selection(new) /\ handled' = TRUE
        /\ UNCHANGED <<known, listed, search, address>>
        /\ Effects(selected' # NoPlace, Without("places", i))

AnswerPlaces(i, kinds) ==
    LET c == calls.places[i].for
        new == Items(c, kinds)
    IN  /\ i \in DOMAIN calls.places
        /\ IF kinds = Asked(c) THEN Calm ELSE kinds \subseteq Asked(c) /\ Event
        /\ Strays("places", i, FALSE)
        /\ items' = new /\ shown' = [shown EXCEPT !.places = c]
        /\ cached' = (cached \/ (address # NoAddress /\ address.place \in Around(c, kinds)))
        /\ selected' \in Selection(new)
        /\ handled' = (handled \/ (address # NoAddress /\ address.place \in new))
        /\ UNCHANGED <<known, listed, search, address>>
        /\ Effects(selected' # NoPlace, Without("places", i))

-----------------------------------------------------------------------------
(* The address. *)

(* Mutant: the page stays at its station. *)
ApplyAddressHere ==
    /\ addressDue /\ address.station # NoStation
    /\ station' = station /\ cats' = cats \cup {address.cat}
    /\ UNCHANGED <<known, listed, area, word, place, shown, arrival, astray>>
    /\ Effects(FALSE, calls) /\ Calm

(* Its station and its category are set ... *)
ApplyAddress ==
    /\ addressDue /\ address.station # NoStation
    /\ station' = address.station /\ cats' = cats \cup {address.cat}
    /\ UNCHANGED <<known, listed, area, word, place, shown, arrival, astray>>
    /\ Effects(FALSE, calls) /\ Calm

(* ... or its place is asked for, which the adapter only has when it has
   been in a list. *)
AddressAnswers ==
    /\ addressDue /\ address.station = NoStation
    /\ UNCHANGED <<known, listed>>
    /\ IF ~cached
       THEN /\ addressDue' = FALSE
            /\ UNCHANGED <<search, place, due, calls, handled>>
       ELSE /\ handled' = TRUE
            /\ selected' = address.place
            /\ cats' = cats \cup {address.cat} /\ area' = address.area
            /\ station' \in known      \* the nearest of the page's stations
            /\ UNCHANGED <<word, items>>
            /\ Effects(TRUE, calls)
    /\ UNCHANGED <<shown, address, cached, astray>> /\ Calm

-----------------------------------------------------------------------------
UserActs ==
    \/ TypeWord \/ ClosePlace
    \/ \E s \in Stations : SelectStation(s) \/ SelectSuggestion(s) \/ FocusStation(s)
    \/ \E c \in Categories : ToggleCategory(c)
    \/ \E a \in Areas : SearchThisArea(a)
    \/ \E p \in Places : SelectPlace(p)

Failures ==
    \/ StationsFail
    \/ \E op \in Remote : \E i \in DOMAIN calls[op] : Reject(op, i)

Timers == ClearSuggestions \/ SendRoute \/ \E op \in {"places", "suggestions"} : Send(op)

Answers ==
    \/ StationsArrive \/ AddressAnswers
    \/ \E op \in Remote : \E i \in DOMAIN calls[op] :
          \E given, joins \in BOOLEAN : Answer(op, i, given, joins)
    \/ \E i \in DOMAIN calls.places : \E kinds \in SUBSET Asked(calls.places[i].for) :
          AnswerPlaces(i, kinds)

Work == Timers \/ Answers \/ ApplyAddress

Next == UserActs \/ Failures \/ Work

(* The browser runs timers, and the service answers. *)
Spec == Init /\ [][Next]_vars /\ WF_vars(Work)

-----------------------------------------------------------------------------
(* Types *)
Queue(S) == [for : S, overtaken : BOOLEAN]
Asks == [places |-> Criterion, departures |-> Stations, suggestions |-> {"typed"},
         route |-> Stations \X Places]

TypeOK ==
    /\ known \subseteq Stations
    /\ Criteria \in Criterion /\ cats # {}
    /\ selected \in Places \cup {NoPlace}
    /\ items \subseteq Places
    /\ \A op \in Ops : shown[op] \in Asks[op] \cup {Nothing[op]}
    /\ \A op \in Remote : calls[op] \in Seq(Queue(Asks[op]))
    /\ due \subseteq {op \in Timed : Ready[op]}
    /\ {addressDue, handled, cached} \subseteq BOOLEAN /\ astray \subseteq Remote
    /\ events \in 0..MaxEvents

(* When an operation has come to rest, what the page shows of it is for the
   station, the place, the area, the categories and the words it shows: the
   list of places holds nothing else, the departures are the station's, the
   suggestions the word's, and the way on foot belongs to the place
   selected.  What shows something else was given by an answer that
   came after the answer to a later request, or kept because the last
   request was rejected. *)
AtRest(op) == op \notin due /\ calls[op] = <<>> /\ op \notin astray

AnswersFit ==
    /\ AtRest("places") /\ station # NoStation =>
          shown.places = Criteria /\ items \subseteq Items(Criteria, Asked(Criteria))
    /\ \A op \in {"departures", "suggestions"} :
          AtRest(op) => shown[op] \in {Inputs[op], Nothing[op]}
    /\ Ready.route /\ "route" \notin due =>
          shown.route \in {Inputs.route, Nothing.route}

(* The place that the home page's link names ends up selected, when the user
   does nothing meanwhile, no request fails, the lists of places arrive in
   the order they were asked for, and its category is one the page can ask
   for. *)
Linked == address # NoAddress /\ address.station # NoStation
CanBeListed ==
    Linked /\ address.place \in Found[address.station]
           /\ Kind[address.place] = LegacyOf[address.cat]

LinkIsFollowed ==
    <>[](events = 0 /\ CanBeListed /\ "places" \notin astray
           => selected = address.place)
=============================================================================
