---------------------------- MODULE MapPageProofs ----------------------------
(***************************************************************************)
(* The map page: what it shows of the answers is for what it searches for, *)
(* and the schedule of its route is for what is shown, for any stations,   *)
(* places, routes and numbers of changes and failures.  Each of the two    *)
(* parts of the page has its own specification.                            *)
(***************************************************************************)
EXTENDS Discover, RouteBoard, FiniteSetTheorems, TLAPS

-----------------------------------------------------------------------------
(* The invariant of the search. *)

\* A request for places names a station; the others what the effect asks for.
Searches == {c \in Criterion : c.station # NoStation}
Sent(op) == IF op = "places" THEN Searches ELSE Asks[op]

\* What was sent before a request that is over is overtaken.
Ordered(q) == \A j, k \in DOMAIN q : j < k /\ q[k].overtaken => q[j].overtaken
Late(q) == q = <<>> \/ q[Len(q)].overtaken

PageTyped ==
    /\ known \subseteq Stations /\ station \in Stations \cup {NoStation}
    /\ area \in Areas \cup {NoArea} /\ cats \subseteq Categories /\ cats # {}
    /\ word \in {"", "typed"}
    /\ selected \in Places \cup {NoPlace} /\ items \subseteq Places
    /\ handled \in BOOLEAN /\ cached \in BOOLEAN
    /\ astray \subseteq Remote /\ events \in 0..MaxEvents
    /\ address \in Addresses

ShownTyped ==
    /\ DOMAIN shown = Ops
    /\ \A op \in Ops : shown[op] \in Asks[op] \cup {Nothing[op]}

CallsTyped ==
    /\ DOMAIN calls = Remote
    /\ \A op \in Remote : calls[op] \in Seq(Queue(Sent(op))) /\ Ordered(calls[op])

DueTyped ==
    /\ due \subseteq {op \in Timed : Ready[op]}
    /\ addressDue \in BOOLEAN /\ (addressDue => address # NoAddress)

ListFits ==
    items = {} \/ /\ shown.places.station # NoStation
                  /\ items \subseteq Items(shown.places, Asked(shown.places))

\* What an operation has to show of what the page shows
Fit(op) == IF op = "places" THEN {Criteria} ELSE {Inputs[op], Nothing[op]}

\* The answer to the last request is awaited, which was for what is shown, or
\* has been shown, unless another has come after it.
Follows(op) ==
    /\ ~Late(calls[op]) => calls[op][Len(calls[op])].for = Inputs[op]
    /\ Late(calls[op]) /\ op \notin astray => shown[op] \in Fit(op)

Tracks(op) == op \notin due /\ (op = "places" => station # NoStation) => Follows(op)

RouteFits == Ready.route /\ "route" \notin due => shown.route \in {Inputs.route, Nothing.route}

Typed == PageTyped /\ ShownTyped /\ CallsTyped /\ DueTyped
IInv == Typed /\ ListFits /\ (\A op \in Remote : Tracks(op)) /\ RouteFits

-----------------------------------------------------------------------------
(* Queues of requests. *)

Appending(q, x) == Append(q, [for |-> x, overtaken |-> FALSE])
Removing(q, i) == [j \in 1..Len(q) - 1 |->
                     IF j < i THEN [q[j] EXCEPT !.overtaken = TRUE] ELSE q[j + 1]]
Overtaking(q) == [j \in DOMAIN q |-> [q[j] EXCEPT !.overtaken = TRUE]]

LEMMA Appended ==
  ASSUME NEW S, NEW q \in Seq(Queue(S)), Ordered(q), NEW x \in S, NEW r,
         r = Appending(q, x)
  PROVE  r \in Seq(Queue(S)) /\ Ordered(r) /\ ~Late(r) /\ r[Len(r)].for = x
  <1>1. PICK y : y = [for |-> x, overtaken |-> FALSE]
    OBVIOUS
  <1>2. y \in Queue(S) /\ y.for = x /\ y.overtaken = FALSE
    BY <1>1 DEF Queue
  <1>3. r \in Seq(Queue(S)) /\ Len(r) = Len(q) + 1 /\ Len(q) \in Nat
    BY <1>1, <1>2 DEF Appending
  <1>4. \A j \in 1..Len(r) : r[j] = IF j = Len(r) THEN y ELSE q[j]
    BY <1>1, <1>2, <1>3 DEF Appending
  <1>5. DOMAIN r = 1..Len(r) /\ DOMAIN q = 1..Len(q)
    BY <1>3
  <1>6. Ordered(r)
    BY <1>2, <1>3, <1>4, <1>5 DEF Ordered
  <1>7. r # <<>> /\ r[Len(r)] = y
    BY <1>3, <1>4
  <1> QED
    BY <1>2, <1>3, <1>6, <1>7 DEF Late

\* The i-th request is over.
LEMMA Removed ==
  ASSUME NEW S, NEW q \in Seq(Queue(S)), Ordered(q), NEW i \in DOMAIN q, NEW r,
         r = Removing(q, i)
  PROVE  /\ r \in Seq(Queue(S)) /\ Ordered(r)
         /\ i = Len(q) => Late(r)
         /\ i # Len(q) => /\ Late(r) <=> Late(q)
                          /\ ~Late(r) => r[Len(r)].for = q[Len(q)].for
         /\ Late(q) => q[i].overtaken
         /\ i = Len(q) /\ q[i].overtaken => Late(q)
         /\ i = Len(q) /\ ~q[i].overtaken => ~Late(q) /\ q[Len(q)].for = q[i].for
  <1>1. PICK n \in Nat : n = Len(q)
    OBVIOUS
  <1>2. DOMAIN q = 1..n /\ i \in 1..n /\ n >= 1 /\ \A j \in 1..n : q[j] \in Queue(S)
    BY <1>1
  <1>3. \A j \in 1..n : /\ q[j].overtaken \in BOOLEAN
                        /\ [q[j] EXCEPT !.overtaken = TRUE] \in Queue(S)
                        /\ [q[j] EXCEPT !.overtaken = TRUE].overtaken = TRUE
    BY <1>2 DEF Queue
  <1>4. n - 1 \in Nat /\ DOMAIN r = 1..(n - 1)
    BY <1>1, <1>2 DEF Removing
  <1>5. \A j \in 1..(n - 1) : /\ r[j] \in Queue(S)
                              /\ j < i => r[j].overtaken = TRUE
                              /\ j >= i => r[j] = q[j + 1]
    BY <1>1, <1>2, <1>3 DEF Removing
  <1>6. r \in Seq(Queue(S)) /\ Len(r) = n - 1
    <2>1. r \in [1..(n - 1) -> Queue(S)]
      BY <1>1, <1>4, <1>5 DEF Removing
    <2> QED
      BY <1>4, <2>1
  <1>7. Ordered(r)
    <2> SUFFICES ASSUME NEW j \in 1..(n - 1), NEW k \in 1..(n - 1), j < k, r[k].overtaken
                 PROVE  r[j].overtaken
      BY <1>4 DEF Ordered
    <2>1. CASE j < i
      BY <1>5, <2>1
    <2>2. CASE ~(j < i)
      <3>1. r[k] = q[k + 1] /\ r[j] = q[j + 1] /\ j + 1 < k + 1
        BY <1>2, <1>5, <2>2
      <3>2. j + 1 \in 1..n /\ k + 1 \in 1..n
        BY <1>4
      <3> QED
        BY <1>2, <3>1, <3>2 DEF Ordered
    <2> QED
      BY <2>1, <2>2
  <1>8. q # <<>> /\ (r = <<>> <=> n = 1)
    BY <1>1, <1>2, <1>6
  <1>9. Late(q) => q[i].overtaken
    <2>1. CASE i = n
      BY <1>1, <1>8, <2>1 DEF Late
    <2>2. CASE i # n
      BY <1>1, <1>2, <1>8, <2>2 DEF Late, Ordered
    <2> QED
      BY <2>1, <2>2
  <1>10. i = n => Late(r)
    <2>1. CASE n = 1
      BY <1>8, <2>1 DEF Late
    <2>2. CASE n # 1 /\ i = n
      <3>1. n - 1 \in 1..(n - 1) /\ n - 1 < i
        BY <1>2, <2>2
      <3> QED
        BY <1>5, <1>6, <3>1 DEF Late
    <2> QED
      BY <2>1, <2>2
  <1>11. i # n => (Late(r) <=> Late(q)) /\ (~Late(r) => r[Len(r)].for = q[Len(q)].for)
    <2> SUFFICES ASSUME i # n PROVE (Late(r) <=> Late(q)) /\ r[Len(r)].for = q[Len(q)].for
      OBVIOUS
    <2>1. n - 1 \in 1..(n - 1) /\ n - 1 >= i /\ (n - 1) + 1 = n /\ n # 1
      BY <1>2
    <2>2. r[n - 1] = q[n]
      BY <1>5, <2>1
    <2> QED
      BY <1>1, <1>6, <1>8, <2>1, <2>2 DEF Late
  <1> QED
    BY <1>1, <1>6, <1>7, <1>8, <1>9, <1>10, <1>11 DEF Late

\* All requests are overtaken.
LEMMA AllOvertaken ==
  ASSUME NEW S, NEW q \in Seq(Queue(S)), NEW r, r = Overtaking(q)
  PROVE  r \in Seq(Queue(S)) /\ Ordered(r) /\ Late(r)
  <1>1. PICK n \in Nat : n = Len(q)
    OBVIOUS
  <1>2. DOMAIN q = 1..n /\ \A j \in 1..n : q[j] \in Queue(S)
    BY <1>1
  <1>3. \A j \in 1..n : /\ [q[j] EXCEPT !.overtaken = TRUE] \in Queue(S)
                        /\ [q[j] EXCEPT !.overtaken = TRUE].overtaken = TRUE
    BY <1>2 DEF Queue
  <1>4. DOMAIN r = 1..n /\ \A j \in 1..n : r[j] \in Queue(S) /\ r[j].overtaken = TRUE
    BY <1>2, <1>3 DEF Overtaking
  <1>5. r \in Seq(Queue(S)) /\ Len(r) = n
    <2>1. r \in [1..n -> Queue(S)]
      BY <1>2, <1>4 DEF Overtaking
    <2> QED
      BY <1>1, <2>1
  <1>6. Ordered(r)
    BY <1>4 DEF Ordered
  <1>7. r = <<>> \/ n \in 1..n
    BY <1>5
  <1> QED
    BY <1>4, <1>5, <1>6, <1>7 DEF Late

-----------------------------------------------------------------------------
(* Effects. *)

\* What an effect depends on decides whether it returns early.
LEMMA InputsDecide ==
  ASSUME NEW op \in Timed, Inputs'[op] = Inputs[op]
  PROVE  (Ready'[op] <=> Ready[op]) /\ (op = "places" => station' = station)
  <1>1. CASE op = "places"
    BY <1>1 DEF Inputs, Ready, Criteria
  <1>2. CASE op = "suggestions"
    BY <1>2 DEF Ready
  <1>3. CASE op = "route"
    <2>1. Inputs.route = <<selectedStation, selected>>
      BY DEF Inputs
    <2>2. Inputs'.route = <<selectedStation', selected'>>
      BY DEF Inputs
    <2>3. selectedStation' = selectedStation /\ selected' = selected
      BY <1>3, <2>1, <2>2
    <2>4. selectedStation # NoStation <=> selectedStation' # NoStation
      BY <2>3
    <2> QED
      BY <1>3, <2>3, <2>4 DEF Ready
  <1> QED
    BY <1>1, <1>2, <1>3 DEF Timed, Ops

\* The effects keep the types, and ask for the departures of a new station.
LEMMA EffectsTyped ==
  ASSUME PageTyped', DueTyped, UNCHANGED address,
         station' # station => station' # NoStation,
         NEW others, DOMAIN others = Remote,
         \A op \in Remote : others[op] \in Seq(Queue(Sent(op))) /\ Ordered(others[op]),
         NEW other, Effects(other, others)
  PROVE  /\ CallsTyped' /\ DueTyped'
         /\ \A op \in Remote : op # "departures" \/ station' = station =>
                calls'[op] = others[op]
         /\ station' # station => ~Late(calls'["departures"])
                /\ calls'["departures"][Len(calls'["departures"])].for = station'
  <1>0. DueTyped'
    <2>1. \A op \in due' : /\ op \in Timed
                           /\ Inputs'[op] # Inputs[op] \/ op \in due \/ Ready'[op]
                           /\ Inputs'[op] # Inputs[op] => Ready'[op]
      BY DEF Effects
    <2>2. due' \subseteq {op \in Timed : Ready'[op]}
      BY <2>1, InputsDecide DEF DueTyped
    <2>3. addressDue' \in {addressDue, AddressOpen'}
      BY DEF Effects
    <2>4. AddressOpen' \in BOOLEAN /\ (AddressOpen' => address' # NoAddress)
      BY DEF AddressOpen
    <2>5. addressDue' \in BOOLEAN /\ (addressDue' => address' # NoAddress)
      BY <2>3, <2>4 DEF DueTyped
    <2> QED
      BY <2>2, <2>5 DEF DueTyped
  <1>1. CASE station' = station
    <2>1. calls' = others
      BY <1>1 DEF Effects
    <2> QED
      BY <1>0, <1>1, <2>1 DEF CallsTyped
  <1>2. CASE station' # station
    <2>1. PICK x \in Stations : x = station'
      BY <1>2 DEF PageTyped
    <2>2. PICK q \in Seq(Queue(Stations)) : q = others["departures"] /\ Ordered(q)
      BY DEF Remote, Ops, Sent, Asks
    <2>3. PICK r : r = Appending(q, x)
      OBVIOUS
    <2>4. r \in Seq(Queue(Stations)) /\ Ordered(r) /\ ~Late(r) /\ r[Len(r)].for = x
      BY <2>2, <2>3, Appended
    <2>5. calls' = [others EXCEPT !["departures"] = r]
      BY <1>2, <2>1, <2>2, <2>3 DEF Effects, Ask, Appending
    <2>6. /\ DOMAIN calls' = Remote
          /\ \A op \in Remote : calls'[op] = IF op = "departures" THEN r ELSE others[op]
      BY <2>5
    <2>7. Sent("departures") = Stations /\ "departures" \in Remote
      BY DEF Sent, Asks, Remote, Ops
    <2> QED
      BY <1>0, <1>2, <2>1, <2>4, <2>6, <2>7 DEF CallsTyped
  <1> QED
    BY <1>1, <1>2

\* A change of the page is followed by the effects: what was asked for and is
\* not for what is shown now is asked for again.
LEMMA ChangeTracks ==
  ASSUME DueTyped, DueTyped', NEW op \in Remote, Tracks(op), NEW other, NEW others,
         Effects(other, others),
         op # "departures" \/ station' = station => calls'[op] = calls[op],
         station' # station => station' # NoStation,
         station' # station => ~Late(calls'["departures"])
                /\ calls'["departures"][Len(calls'["departures"])].for = station',
         op \in astray' <=> op \in astray,
         shown'[op] = shown[op] \/ (op # "places" /\ shown'[op] = Nothing[op])
  PROVE  Tracks(op)'
  <1>1. CASE op = "departures" /\ station' # station
    BY <1>1 DEF Tracks, Follows, Inputs
  <1>2. CASE op = "departures" /\ station' = station
    <2>1. Inputs'[op] = Inputs[op] /\ op \notin due
      BY <1>2 DEF Inputs, DueTyped, Timed
    <2>2. Follows(op)
      BY <1>2, <2>1 DEF Tracks
    <2> QED
      BY <1>2, <2>1, <2>2 DEF Tracks, Follows, Fit
  <1>3. CASE op \in {"places", "suggestions"}
    <2>1. op \in Timed /\ calls'[op] = calls[op]
      BY <1>3 DEF Timed, Ops
    <2>2. op \in due' <=> IF Inputs'[op] # Inputs[op] THEN Ready'[op] ELSE op \in due
      BY <1>3, <2>1 DEF Effects
    <2>3. CASE Inputs'[op] # Inputs[op]
      <3>1. Ready'["places"] <=> station' # NoStation
        BY DEF Ready
      <3>2. Ready'["suggestions"]
        BY DEF Ready
      <3> QED
        BY <1>3, <2>2, <2>3, <3>1, <3>2 DEF Tracks
    <2>4. CASE Inputs'[op] = Inputs[op]
      <3>1. /\ op \in due' <=> op \in due
            /\ op = "places" => station' = station
        BY <2>1, <2>2, <2>4, InputsDecide
      <3>2. op = "places" => Criteria' = Criteria
        BY <2>4 DEF Inputs
      <3> QED
        BY <2>1, <2>4, <3>1, <3>2 DEF Tracks, Follows, Fit
    <2> QED
      BY <2>3, <2>4
  <1> QED
    BY <1>1, <1>2, <1>3 DEF Remote, Ops

\* The same of the way on foot, which the effect shows by itself.
LEMMA ChangeRouteFits ==
  ASSUME RouteFits, NEW other, NEW others, Effects(other, others),
         shown'.route \in {shown.route, Nothing.route}
  PROVE  RouteFits'
  <1>1. "route" \in Timed
    BY DEF Timed, Ops
  <1>2. "route" \in due' <=> IF Inputs'["route"] # Inputs["route"] \/ other
                             THEN Ready'["route"] ELSE "route" \in due
    BY <1>1 DEF Effects
  <1>3. Inputs'["route"] = Inputs["route"] => (Ready'["route"] <=> Ready["route"])
    BY <1>1, InputsDecide
  <1> QED
    BY <1>2, <1>3 DEF RouteFits

\* A request is over; the page shows its answer, nothing, or what it did.
LEMMA OverTracks ==
  ASSUME CallsTyped, NEW op \in Remote, Tracks(op), NEW i \in DOMAIN calls[op],
         NEW r, calls'[op] = r, r = Removing(calls[op], i),
         UNCHANGED search, op \in due' <=> op \in due,
         \/ /\ op \in astray' <=> calls[op][i].overtaken
            /\ shown'[op] = calls[op][i].for \/ (op # "places" /\ shown'[op] = Nothing[op])
         \/ /\ op \in astray' <=> op \in astray \/ ~calls[op][i].overtaken
            /\ shown'[op] = shown[op]
  PROVE  Tracks(op)'
  <1>1. PICK q \in Seq(Queue(Sent(op))) : q = calls[op] /\ Ordered(q)
    BY DEF CallsTyped
  <1>2. /\ i = Len(q) => Late(r)
        /\ i # Len(q) => /\ Late(r) <=> Late(q)
                         /\ ~Late(r) => r[Len(r)].for = q[Len(q)].for
        /\ Late(q) => q[i].overtaken
        /\ i = Len(q) /\ q[i].overtaken => Late(q)
        /\ i = Len(q) /\ ~q[i].overtaken => ~Late(q) /\ q[Len(q)].for = q[i].for
    <2>1. i \in DOMAIN q /\ r = Removing(q, i)
      BY <1>1
    <2> QED
      BY <1>1, <2>1, Removed
  <1>3. /\ station' = station /\ Criteria' = Criteria /\ Inputs'[op] = Inputs[op]
        /\ op = "places" => Inputs[op] = Criteria
    BY DEF search, Criteria, Inputs, Remote, Ops
  <1> SUFFICES ASSUME op \notin due', op = "places" => station' # NoStation
               PROVE  Follows(op)'
    BY DEF Tracks
  <1>4. /\ ~Late(q) => q[Len(q)].for = Inputs[op]
        /\ Late(q) /\ op \notin astray => shown[op] \in Fit(op)
    BY <1>1, <1>3 DEF Tracks, Follows
  <1>5. ~Late(r) => r[Len(r)].for = Inputs[op]
    BY <1>2, <1>4
  <1>6. ASSUME Late(r), op \notin astray' PROVE shown'[op] \in Fit(op)
    <2>1. CASE i = Len(q)
      BY <1>1, <1>2, <1>3, <1>4, <1>6, <2>1 DEF Fit
    <2>2. CASE i # Len(q)
      BY <1>1, <1>2, <1>4, <1>6, <2>2
    <2> QED
      BY <2>1, <2>2
  <1>7. Fit(op)' = Fit(op)
    BY <1>3 DEF Fit
  <1> QED
    BY <1>3, <1>5, <1>6, <1>7 DEF Follows

-----------------------------------------------------------------------------
(* Every step keeps the invariant. *)

\* The page changes, and shows of the answers what it did or less.
LEMMA ChangeKeeps ==
  ASSUME IInv, PageTyped', NEW other, Effects(other, calls),
         UNCHANGED <<address, astray, items>>,
         station' # station => station' # NoStation,
         \/ shown' = shown
         \/ shown' = [shown EXCEPT !.route = Nothing.route]
         \/ shown' = [shown EXCEPT !.route = Nothing.route,
                                   !.suggestions = Nothing.suggestions]
  PROVE  IInv'
  <1>1. PICK others : others = calls
    OBVIOUS
  <1>2. /\ DOMAIN others = Remote /\ Effects(other, others)
        /\ \A op \in Remote : others[op] \in Seq(Queue(Sent(op))) /\ Ordered(others[op])
    BY <1>1 DEF IInv, Typed, CallsTyped
  <1>3. /\ CallsTyped' /\ DueTyped'
        /\ \A op \in Remote : op # "departures" \/ station' = station => calls'[op] = calls[op]
        /\ station' # station => ~Late(calls'["departures"])
                /\ calls'["departures"][Len(calls'["departures"])].for = station'
    BY <1>1, <1>2, EffectsTyped DEF IInv, Typed
  <1>4. /\ DOMAIN shown' = Ops
        /\ \A op \in Ops : \/ shown'[op] = shown[op]
                           \/ op # "places" /\ shown'[op] = Nothing[op]
    <2>1. DOMAIN shown = Ops
      BY DEF IInv, Typed, ShownTyped
    <2> QED
      BY <2>1
  <1>5. ShownTyped'
    BY <1>4 DEF IInv, Typed, ShownTyped, Nothing
  <1>6. ListFits'
    <2>1. shown'["places"] = shown["places"]
      BY <1>4 DEF Ops
    <2> QED
      BY <2>1 DEF IInv, ListFits, Items, Around, Asked
  <1>7. \A op \in Remote : Tracks(op)'
    <2> SUFFICES ASSUME NEW op \in Remote PROVE Tracks(op)'
      OBVIOUS
    <2>1. op \in Ops
      BY DEF Remote
    <2> QED
      BY <1>2, <1>3, <1>4, <2>1, ChangeTracks DEF IInv, Typed
  <1>8. RouteFits'
    <2>1. shown'["route"] \in {shown["route"], Nothing["route"]}
      BY <1>4 DEF Ops
    <2> QED
      BY <1>2, <2>1, ChangeRouteFits DEF IInv
  <1> QED
    BY <1>3, <1>5, <1>6, <1>7, <1>8 DEF IInv, Typed

\* A request less.
LEMMA WithoutTyped ==
  ASSUME CallsTyped, NEW op \in Remote, NEW i \in DOMAIN calls[op],
         NEW others, others = Without(op, i)
  PROVE  /\ DOMAIN others = Remote
         /\ others[op] = Removing(calls[op], i)
         /\ \A o \in Remote : /\ others[o] \in Seq(Queue(Sent(o))) /\ Ordered(others[o])
                              /\ o # op => others[o] = calls[o]
  <1>1. PICK q \in Seq(Queue(Sent(op))) : q = calls[op] /\ Ordered(q)
    BY DEF CallsTyped
  <1>2. PICK r : r = Removing(q, i)
    OBVIOUS
  <1>3. r \in Seq(Queue(Sent(op))) /\ Ordered(r)
    BY <1>1, <1>2, Removed
  <1>4. others = [calls EXCEPT ![op] = r]
    BY <1>1, <1>2 DEF Without, Removing
  <1>5. DOMAIN others = Remote /\ \A o \in Remote : others[o] = IF o = op THEN r ELSE calls[o]
    BY <1>4 DEF CallsTyped
  <1> QED
    BY <1>1, <1>2, <1>3, <1>5 DEF CallsTyped

\* A request is over, and what the page searches for stays.
LEMMA OverKeeps ==
  ASSUME IInv, PageTyped', ShownTyped', ListFits', NEW op \in Remote,
         NEW i \in DOMAIN calls[op], NEW others, others = Without(op, i),
         \/ \E other : Effects(other, others)
         \/ calls' = others /\ UNCHANGED <<due, addressDue, known, selected>>,
         UNCHANGED <<search, address>>,
         \A o \in Ops \ {op} : shown'[o] = shown[o],
         \A o \in Remote \ {op} : o \in astray' <=> o \in astray,
         \/ /\ op \in astray' <=> calls[op][i].overtaken
            /\ shown'[op] = calls[op][i].for \/ (op # "places" /\ shown'[op] = Nothing[op])
         \/ /\ op \in astray' <=> op \in astray \/ ~calls[op][i].overtaken
            /\ shown'[op] = shown[op]
  PROVE  IInv'
  <1>0. UNCHANGED <<station, area, cats, word>>
    BY DEF search
  <1>1. /\ DOMAIN others = Remote /\ others[op] = Removing(calls[op], i)
        /\ \A o \in Remote : /\ others[o] \in Seq(Queue(Sent(o))) /\ Ordered(others[o])
                             /\ o # op => others[o] = calls[o]
    BY WithoutTyped DEF IInv, Typed
  <1>2. \A o \in Remote : Inputs'[o] = Inputs[o]
    BY <1>0 DEF Inputs, Criteria, Remote, Ops
  <1>3. CallsTyped' /\ DueTyped' /\ RouteFits' /\ calls' = others
        /\ \A o \in Remote : o \in due' <=> o \in due
    <2>0. shown'["route"] = shown["route"]
      BY DEF Remote, Ops
    <2>1. CASE \E other : Effects(other, others)
      <3>1. PICK other : Effects(other, others)
        BY <2>1
      <3>2. CallsTyped' /\ DueTyped' /\ calls' = others
        <4>1. calls' = others
          BY <1>0, <3>1 DEF Effects
        <4> QED
          BY <1>0, <1>1, <3>1, <4>1, EffectsTyped DEF IInv, Typed
      <3>3. \A o \in Remote : o \in due' <=> o \in due
        <4>1. \A o \in due : o \in Timed
          BY DEF IInv, Typed, DueTyped
        <4>2. \A o \in Remote : o \in due' <=> o \in Timed /\ o \in due
          BY <1>2, <3>1 DEF Effects, Remote
        <4> QED
          BY <4>1, <4>2
      <3>4. RouteFits'
        BY <2>0, <3>1, ChangeRouteFits DEF IInv
      <3> QED
        BY <3>2, <3>3, <3>4
    <2>2. CASE calls' = others /\ UNCHANGED <<due, addressDue, known, selected>>
      <3>1. CallsTyped'
        BY <1>1, <2>2 DEF CallsTyped
      <3>2. Inputs' = Inputs /\ Ready' = Ready
        BY <1>0, <2>2 DEF Inputs, Ready, Criteria, selectedStation
      <3>3. DueTyped' /\ RouteFits'
        BY <2>0, <2>2, <3>2 DEF IInv, Typed, DueTyped, RouteFits, Nothing
      <3> QED
        BY <2>2, <3>1, <3>3
    <2> QED
      BY <2>1, <2>2
  <1>4. Tracks(op)'
    <2>1. calls'[op] = Removing(calls[op], i)
      BY <1>1, <1>3
    <2>2. PICK r : r = Removing(calls[op], i)
      OBVIOUS
    <2> QED
      BY <1>3, <2>1, <2>2, OverTracks DEF IInv, Typed
  <1>5. ASSUME NEW o \in Remote, o # op PROVE Tracks(o)'
    <2>1. calls'[o] = calls[o] /\ (o \in due' <=> o \in due) /\ Inputs'[o] = Inputs[o]
      BY <1>1, <1>2, <1>3, <1>5
    <2>2. shown'[o] = shown[o] /\ (o \in astray' <=> o \in astray)
      BY <1>5 DEF Remote
    <2>3. Fit(o)' = Fit(o)
      BY <1>0, <2>1 DEF Fit, Criteria, Nothing
    <2> QED
      BY <1>0, <2>1, <2>2, <2>3 DEF IInv, Tracks, Follows
  <1> QED
    BY <1>3, <1>4, <1>5 DEF IInv, Typed


\* What is left when nothing but the effect of the address ends.
LEMMA RestKeeps ==
  ASSUME IInv, addressDue' \in {addressDue, FALSE},
         UNCHANGED <<known, listed, station, area, cats, word, selected, items, shown, due,
                     calls, address, handled, cached, astray, events>>
  PROVE  IInv'
  <1>1. Criteria' = Criteria /\ selectedStation' = selectedStation
    BY DEF Criteria, selectedStation
  <1>2. Inputs' = Inputs /\ Ready' = Ready
    BY <1>1 DEF Inputs, Ready
  <1>3. PageTyped' /\ ShownTyped' /\ CallsTyped' /\ ListFits'
    BY DEF IInv, Typed, PageTyped, ShownTyped, CallsTyped, ListFits, Nothing, Items, Around, Asked
  <1>4. DueTyped' /\ RouteFits'
    <2>1. DueTyped'
      <3>1. due' \subseteq {op \in Timed : Ready'[op]}
        BY <1>2 DEF IInv, Typed, DueTyped
      <3>2. addressDue' \in BOOLEAN /\ (addressDue' => address' # NoAddress)
        <4>1. addressDue \in BOOLEAN /\ (addressDue => address # NoAddress)
          BY DEF IInv, Typed, DueTyped
        <4>2. CASE addressDue' = addressDue
          BY <4>1, <4>2
        <4>3. CASE addressDue' = FALSE
          BY <4>3
        <4> QED
          BY <4>2, <4>3
      <3> QED
        BY <3>1, <3>2 DEF DueTyped
    <2>2. RouteFits'
      BY <1>2 DEF IInv, RouteFits, Nothing
    <2> QED
      BY <2>1, <2>2
  <1>5. ASSUME NEW op \in Remote PROVE Tracks(op)'
    <2>1. Fit(op)' = Fit(op)
      BY <1>1, <1>2 DEF Fit, Nothing
    <2> QED
      BY <1>2, <2>1 DEF IInv, Tracks, Follows
  <1> QED
    BY <1>3, <1>4, <1>5 DEF IInv, Typed

LEMMA InitInv ==
  ASSUME Init PROVE IInv
  <1>1. PageTyped
    <2>1. events \in 0..MaxEvents
      <3>1. events = 0 /\ MaxEvents \in Nat
        BY DiscoverAssumption DEF Init
      <3> QED
        BY <3>1
    <2> QED
      BY <2>1, DiscoverAssumption DEF Init, PageTyped
  <1>2. ShownTyped
    BY DEF Init, ShownTyped, Nothing, Ops
  <1>3. CallsTyped /\ \A op \in Remote : calls[op] = <<>>
    <2>1. DOMAIN calls = Remote /\ \A op \in Remote : calls[op] = <<>>
      BY DEF Init
    <2>2. <<>> \in Seq({}) /\ Ordered(<<>>)
      BY DEF Ordered
    <2>3. \A op \in Remote : <<>> \in Seq(Queue(Sent(op)))
      OBVIOUS
    <2> QED
      BY <2>1, <2>2, <2>3 DEF CallsTyped
  <1>4. DueTyped /\ ListFits /\ RouteFits
    <2>1. DueTyped /\ ListFits
      BY DEF Init, DueTyped, ListFits
    <2>2. shown["route"] = Nothing["route"]
      BY DEF Init, Nothing
    <2> QED
      BY <2>1, <2>2 DEF RouteFits
  <1>5. ASSUME NEW op \in Remote PROVE Tracks(op)
    <2>1. Late(calls[op]) /\ shown[op] = Nothing[op] /\ station = NoStation /\ word = ""
      BY <1>3 DEF Init, Late
    <2>2. op # "places" => shown[op] \in Fit(op)
      BY <2>1 DEF Fit
    <2> QED
      BY <2>1, <2>2 DEF Tracks, Follows
  <1> QED
    BY <1>1, <1>2, <1>3, <1>4, <1>5 DEF IInv, Typed

LEMMA EventsCounted ==
  ASSUME events \in 0..MaxEvents, Event PROVE events' \in 0..MaxEvents
  BY DiscoverAssumption DEF Event

LEMMA StationsKeep ==
  ASSUME IInv, StationsArrive \/ StationsFail \/
         \E s \in Stations : SelectStation(s) \/ SelectSuggestion(s) \/ FocusStation(s)
  PROVE  IInv'
  <1> USE DiscoverAssumption DEF search, place, arrival, Calm
  <1>0. PageTyped
    BY DEF IInv, Typed
  <1>1. CASE StationsArrive
    <2>1. PageTyped' /\ station' # NoStation
      BY <1>0, <1>1 DEF StationsArrive, PageTyped
    <2> QED
      BY <1>1, <2>1, ChangeKeeps DEF StationsArrive
  <1>2. CASE StationsFail
    <2>1. PageTyped' /\ station' = station
      BY <1>0, <1>2, EventsCounted DEF StationsFail, PageTyped
    <2> QED
      BY <1>2, <2>1, ChangeKeeps DEF StationsFail
  <1>3. ASSUME NEW s \in Stations, SelectStation(s) PROVE IInv'
    <2>1. PageTyped' /\ station' # NoStation
      BY <1>0, <1>3, EventsCounted DEF SelectStation, PageTyped
    <2> QED
      BY <1>3, <2>1, ChangeKeeps DEF SelectStation
  <1>4. ASSUME NEW s \in Stations, SelectSuggestion(s) PROVE IInv'
    <2>1. PageTyped' /\ station' # NoStation
      BY <1>0, <1>4, EventsCounted DEF SelectSuggestion, PageTyped
    <2> QED
      BY <1>4, <2>1, ChangeKeeps DEF SelectSuggestion
  <1>5. ASSUME NEW s \in Stations, FocusStation(s) PROVE IInv'
    <2>1. PageTyped' /\ station' # NoStation
      BY <1>0, <1>5, EventsCounted DEF FocusStation, PageTyped
    <2> QED
      BY <1>5, <2>1, ChangeKeeps DEF FocusStation
  <1> QED
    BY <1>1, <1>2, <1>3, <1>4, <1>5

LEMMA SearchesKeep ==
  ASSUME IInv,
         \/ TypeWord \/ ClosePlace
         \/ \E c \in Categories : ToggleCategory(c)
         \/ \E a \in Areas : SearchThisArea(a)
         \/ \E p \in Places : SelectPlace(p)
  PROVE  IInv'
  <1> USE DiscoverAssumption DEF search, place, arrival, Calm
  <1>0. PageTyped
    BY DEF IInv, Typed
  <1>1. CASE TypeWord
    <2>1. PageTyped' /\ station' = station
      BY <1>0, <1>1, EventsCounted DEF TypeWord, PageTyped
    <2> QED
      BY <1>1, <2>1, ChangeKeeps DEF TypeWord
  <1>2. CASE ClosePlace
    <2>1. PageTyped' /\ station' = station
      BY <1>0, <1>2, EventsCounted DEF ClosePlace, PageTyped
    <2> QED
      BY <1>2, <2>1, ChangeKeeps DEF ClosePlace
  <1>3. ASSUME NEW c \in Categories, ToggleCategory(c) PROVE IInv'
    <2>1. PageTyped' /\ station' = station
      BY <1>0, <1>3, EventsCounted DEF ToggleCategory, PageTyped
    <2> QED
      BY <1>3, <2>1, ChangeKeeps DEF ToggleCategory
  <1>4. ASSUME NEW a \in Areas, SearchThisArea(a) PROVE IInv'
    <2>1. PageTyped' /\ station' = station
      BY <1>0, <1>4, EventsCounted DEF SearchThisArea, PageTyped
    <2> QED
      BY <1>4, <2>1, ChangeKeeps DEF SearchThisArea
  <1>5. ASSUME NEW p \in Places, SelectPlace(p) PROVE IInv'
    <2>1. PageTyped' /\ station' = station
      BY <1>0, <1>5, EventsCounted DEF SelectPlace, PageTyped
    <2> QED
      BY <1>5, <2>1, ChangeKeeps DEF SelectPlace
  <1> QED
    BY <1>1, <1>2, <1>3, <1>4, <1>5

LEMMA AddressKeeps ==
  ASSUME IInv, ApplyAddress \/ AddressAnswers PROVE IInv'
  <1> USE DiscoverAssumption DEF search, place, arrival, Calm
  <1>0. PageTyped /\ DueTyped
    BY DEF IInv, Typed
  <1>1. addressDue
    BY DEF ApplyAddress, AddressAnswers
  <1>2. /\ address.place \in Places /\ address.cat \in Categories
        /\ address.station \in Stations \cup {NoStation} /\ address.area \in Areas
    BY <1>0, <1>1 DEF PageTyped, DueTyped
  <1>3. CASE ApplyAddress
    <2>1. PageTyped' /\ station' # NoStation
      BY <1>0, <1>2, <1>3 DEF ApplyAddress, PageTyped
    <2> QED
      BY <1>3, <2>1, ChangeKeeps DEF ApplyAddress
  <1>4. CASE AddressAnswers /\ cached
    <2>1. PageTyped' /\ station' # NoStation
      BY <1>0, <1>2, <1>4 DEF AddressAnswers, PageTyped
    <2> QED
      BY <1>4, <2>1, ChangeKeeps DEF AddressAnswers
  <1>5. CASE AddressAnswers /\ ~cached
    <2>1. /\ addressDue' = FALSE
          /\ UNCHANGED <<known, listed, station, area, cats, word, selected, items, shown, due,
                         calls, address, handled, cached, astray, events>>
      BY <1>5 DEF AddressAnswers
    <2> QED
      BY <2>1, RestKeeps
  <1> QED
    BY <1>3, <1>4, <1>5

\* The timers.
LEMMA SendKeeps ==
  ASSUME IInv, NEW op \in {"places", "suggestions"}, Send(op) PROVE IInv'
  <1>0. op \in Remote /\ op \in Timed /\ op # "departures" /\ op # "route"
    BY DEF Remote, Ops, Timed
  <1>1. /\ UNCHANGED <<known, listed, station, area, cats, word, selected, items, shown,
                       address, handled, cached, addressDue, astray, events>>
        /\ due' = due \ {op} /\ op \in due
        /\ calls' = Ask(op, Inputs[op], calls)
    BY DEF Send, Calm, search, place, arrival
  <1>2. Criteria' = Criteria /\ selectedStation' = selectedStation
    BY <1>1 DEF Criteria, selectedStation
  <1>3. Inputs' = Inputs /\ Ready' = Ready
    BY <1>1, <1>2 DEF Inputs, Ready
  <1>4. PageTyped' /\ ShownTyped' /\ ListFits'
    BY <1>1 DEF IInv, Typed, PageTyped, ShownTyped, ListFits, Nothing, Items, Around, Asked
  <1>5. DueTyped' /\ RouteFits'
    <2>1. DueTyped'
      BY <1>1, <1>3 DEF IInv, Typed, DueTyped
    <2>2. "route" \in due' <=> "route" \in due
      BY <1>0, <1>1
    <2>3. RouteFits'
      BY <1>1, <1>3, <2>2 DEF IInv, RouteFits, Nothing
    <2> QED
      BY <2>1, <2>3
  <1>6. Inputs[op] \in Sent(op)
    <2>1. Ready[op]
      BY <1>1 DEF IInv, Typed, DueTyped
    <2>2. CASE op = "places"
      <3>1. station # NoStation
        BY <2>1, <2>2 DEF Ready
      <3>2. Criteria \in Searches
        BY <3>1 DEF IInv, Typed, PageTyped, Criteria, Searches, Criterion
      <3> QED
        BY <2>2, <3>2 DEF Sent, Inputs
    <2>3. CASE op = "suggestions"
      <3>1. word = "typed"
        BY <2>3 DEF Send, IInv, Typed, PageTyped
      <3> QED
        BY <2>3, <3>1 DEF Sent, Asks, Inputs
    <2> QED
      BY <2>2, <2>3
  <1>7. PICK q \in Seq(Queue(Sent(op))) : q = calls[op] /\ Ordered(q)
    BY <1>0 DEF IInv, Typed, CallsTyped
  <1>8. PICK x : x = Inputs[op]
    OBVIOUS
  <1>9. PICK r : r = Appending(q, x)
    OBVIOUS
  <1>10. r \in Seq(Queue(Sent(op))) /\ Ordered(r) /\ ~Late(r) /\ r[Len(r)].for = x
    BY <1>6, <1>7, <1>8, <1>9, Appended
  <1>11. calls' = [calls EXCEPT ![op] = r]
    BY <1>1, <1>7, <1>8, <1>9 DEF Ask, Appending
  <1>12. DOMAIN calls' = Remote /\ \A o \in Remote : calls'[o] = IF o = op THEN r ELSE calls[o]
    BY <1>0, <1>11 DEF IInv, Typed, CallsTyped
  <1>13. CallsTyped'
    BY <1>10, <1>12 DEF IInv, Typed, CallsTyped
  <1>14. ASSUME NEW o \in Remote PROVE Tracks(o)'
    <2>1. CASE o = op
      BY <1>3, <1>8, <1>10, <1>12, <2>1 DEF Tracks, Follows
    <2>2. CASE o # op
      <3>1. calls'[o] = calls[o] /\ (o \in due' <=> o \in due)
        BY <1>1, <1>12, <2>2
      <3>2. Fit(o)' = Fit(o)
        BY <1>2, <1>3 DEF Fit, Nothing
      <3> QED
        BY <1>1, <1>3, <3>1, <3>2 DEF IInv, Tracks, Follows
    <2> QED
      BY <2>1, <2>2
  <1> QED
    BY <1>4, <1>5, <1>13, <1>14 DEF IInv, Typed

LEMMA SendRouteKeeps ==
  ASSUME IInv, SendRoute PROVE IInv'
  <1>1. /\ UNCHANGED <<known, listed, station, area, cats, word, selected, items, calls,
                       address, handled, cached, addressDue, astray, events>>
        /\ due' = due \ {"route"} /\ "route" \in due
        /\ shown' = [shown EXCEPT !["route"] = Inputs["route"]]
    BY DEF SendRoute, Calm, search, place, arrival
  <1>2. Criteria' = Criteria /\ selectedStation' = selectedStation
    BY <1>1 DEF Criteria, selectedStation
  <1>3. Inputs' = Inputs /\ Ready' = Ready
    BY <1>1, <1>2 DEF Inputs, Ready
  <1>4. PageTyped' /\ CallsTyped'
    BY <1>1 DEF IInv, Typed, PageTyped, CallsTyped
  <1>5. /\ DOMAIN shown' = Ops
        /\ \A o \in Ops : shown'[o] = IF o = "route" THEN Inputs["route"] ELSE shown[o]
    BY <1>1 DEF IInv, Typed, ShownTyped
  <1>6. DueTyped'
    BY <1>1, <1>3 DEF IInv, Typed, DueTyped
  <1>7. ShownTyped'
    <2>1. Ready["route"]
      BY <1>1 DEF IInv, Typed, DueTyped
    <2>2. selected # NoPlace /\ selectedStation # NoStation
      BY <2>1 DEF Ready
    <2>3. Inputs["route"] \in Asks["route"]
      BY <2>2 DEF IInv, Typed, PageTyped, Inputs, Asks, selectedStation
    <2> QED
      BY <1>5, <2>3 DEF IInv, Typed, ShownTyped, Nothing
  <1>8. ListFits'
    <2>1. shown'["places"] = shown["places"]
      BY <1>5 DEF Ops
    <2> QED
      BY <1>1, <2>1 DEF IInv, ListFits, Items, Around, Asked
  <1>9. RouteFits'
    <2>1. shown'["route"] = Inputs'["route"]
      BY <1>3, <1>5 DEF Ops
    <2> QED
      BY <2>1 DEF RouteFits
  <1>10. ASSUME NEW o \in Remote PROVE Tracks(o)'
    <2>1. shown'[o] = shown[o] /\ (o \in due' <=> o \in due)
      BY <1>1, <1>5 DEF Remote
    <2>2. Fit(o)' = Fit(o)
      BY <1>2, <1>3 DEF Fit, Nothing
    <2> QED
      BY <1>1, <1>3, <2>1, <2>2 DEF IInv, Tracks, Follows
  <1> QED
    BY <1>4, <1>6, <1>7, <1>8, <1>9, <1>10 DEF IInv, Typed

LEMMA ClearKeeps ==
  ASSUME IInv, ClearSuggestions PROVE IInv'
  <1> DEFINE sg == "suggestions"
  <1>0. sg \in Remote /\ sg \in Ops /\ sg \in Timed
    BY DEF Remote, Ops, Timed
  <1>1. /\ UNCHANGED <<known, listed, station, area, cats, word, selected, items,
                       address, handled, cached, addressDue, events>>
        /\ due' = due \ {sg} /\ word = "" /\ astray' = astray \ {sg}
        /\ shown' = [shown EXCEPT ![sg] = Nothing[sg]]
    BY DEF ClearSuggestions, Calm, search, place, arrival
  <1>2. Criteria' = Criteria /\ selectedStation' = selectedStation
    BY <1>1 DEF Criteria, selectedStation
  <1>3. Inputs' = Inputs /\ Ready' = Ready
    BY <1>1, <1>2 DEF Inputs, Ready
  <1>4. PageTyped' /\ DueTyped'
    <2>1. PageTyped'
      BY <1>1 DEF IInv, Typed, PageTyped
    <2>2. DueTyped'
      BY <1>1, <1>3 DEF IInv, Typed, DueTyped
    <2> QED
      BY <2>1, <2>2
  <1>5. PICK q \in Seq(Queue(Sent(sg))) : q = calls[sg]
    BY <1>0 DEF IInv, Typed, CallsTyped
  <1>6. PICK r : r = Overtaking(q)
    OBVIOUS
  <1>7. r \in Seq(Queue(Sent(sg))) /\ Ordered(r) /\ Late(r)
    BY <1>5, <1>6, AllOvertaken
  <1>8. calls' = [calls EXCEPT ![sg] = r]
    BY <1>5, <1>6 DEF ClearSuggestions, Overtaking
  <1>9. /\ DOMAIN calls' = Remote /\ DOMAIN shown' = Ops
        /\ \A o \in Remote : calls'[o] = IF o = sg THEN r ELSE calls[o]
        /\ \A o \in Ops : shown'[o] = IF o = sg THEN Nothing[sg] ELSE shown[o]
    BY <1>0, <1>1, <1>8 DEF IInv, Typed, CallsTyped, ShownTyped
  <1>10. CallsTyped' /\ ShownTyped'
    <2>1. CallsTyped'
      BY <1>7, <1>9 DEF IInv, Typed, CallsTyped
    <2>2. ShownTyped'
      BY <1>9 DEF IInv, Typed, ShownTyped, Nothing
    <2> QED
      BY <2>1, <2>2
  <1>11. ListFits' /\ RouteFits'
    <2>1. /\ shown'["places"] = shown["places"] /\ shown'["route"] = shown["route"]
          /\ "route" \in due' <=> "route" \in due
      BY <1>1, <1>9 DEF Ops
    <2>2. ListFits'
      BY <1>1, <2>1 DEF IInv, ListFits, Items, Around, Asked
    <2>3. RouteFits'
      BY <1>1, <1>3, <2>1 DEF IInv, RouteFits, Nothing
    <2> QED
      BY <2>2, <2>3
  <1>12. ASSUME NEW o \in Remote PROVE Tracks(o)'
    <2>1. Fit(o)' = Fit(o)
      BY <1>2, <1>3 DEF Fit, Nothing
    <2>2. CASE o = sg
      <3>1. Late(calls'[o]) /\ shown'[o] = Nothing[o] /\ Nothing[o] \in Fit(o)
        BY <1>0, <1>7, <1>9, <2>2 DEF Fit
      <3> QED
        BY <2>1, <3>1 DEF Tracks, Follows
    <2>3. CASE o # sg
      <3>1. /\ calls'[o] = calls[o] /\ shown'[o] = shown[o]
            /\ o \in due' <=> o \in due
            /\ o \in astray' <=> o \in astray
        BY <1>1, <1>9, <2>3 DEF Remote
      <3> QED
        BY <1>1, <1>3, <2>1, <3>1 DEF IInv, Tracks, Follows
    <2> QED
      BY <2>2, <2>3
  <1> QED
    BY <1>4, <1>10, <1>11, <1>12 DEF IInv, Typed

\* What is known of a request under way
LEMMA Requested ==
  ASSUME IInv, NEW op \in Remote, NEW i \in DOMAIN calls[op]
  PROVE  calls[op][i].for \in Sent(op) /\ calls[op][i].overtaken \in BOOLEAN
  <1>1. PICK q \in Seq(Queue(Sent(op))) : q = calls[op]
    BY DEF IInv, Typed, CallsTyped
  <1>2. q[i] \in Queue(Sent(op))
    BY <1>1
  <1> QED
    BY <1>1, <1>2 DEF Queue

LEMMA RejectKeeps ==
  ASSUME IInv, NEW op \in Remote, NEW i \in DOMAIN calls[op], Reject(op, i) PROVE IInv'
  <1>1. /\ UNCHANGED <<known, listed, search, station, area, cats, word, selected, items, shown,
                       due, address, handled, cached, addressDue>>
        /\ calls' = Without(op, i) /\ Event
        /\ astray' = IF calls[op][i].overtaken = TRUE THEN astray ELSE astray \cup {op}
    BY DEF Reject, Strays, search, place, arrival
  <1>2. events' \in 0..MaxEvents
    BY <1>1, EventsCounted DEF IInv, Typed, PageTyped
  <1>3. PageTyped' /\ ShownTyped' /\ ListFits'
    BY <1>1, <1>2 DEF IInv, Typed, PageTyped, ShownTyped, ListFits, Nothing, Items, Around, Asked
  <1>4. /\ \A o \in Remote \ {op} : o \in astray' <=> o \in astray
        /\ op \in astray' <=> op \in astray \/ ~calls[op][i].overtaken
    BY <1>1, Requested
  <1>5. PICK others : others = Without(op, i)
    OBVIOUS
  <1> QED
    BY <1>1, <1>3, <1>4, <1>5, OverKeeps

\* The answer of a request, or its refusal, is the last that is shown.
LEMMA Strayed ==
  ASSUME IInv, NEW op \in Remote, NEW i \in DOMAIN calls[op], Strays(op, i, FALSE)
  PROVE  /\ \A o \in Remote \ {op} : o \in astray' <=> o \in astray
         /\ op \in astray' <=> calls[op][i].overtaken
         /\ astray' \subseteq Remote
  <1>1. astray' = IF calls[op][i].overtaken = FALSE THEN astray \ {op} ELSE astray \cup {op}
    BY DEF Strays
  <1> QED
    BY <1>1, Requested DEF IInv, Typed, PageTyped

LEMMA AnswerKeeps ==
  ASSUME IInv, NEW op \in Remote, NEW i \in DOMAIN calls[op],
         NEW given \in BOOLEAN, NEW joins \in BOOLEAN, Answer(op, i, given, joins)
  PROVE  IInv'
  <1>0. PICK x : x = IF given THEN calls[op][i].for ELSE Nothing[op]
    OBVIOUS
  <1>1. /\ UNCHANGED <<listed, search, station, area, cats, word, selected, items,
                       address, handled, cached>>
        /\ Effects(FALSE, Without(op, i)) /\ Strays(op, i, FALSE)
        /\ shown' = [shown EXCEPT ![op] = x] /\ op # "places"
        /\ known' = IF joins THEN known \cup {calls[op][i].for} ELSE known
        /\ joins => op = "departures"
        /\ Calm \/ Event
    BY <1>0 DEF Answer, search, place, arrival
  <1>2. calls[op][i].for \in Asks[op] /\ (joins => calls[op][i].for \in Stations)
    <2>1. calls[op][i].for \in Asks[op]
      BY <1>1, Requested DEF Sent
    <2> QED
      BY <1>1, <2>1 DEF Asks
  <1>3. /\ DOMAIN shown' = Ops
        /\ \A o \in Ops : shown'[o] = IF o = op THEN x ELSE shown[o]
    BY <1>1 DEF IInv, Typed, ShownTyped
  <1>4. ShownTyped'
    BY <1>0, <1>2, <1>3 DEF IInv, Typed, ShownTyped, Nothing
  <1>5. ListFits'
    <2>1. shown'["places"] = shown["places"]
      BY <1>1, <1>3 DEF Ops
    <2> QED
      BY <1>1, <2>1 DEF IInv, ListFits, Items, Around, Asked
  <1>6. PageTyped'
    <2>1. events' \in 0..MaxEvents
      BY <1>1, EventsCounted DEF IInv, Typed, PageTyped, Calm
    <2> QED
      BY <1>1, <1>2, <2>1, Strayed DEF IInv, Typed, PageTyped
  <1>7. PICK others : others = Without(op, i)
    OBVIOUS
  <1>8. /\ shown'[op] = calls[op][i].for \/ shown'[op] = Nothing[op]
        /\ \A o \in Ops \ {op} : shown'[o] = shown[o]
    BY <1>0, <1>3 DEF Remote
  <1>9. /\ \A o \in Remote \ {op} : o \in astray' <=> o \in astray
        /\ op \in astray' <=> calls[op][i].overtaken
    BY <1>1, Strayed
  <1>10. \E other : Effects(other, others)
    BY <1>1, <1>7
  <1> QED
    BY <1>1, <1>4, <1>5, <1>6, <1>7, <1>8, <1>9, <1>10, OverKeeps

\* What is listed is around a station or in an area the page knows.
LEMMA ListedPlaces ==
  ASSUME NEW c \in Searches, NEW kinds
  PROVE  /\ Items(c, kinds) \subseteq Places
         /\ kinds \subseteq Asked(c) => Items(c, kinds) \subseteq Items(c, Asked(c))
  <1>1. c.station \in Stations /\ (c.area = NoArea \/ c.area \in Areas)
    BY DEF Searches, Criterion
  <1>2. Found[IF c.area = NoArea THEN c.station ELSE c.area] \subseteq Places
    BY <1>1, DiscoverAssumption
  <1> QED
    BY <1>2 DEF Items, Around

LEMMA AnswerPlacesKeeps ==
  ASSUME IInv, NEW i \in DOMAIN calls.places,
         NEW kinds \in SUBSET Asked(calls.places[i].for), AnswerPlaces(i, kinds)
  PROVE  IInv'
  <1> DEFINE pl == "places"
  <1>0. pl \in Remote /\ pl \in Ops
    BY DEF Remote, Ops
  <1>1. PICK c \in Searches : c = calls[pl][i].for
    BY <1>0, Requested DEF Sent
  <1>2. /\ UNCHANGED <<known, listed, search, station, area, cats, word, address>>
        /\ items' = Items(c, kinds) /\ shown' = [shown EXCEPT ![pl] = c]
        /\ selected' \in Selection(Items(c, kinds))
        /\ Effects(selected' # NoPlace, Without(pl, i)) /\ Strays(pl, i, FALSE)
    BY <1>1 DEF AnswerPlaces, search
  <1>3. /\ handled' = (handled \/ (address # NoAddress /\ address.place \in Items(c, kinds)))
        /\ cached' = (cached \/ (address # NoAddress /\ address.place \in Around(c, kinds)))
        /\ Calm \/ Event
    BY <1>1 DEF AnswerPlaces
  <1>4. events' \in 0..MaxEvents
    BY <1>3, EventsCounted DEF IInv, Typed, PageTyped, Calm
  <1>5. Items(c, kinds) \subseteq Places /\ Items(c, kinds) \subseteq Items(c, Asked(c))
    BY <1>1, ListedPlaces
  <1>6. PageTyped'
    <2>1. selected' \in Places \cup {NoPlace}
      BY <1>2, <1>5 DEF Selection
    <2>2. handled' \in BOOLEAN /\ cached' \in BOOLEAN
      BY <1>3
    <2>3. astray' \subseteq Remote
      BY <1>0, <1>2, Strayed
    <2> QED
      BY <1>2, <1>4, <1>5, <2>1, <2>2, <2>3 DEF IInv, Typed, PageTyped
  <1>7. DOMAIN shown' = Ops /\ \A o \in Ops : shown'[o] = IF o = pl THEN c ELSE shown[o]
    BY <1>2 DEF IInv, Typed, ShownTyped
  <1>8. ShownTyped'
    <2>1. c \in Asks[pl]
      BY DEF Searches, Asks
    <2> QED
      BY <1>7, <2>1 DEF IInv, Typed, ShownTyped, Nothing
  <1>9. ListFits'
    <2>1. shown'[pl] = c
      BY <1>0, <1>7
    <2> QED
      BY <1>2, <1>5, <2>1 DEF ListFits, Searches, Items, Around, Asked
  <1>10. PICK others : others = Without(pl, i)
    OBVIOUS
  <1>11. shown'[pl] = calls[pl][i].for /\ \A o \in Ops \ {pl} : shown'[o] = shown[o]
    BY <1>0, <1>1, <1>7
  <1>12. /\ \A o \in Remote \ {pl} : o \in astray' <=> o \in astray
         /\ pl \in astray' <=> calls[pl][i].overtaken
    BY <1>0, <1>2, Strayed
  <1>13. \E other : Effects(other, others)
    BY <1>2, <1>10
  <1> QED
    BY <1>0, <1>2, <1>6, <1>8, <1>9, <1>10, <1>11, <1>12, <1>13, OverKeeps

LEMMA NextInv ==
  ASSUME IInv, [Next]_vars PROVE IInv'
  <1>1. CASE UNCHANGED vars
    BY <1>1, RestKeeps DEF vars
  <1>2. CASE UserActs
    BY <1>2, StationsKeep, SearchesKeep DEF UserActs
  <1>3. CASE Failures
    BY <1>3, StationsKeep, RejectKeeps DEF Failures
  <1>4. CASE Timers
    BY <1>4, ClearKeeps, SendRouteKeeps, SendKeeps DEF Timers
  <1>5. CASE Answers
    BY <1>5, StationsKeep, AddressKeeps, AnswerKeeps, AnswerPlacesKeeps DEF Answers
  <1>6. CASE ApplyAddress
    BY <1>6, AddressKeeps
  <1> QED
    BY <1>1, <1>2, <1>3, <1>4, <1>5, <1>6 DEF Next, Work

-----------------------------------------------------------------------------
(* The theorems. *)

(* The variables of the search have their types, and a timer runs only for an *)
(* effect that did not return early: no list is asked for without a station   *)
(* (loadPlaces, page.tsx:311), no way on foot without a place and a station.  *)
THEOREM SearchTypes == Spec => []TypeOK
  <1>1. IInv => TypeOK
    <2> SUFFICES ASSUME IInv PROVE TypeOK
      OBVIOUS
    <2>1. Criteria \in Criterion
      BY DEF IInv, Typed, PageTyped, Criteria, Criterion
    <2>2. ASSUME NEW op \in Remote PROVE calls[op] \in Seq(Queue(Asks[op]))
      <3>1. Sent(op) \subseteq Asks[op]
        BY DEF Sent, Searches, Asks
      <3>2. Queue(Sent(op)) \subseteq Queue(Asks[op])
        BY <3>1 DEF Queue
      <3>3. PICK q \in Seq(Queue(Sent(op))) : q = calls[op]
        BY DEF IInv, Typed, CallsTyped
      <3>4. q \in Seq(Queue(Asks[op]))
        BY <3>2, <3>3
      <3> QED
        BY <3>3, <3>4
    <2> QED
      BY <2>1, <2>2 DEF IInv, Typed, PageTyped, ShownTyped, DueTyped, TypeOK
  <1> QED
    BY <1>1, InitInv, NextInv, PTL DEF Spec

(* Whatever order answers come in and whatever is refused, rejects or changes *)
(* meanwhile, what an operation at rest shows is for the station, the area,   *)
(* the categories, the words and the place the page shows, unless it came     *)
(* after the answer to a later request, or the last request was rejected (the *)
(* effects of page.tsx:289-438).                                              *)
THEOREM SearchAnswersFit == Spec => []AnswersFit
  <1>1. IInv => AnswersFit
    <2> SUFFICES ASSUME IInv PROVE AnswersFit
      OBVIOUS
    <2>1. ASSUME NEW op \in Remote, AtRest(op), op = "places" => station # NoStation
          PROVE  shown[op] \in Fit(op)
      BY <2>1 DEF IInv, AtRest, Tracks, Follows, Late
    <2>2. AtRest("places") /\ station # NoStation =>
            shown.places = Criteria /\ items \subseteq Items(Criteria, Asked(Criteria))
      <3> SUFFICES ASSUME AtRest("places"), station # NoStation
                   PROVE shown.places = Criteria /\ items \subseteq Items(Criteria, Asked(Criteria))
        OBVIOUS
      <3>1. "places" \in Remote
        BY DEF Remote, Ops
      <3>2. shown["places"] = Criteria
        BY <2>1, <3>1 DEF Fit
      <3> QED
        BY <3>2 DEF IInv, ListFits
    <2>3. ASSUME NEW op \in {"departures", "suggestions"}, AtRest(op)
          PROVE  shown[op] \in {Inputs[op], Nothing[op]}
      <3>1. op \in Remote /\ op # "places"
        BY DEF Remote, Ops
      <3> QED
        BY <2>1, <2>3, <3>1 DEF Fit
    <2> QED
      BY <2>2, <2>3 DEF IInv, RouteFits, AnswersFit
  <1> QED
    BY <1>1, InitInv, NextInv, PTL DEF Spec


-----------------------------------------------------------------------------
(* The invariant of the route's schedule. *)

\* A calculation is a record with its four fields.
Shaped(c) ==
    c \in [route : {c.route}, minute : {c.minute}, hop : {c.hop}, active : {c.active}]

\* With the effect run, a calculation that still counts is for what is shown ...
CurrentFits ==
    \A c \in calcs : c.active /\ ~calcDue => c.route = Route /\ c.minute = minute

\* ... and a schedule that is not will be replaced by one.
Replaced ==
    ~calcDue /\ schedule # <<>> /\ Len(Route) >= 2 =>
        \/ schedule = <<[route |-> Route, minute |-> minute]>>
        \/ \E c \in calcs : c.active

\* Before the clock is first read nothing is calculated.
ClockFirst == minute = NoMinute => schedule = <<>> /\ calcs = {}

BoardInv == (\A c \in calcs : Shaped(c)) /\ CurrentFits /\ Replaced /\ ClockFirst

-----------------------------------------------------------------------------
\* The route depends on the route asked for and the stations known.
LEMMA RouteStays == UNCHANGED <<ids, known>> => Route' = Route
  BY DEF Route

\* What the clean-up leaves of a calculation does not count.
LEMMA CleanedUp ==
  ASSUME NEW c, Shaped(c)
  PROVE  LET d == [c EXCEPT !.active = FALSE] IN Shaped(d) /\ d.active = FALSE
  BY DEF Shaped

\* A calculation that takes a hop is for the same route and minute.
LEMMA NextHopShaped ==
  ASSUME NEW c, Shaped(c), NEW n
  PROVE  LET d == [c EXCEPT !.hop = n]
         IN  Shaped(d) /\ d.active = c.active /\ d.route = c.route /\ d.minute = c.minute
  BY DEF Shaped

\* Whatever makes the effect due leaves nothing to show but the types.
LEMMA ChangeKeepsInv ==
  ASSUME BoardInv, Change, UNCHANGED calcs,
         schedule' = <<>> \/ UNCHANGED schedule,
         minute' \in Minutes \/ UNCHANGED minute
  PROVE  BoardInv'
  <1>1. calcDue' = TRUE
    BY DEF Change
  <1>2. (\A c \in calcs : Shaped(c))'
    BY DEF BoardInv, Shaped
  <1>3. CurrentFits' /\ Replaced'
    BY <1>1 DEF CurrentFits, Replaced
  <1>4. ClockFirst'
    BY BoardAssumption DEF BoardInv, ClockFirst
  <1> QED
    BY <1>2, <1>3, <1>4 DEF BoardInv

\* The clean-up silences what ran before; what is started is for what is shown.
LEMMA EffectKeepsInv == BoardInv /\ EffectRuns => BoardInv'
  <1> SUFFICES ASSUME BoardInv, EffectRuns PROVE BoardInv'
    OBVIOUS
  <1> DEFINE old == {[c EXCEPT !.active = FALSE] : c \in calcs}
             new == [route |-> Route, minute |-> minute, hop |-> 0, active |-> TRUE]
             start == ~(Len(Route) < 2 \/ minute = NoMinute)
  <1>0. Route' = Route /\ minute' = minute /\ schedule' = schedule
    BY RouteStays DEF EffectRuns
  <1>1. calcs' = IF start THEN old \cup {new} ELSE old
    BY DEF EffectRuns
  <1>2. \A d \in old : Shaped(d) /\ d.active = FALSE
    BY CleanedUp DEF BoardInv
  <1>3. Shaped(new) /\ new.route = Route /\ new.minute = minute /\ new.active
    BY DEF Shaped
  <1> HIDE DEF old, new
  <1>4. (\A c \in calcs : Shaped(c))'
    BY <1>1, <1>2, <1>3 DEF Shaped
  <1>5. CurrentFits'
    BY <1>0, <1>1, <1>2, <1>3 DEF CurrentFits
  <1>6. ClockFirst'
    <2>1. minute = NoMinute => calcs' = {} /\ schedule' = <<>>
      BY <1>0, <1>1 DEF BoardInv, ClockFirst, old
    <2> QED
      BY <1>0, <2>1 DEF ClockFirst
  <1>7. Replaced'
    <2>1. CASE start
      BY <1>1, <1>3, <2>1 DEF Replaced
    <2>2. CASE minute = NoMinute
      BY <1>0, <2>2 DEF BoardInv, ClockFirst, Replaced
    <2>3. CASE Len(Route) < 2
      BY <1>0, <2>3 DEF Replaced
    <2> QED
      BY <2>1, <2>2, <2>3
  <1> QED
    BY <1>4, <1>5, <1>6, <1>7 DEF BoardInv

\* Calculations that are given up leave no times if they counted.
LEMMA FailureKeepsInv ==
  ASSUME BoardInv, NEW cs \in SUBSET calcs, Failed(cs),
         UNCHANGED <<ids, known, minute, calcDue>>
  PROVE  BoardInv'
  <1>0. Route' = Route
    BY RouteStays
  <1>1. calcs' \subseteq calcs
    BY DEF Failed
  <1>2. schedule' = <<>> \/ (schedule' = schedule /\ ~\E c \in cs : c.active)
    BY DEF Failed
  <1>3. (\A c \in calcs : Shaped(c))'
    BY <1>1 DEF BoardInv, Shaped
  <1>4. CurrentFits'
    BY <1>0, <1>1 DEF BoardInv, CurrentFits
  <1>5. ClockFirst'
    BY <1>1, <1>2 DEF BoardInv, ClockFirst
  <1>6. Replaced'
    <2>1. CASE schedule' = <<>>
      BY <2>1 DEF Replaced
    <2>2. CASE schedule' = schedule /\ ~\E c \in cs : c.active
      <3>1. (\E c \in calcs : c.active) => \E c \in calcs' : c.active
        BY <2>2 DEF Failed
      <3> QED
        BY <1>0, <2>2, <3>1 DEF BoardInv, Replaced
    <2> QED
      BY <1>2, <2>1, <2>2
  <1> QED
    BY <1>3, <1>4, <1>5, <1>6 DEF BoardInv

\* A calculation that is through and counts was for what is shown.
LEMMA SuccessKeepsInv ==
  ASSUME BoardInv, NEW c \in calcs, Succeeded(c), UNCHANGED <<ids, known, minute, calcDue>>
  PROVE  BoardInv'
  <1>0. Route' = Route
    BY RouteStays
  <1>1. calcs' = calcs \ {c}
    BY DEF Succeeded
  <1>2. (\A d \in calcs : Shaped(d))'
    BY <1>1 DEF BoardInv, Shaped
  <1>3. CurrentFits'
    BY <1>0, <1>1 DEF BoardInv, CurrentFits
  <1>4. ClockFirst'
    BY <1>1 DEF BoardInv, ClockFirst
  <1>5. Replaced'
    <2>1. CASE c.active
      <3>1. schedule' = <<[route |-> c.route, minute |-> c.minute]>>
        BY <2>1 DEF Succeeded
      <3>2. ~calcDue => c.route = Route /\ c.minute = minute
        BY <2>1 DEF BoardInv, CurrentFits
      <3> QED
        BY <1>0, <3>1, <3>2 DEF Replaced
    <2>2. CASE ~c.active
      <3>1. schedule' = schedule
        BY <2>2 DEF Succeeded
      <3>2. (\E d \in calcs : d.active) => \E d \in calcs' : d.active
        BY <1>1, <2>2
      <3> QED
        BY <1>0, <3>1, <3>2 DEF BoardInv, Replaced
    <2> QED
      BY <2>1, <2>2
  <1> QED
    BY <1>2, <1>3, <1>4, <1>5 DEF BoardInv

\* One that goes on counts as before.
LEMMA HopKeepsInv ==
  ASSUME BoardInv, NEW c \in calcs, NEW n, calcs' = (calcs \ {c}) \cup {[c EXCEPT !.hop = n]},
         UNCHANGED <<ids, known, minute, calcDue, schedule>>
  PROVE  BoardInv'
  <1> DEFINE d == [c EXCEPT !.hop = n]
  <1>0. Route' = Route
    BY RouteStays
  <1>1. Shaped(d) /\ d.active = c.active /\ d.route = c.route /\ d.minute = c.minute
    BY NextHopShaped DEF BoardInv
  <1>2. calcs' = (calcs \ {c}) \cup {d}
    OBVIOUS
  <1> HIDE DEF d
  <1>3. (\A e \in calcs : Shaped(e))'
    BY <1>1, <1>2 DEF BoardInv, Shaped
  <1>4. CurrentFits'
    BY <1>0, <1>1, <1>2 DEF BoardInv, CurrentFits
  <1>5. ClockFirst'
    BY <1>2 DEF BoardInv, ClockFirst
  <1>6. Replaced'
    <2>1. (\E e \in calcs : e.active) => \E e \in calcs' : e.active
      BY <1>1, <1>2
    <2> QED
      BY <1>0, <2>1 DEF BoardInv, Replaced
  <1> QED
    BY <1>3, <1>4, <1>5, <1>6 DEF BoardInv

-----------------------------------------------------------------------------
\* Every step keeps the invariant.
LEMMA BoardNextInv ==
  ASSUME BoardInv, [BoardNext]_boardVars PROVE BoardInv'
  <1>0. ASSUME UNCHANGED <<ids, known, minute, calcDue, schedule, calcs>> PROVE BoardInv'
    <2>1. Route' = Route
      BY <1>0, RouteStays
    <2> QED
      BY <1>0, <2>1 DEF BoardInv, Shaped, CurrentFits, Replaced, ClockFirst
  <1>1. ASSUME NEW r \in Routes, ReplaceRoute(r) PROVE BoardInv'
    BY <1>1, ChangeKeepsInv DEF ReplaceRoute, Cleared
  <1>2. ASSUME NEW m \in Minutes, SyncClock(m) PROVE BoardInv'
    BY <1>2, ChangeKeepsInv DEF SyncClock, Cleared
  <1>3. ASSUME NEW new \in SUBSET Stations, StationsJoin(new) PROVE BoardInv'
    BY <1>3, ChangeKeepsInv DEF StationsJoin
  <1>4. CASE StationsLost
    BY <1>4, ChangeKeepsInv DEF StationsLost
  <1>5. CASE BoardMounts
    BY <1>0, <1>5 DEF BoardMounts
  <1>6. CASE MapNext
    BY <1>0, <1>6 DEF MapNext, MapArrives, MapFails
  <1>7. CASE EffectRuns
    BY <1>7, EffectKeepsInv
  <1>8. ASSUME NEW c \in calcs, NextHop(c) PROVE BoardInv'
    <2>0. UNCHANGED <<ids, known, minute, calcDue>>
      BY <1>8 DEF NextHop
    <2>1. CASE c.hop = Len(c.route) - 1
      <3>1. Succeeded(c)
        BY <1>8, <2>1 DEF NextHop
      <3> QED
        BY <2>0, <3>1, SuccessKeepsInv
    <2>2. CASE c.hop # Len(c.route) - 1
      <3>1. /\ calcs' = (calcs \ {c}) \cup {[c EXCEPT !.hop = c.hop + 1]}
            /\ UNCHANGED schedule
        BY <1>8, <2>2 DEF NextHop
      <3> QED
        BY <2>0, <3>1, HopKeepsInv
    <2> QED
      BY <2>1, <2>2
  <1>9. ASSUME NEW c \in calcs, NoMap(c) PROVE BoardInv'
    BY <1>9, FailureKeepsInv DEF NoMap
  <1>10. ASSUME NEW s \in Stations, RowsArrive(s) PROVE BoardInv'
    BY <1>0, <1>10 DEF RowsArrive
  <1>11. ASSUME NEW s \in Stations, RowsFail(s) PROVE BoardInv'
    BY <1>11, FailureKeepsInv DEF RowsFail
  <1>12. CASE UNCHANGED boardVars
    BY <1>0, <1>12 DEF boardVars
  <1> QED
    BY <1>1, <1>2, <1>3, <1>4, <1>5, <1>6, <1>7, <1>8, <1>9, <1>10, <1>11, <1>12
       DEF BoardNext, UserNext, CalcNext, RowsNext

-----------------------------------------------------------------------------
(* What the variables may be. *)

\* Of any numbers one is the least ...
LEMMA LeastOf ==
  ASSUME NEW N \in SUBSET Nat, N # {}
  PROVE  \E m \in N : \A n \in N : m <= n
  <1> DEFINE T == {0..n : n \in N}
  <1>1. T \subseteq FiniteSubsetsOf(Nat) /\ T # {}
    <2>1. \A n \in N : 0..n \subseteq Nat /\ IsFiniteSet(0..n)
      BY FS_Interval
    <2> QED
      BY <2>1 DEF FiniteSubsetsOf
  <1>2. \E x \in T : \A y \in T : <<y, x>> \notin StrictSubsetOrdering(Nat)
    <2> HIDE DEF T
    <2> QED
      BY <1>1, FS_StrictSubsetOrderingWellFounded, WFMin
  <1>3. PICK m \in N : \A n \in N : <<0..n, 0..m>> \notin StrictSubsetOrdering(Nat)
    BY <1>2
  <1>4. ASSUME NEW n \in N, n < m PROVE FALSE
    <2>1. 0..n \subseteq 0..m /\ 0..n \subseteq Nat /\ 0..m \subseteq Nat
      BY <1>4
    <2>2. m \in 0..m /\ m \notin 0..n
      BY <1>4
    <2> QED
      BY <2>1, <2>2, <1>3 DEF StrictSubsetOrdering
  <1> QED
    BY <1>3, <1>4

\* ... so what holds at 0 and from one number to the next holds up to any.
LEMMA IntervalInduction ==
  ASSUME NEW n \in Nat, NEW I,
         0 \in I, \A i \in 1..n : i - 1 \in I => i \in I
  PROVE  0..n \subseteq I
  <1> DEFINE Out == {i \in 0..n : i \notin I}
  <1> SUFFICES ASSUME Out # {} PROVE FALSE
    OBVIOUS
  <1>1. PICK m \in Out : \A i \in Out : m <= i
    <2>1. Out \in SUBSET Nat
      OBVIOUS
    <2> HIDE DEF Out
    <2> QED
      BY <2>1, LeastOf
  <1>2. m \in 1..n /\ m - 1 \notin Out
    BY <1>1
  <1> QED
    BY <1>2

LEMMA LenIsNat == ASSUME NEW S, NEW r \in Seq(S) PROVE Len(r) \in Nat
  OBVIOUS

\* One station more.
Taken(stations, r, k, i) ==
    IF r[i] \in stations THEN Append(k[i - 1], r[i]) ELSE k[i - 1]

\* k[i] is what is kept of the first i stations, up to n.
Keeps(stations, r, n, k) ==
    k = [i \in 0..n |-> IF i = 0 THEN <<>> ELSE Taken(stations, r, k, i)]

\* The recursive definition of Of defines something ...
LEMMA KeptSoFar ==
  ASSUME NEW stations, NEW S, NEW r \in Seq(S)
  PROVE  \E k : Keeps(stations, r, Len(r), k)
  <1> DEFINE I == {n \in 0..Len(r) : \E k : Keeps(stations, r, n, k)}
  <1>1. 0 \in I
    <2>1. Keeps(stations, r, 0, [i \in 0..0 |-> <<>>])
      BY DEF Keeps
    <2> QED
      BY <2>1
  <1>2. ASSUME NEW n \in 1..Len(r), n - 1 \in I PROVE n \in I
    <2>1. PICK k : Keeps(stations, r, n - 1, k)
      BY <1>2
    <2> DEFINE g == [i \in 0..n |-> IF i = n THEN Taken(stations, r, k, n) ELSE k[i]]
    <2>2. \A i \in 0..n : g[i] = IF i = n THEN Taken(stations, r, k, n) ELSE k[i]
      OBVIOUS
    <2>3. DOMAIN g = 0..n /\ g = [i \in 0..n |-> g[i]]
      OBVIOUS
    <2> HIDE DEF g
    <2>4. \A i \in 1..n : Taken(stations, r, g, i) = Taken(stations, r, k, i)
      <3>1. \A i \in 1..n : i - 1 \in 0..n /\ i - 1 # n
        OBVIOUS
      <3> QED
        BY <2>2, <3>1 DEF Taken
    <2>5. \A i \in 0..n : g[i] = IF i = 0 THEN <<>> ELSE Taken(stations, r, g, i)
      <3>1. ASSUME NEW i \in 0..(n - 1)
            PROVE  k[i] = IF i = 0 THEN <<>> ELSE Taken(stations, r, k, i)
        BY <2>1 DEF Keeps
      <3>2. \A i \in 0..n : i = n \/ i \in 0..(n - 1)
        OBVIOUS
      <3> QED
        BY <2>2, <2>4, <3>1, <3>2
    <2>6. Keeps(stations, r, n, g)
      BY <2>3, <2>5 DEF Keeps
    <2> QED
      BY <2>6
  <1> HIDE DEF I
  <1>3. 0..Len(r) \subseteq I
    <2>1. \A n \in 1..Len(r) : n - 1 \in I => n \in I
      BY <1>2
    <2> QED
      BY <1>1, <2>1, IntervalInduction, LenIsNat, Zenon
  <1> QED
    BY <1>3, LenIsNat DEF I

\* ... which is a route.
LEMMA KnownStationsAreRoute ==
  ASSUME NEW stations, NEW S, NEW r \in Seq(S)
  PROVE  Of(stations, r) \in Seq(S)
  <1> DEFINE kept == CHOOSE k : Keeps(stations, r, Len(r), k)
             I == {i \in 0..Len(r) : kept[i] \in Seq(S)}
  <1>1. Keeps(stations, r, Len(r), kept)
    BY KeptSoFar
  <1>2. Of(stations, r) = kept[Len(r)]
    BY DEF Of, Keeps, Taken
  <1> HIDE DEF kept
  <1>3. 0 \in I
    BY <1>1 DEF Keeps
  <1>4. ASSUME NEW i \in 1..Len(r), i - 1 \in I PROVE i \in I
    <2>1. kept[i] = Taken(stations, r, kept, i)
      BY <1>1 DEF Keeps
    <2>2. kept[i - 1] \in Seq(S) /\ r[i] \in S
      BY <1>4
    <2>3. kept[i] \in Seq(S)
      BY <2>1, <2>2 DEF Taken
    <2> QED
      BY <2>3
  <1> HIDE DEF I
  <1>5. 0..Len(r) \subseteq I
    <2>1. \A i \in 1..Len(r) : i - 1 \in I => i \in I
      BY <1>4
    <2> QED
      BY <1>3, <2>1, IntervalInduction, LenIsNat, Zenon
  <1> QED
    BY <1>2, <1>5, LenIsNat DEF I

\* The stations of a route that the page knows are a route.
LEMMA RouteIsRoute == BoardTypeOK => Route \in Seq(Stations)
  BY KnownStationsAreRoute DEF BoardTypeOK, Route

\* Calculations given up, or through, leave what has its type.
LEMMA OutcomeTyped ==
  ASSUME BoardTypeOK, NEW c \in calcs, NEW cs, Failed(cs) \/ Succeeded(c)
  PROVE  /\ calcs' \subseteq Calc
         /\ schedule' # <<>> =>
              /\ Len(schedule') = 1 /\ DOMAIN schedule'[1] = {"route", "minute"}
              /\ schedule'[1].route \in Seq(Stations) /\ schedule'[1].minute \in Minutes
         /\ status' \in {"idle", "loading", "success", "error"}
  <1>1. c.route \in Seq(Stations) /\ c.minute \in Minutes
    BY DEF BoardTypeOK, Calc
  <1>2. CASE Failed(cs)
    BY <1>2 DEF BoardTypeOK, Failed
  <1>3. CASE Succeeded(c)
    BY <1>1, <1>3 DEF BoardTypeOK, Succeeded
  <1> QED
    BY <1>2, <1>3

\* A calculation that no longer counts is one.
LEMMA GivenUpTyped ==
  ASSUME NEW c \in Calc PROVE [c EXCEPT !.active = FALSE] \in Calc
  BY DEF Calc

\* Every step keeps the types.
LEMMA BoardNextTyped ==
  ASSUME BoardTypeOK, [BoardNext]_boardVars PROVE BoardTypeOK'
  <1> USE BoardAssumption
  <1>1. ASSUME NEW r \in Routes, ReplaceRoute(r) PROVE BoardTypeOK'
    BY <1>1 DEF BoardTypeOK, ReplaceRoute, Change, Cleared, maps
  <1>2. ASSUME NEW m \in Minutes, SyncClock(m) PROVE BoardTypeOK'
    BY <1>2 DEF BoardTypeOK, SyncClock, Change, Cleared, maps
  <1>3. ASSUME NEW new \in SUBSET Stations, StationsJoin(new) PROVE BoardTypeOK'
    BY <1>3 DEF BoardTypeOK, StationsJoin, Change, maps
  <1>4. CASE StationsLost
    BY <1>4 DEF BoardTypeOK, StationsLost, Change, maps
  <1>5. CASE BoardMounts
    BY <1>5 DEF BoardTypeOK, BoardMounts
  <1>6. CASE MapNext
    BY <1>6 DEF BoardTypeOK, MapNext, MapArrives, MapFails
  <1>7. CASE EffectRuns
    <2> DEFINE old == {[c EXCEPT !.active = FALSE] : c \in calcs}
               new == [route |-> Route, minute |-> minute, hop |-> 0, active |-> TRUE]
    <2>1. old \subseteq Calc
      <3>1. \A c \in calcs : c \in Calc
        BY DEF BoardTypeOK
      <3> QED
        BY <3>1, GivenUpTyped
    <2>2. ~(Len(Route) < 2 \/ minute = NoMinute) => new \in Calc
      BY RouteIsRoute DEF BoardTypeOK, Calc
    <2>3. calcs' \subseteq Calc
      <3>1. calcs' = IF Len(Route) < 2 \/ minute = NoMinute THEN old ELSE old \cup {new}
        BY <1>7 DEF EffectRuns
      <3> QED
        BY <2>1, <2>2, <3>1
    <2> QED
      BY <1>7, <2>3 DEF BoardTypeOK, EffectRuns
  <1>8. ASSUME NEW c \in calcs, NextHop(c) PROVE BoardTypeOK'
    <2>1. CASE c.hop = Len(c.route) - 1
      <3>1. Succeeded(c) /\ UNCHANGED cache
        BY <1>8, <2>1 DEF NextHop
      <3> QED
        BY <1>8, <3>1, OutcomeTyped DEF BoardTypeOK, NextHop, maps
    <2>2. CASE c.hop # Len(c.route) - 1
      <3> DEFINE d == [c EXCEPT !.hop = c.hop + 1]
      <3>1. d \in Calc
        BY DEF BoardTypeOK, Calc
      <3>2. calcs' = (calcs \ {c}) \cup {d}
        BY <1>8, <2>2 DEF NextHop
      <3>3. cache' = [s \in Stations |->
                       IF s \in Needs(d) /\ cache[s] = "none" THEN "pending" ELSE cache[s]]
        BY <1>8, <2>2 DEF NextHop
      <3> HIDE DEF d
      <3>4. cache' \in [Stations -> {"none", "pending", "kept"}]
        BY <3>3 DEF BoardTypeOK
      <3> QED
        BY <1>8, <2>2, <3>1, <3>2, <3>4 DEF BoardTypeOK, NextHop, maps
    <2> QED
      BY <2>1, <2>2
  <1>9. ASSUME NEW c \in calcs, NoMap(c) PROVE BoardTypeOK'
    BY <1>9, OutcomeTyped DEF BoardTypeOK, NoMap, maps
  <1>10. ASSUME NEW s \in Stations, RowsArrive(s) PROVE BoardTypeOK'
    BY <1>10 DEF BoardTypeOK, RowsArrive, maps
  <1>11. ASSUME NEW s \in Stations, RowsFail(s) PROVE BoardTypeOK'
    <2>1. /\ calcs' \subseteq calcs
          /\ schedule' = <<>> \/ UNCHANGED schedule
          /\ status' = "error" \/ UNCHANGED status
      BY <1>11 DEF RowsFail, Failed
    <2> QED
      BY <1>11, <2>1 DEF BoardTypeOK, RowsFail, maps
  <1>12. CASE UNCHANGED boardVars
    BY <1>12 DEF BoardTypeOK, boardVars
  <1> QED
    BY <1>1, <1>2, <1>3, <1>4, <1>5, <1>6, <1>7, <1>8, <1>9, <1>10, <1>11, <1>12
       DEF BoardNext, UserNext, CalcNext, RowsNext

-----------------------------------------------------------------------------
(* The variables of the map page have their types; a schedule is for a route  *)
(* of stations and a minute, whatever its calculation was (SubwaySchedule of  *)
(* transitTimetable.ts, the states of page.tsx:167).                          *)
THEOREM BoardTypesHold == BoardSpec => []BoardTypeOK
  <1>1. ASSUME BoardInit PROVE BoardTypeOK
    <2>1. ids \in Seq(Stations) /\ schedule = <<>>
      BY <1>1 DEF BoardInit
    <2>2. cache \in [Stations -> {"none", "pending", "kept"}]
      BY <1>1 DEF BoardInit
    <2> QED
      BY <1>1, <2>1, <2>2 DEF BoardInit, BoardTypeOK
  <1> QED
    BY <1>1, BoardNextTyped, PTL DEF BoardSpec

(* Whatever order calculations end in, whatever fails and whatever the user   *)
(* changes meanwhile, a schedule that is shown with nothing under way is that *)
(* of the route and the minute shown (the effect of page.tsx:504).            *)
THEOREM SettledSchedulesFit == BoardSpec => []SettledScheduleFits
  <1>1. BoardInit => BoardInv
    BY DEF BoardInit, BoardInv, CurrentFits, Replaced, ClockFirst
  <1>2. BoardInv => SettledScheduleFits
    BY DEF BoardInv, Replaced, SettledScheduleFits, Settled
  <1> QED
    BY <1>1, <1>2, BoardNextInv, PTL DEF BoardSpec
=============================================================================
