--------------------------- MODULE PlanEditorProofs --------------------------
(***************************************************************************)
(* For any stations, places and numbers of plans, items, edits, calls and  *)
(* failures: "saved automatically" is true, plans, calls and rows keep     *)
(* their types, and only an edit made during a save is lost.               *)
(***************************************************************************)
EXTENDS PlanEditor, FiniteSetTheorems, TLAPS

-----------------------------------------------------------------------------
(* The invariant. *)

WriteCall(c) == c.op \in {"save", "delete"}
Shows(id) == plan # <<>> /\ plan[1].id = id

\* A call that will show, or has been promised, a plan nobody has shown yet
Arriving(c) == c.op = "open" \/ (c.op = "create" /\ c.at = "done")

IsShaped(c) == c \in [op : {c.op}, at : {c.at}, id : {c.id}, items : {c.items}]

\* What there is of the types without the items: calls and plan are records,
\* the rows of plans a sequence.
Shape ==
    /\ \A c \in calls : IsShaped(c)
    /\ plan # <<>> => plan[1] \in [id : {plan[1].id}, items : {plan[1].items}]
    /\ \E S : server \in Seq(S)
    /\ \A id \in DOMAIN server : server[id] # <<>> => server[id] = <<server[id][1]>>

\* Ids are those of plans that exist or once did.
KnownIds ==
    /\ plan # <<>> => plan[1].id \in {PublicId} \cup DOMAIN server
    /\ \A c \in calls : WriteCall(c) => c.id \in {PublicId} \cup DOMAIN server
    /\ \A c \in calls : Arriving(c) => c.id \in DOMAIN server
    /\ \A c \in calls : c.op = "public" => c.id = PublicId
    /\ url = "open" => 1 \in DOMAIN server

\* A plan that arrives is neither shown nor written, and arrives once.
ArrivesNew ==
    /\ \A c \in calls : Arriving(c) => ~Shows(c.id)
    /\ \A c, d \in calls : Arriving(c) /\ WriteCall(d) => c.id # d.id
    /\ \A c, d \in calls : Arriving(c) /\ Arriving(d) /\ c # d => c.id # d.id
    /\ url = "open" => /\ ~Shows(1)
                       /\ \A c \in calls : Arriving(c) \/ WriteCall(c) => c.id # 1

OneWriter ==
    \A c, d \in calls :
        WriteCall(c) /\ WriteCall(d) /\ c # d /\ c.id = d.id => c.id \in crossed

\* An answer on its way is what the backend holds.
AnswersHold ==
    \A c \in calls :
        c.at = "done" /\ c.op \in {"save", "create", "open"} /\ c.id \notin crossed =>
            c.id \in DOMAIN server /\ server[c.id] = <<c.items>>

\* A plan shown as saved is not being saved, and the backend holds it or has
\* deleted it and is about to say so.
ShownHolds ==
    Own /\ ~dirty /\ plan[1].id \notin crossed =>
        /\ \A c \in calls : c.op = "save" => c.id # plan[1].id
        /\ plan[1].id \in DOMAIN server
        /\ \/ server[plan[1].id] = <<plan[1].items>>
           \/ \E c \in calls : c.op = "delete" /\ c.at = "done" /\ c.id = plan[1].id

Inv == /\ Shape /\ KnownIds /\ ArrivesNew
       /\ OneWriter /\ AnswersHold /\ ShownHolds

\* The plan that a task waits to write was shown when the task was set: it is
\* known, and no plan that arrives.
Waiting(id) == retimed # <<>> /\ retimed[1].id = id
TaskHolds ==
    /\ retimed # <<>> =>
           /\ retimed = <<retimed[1]>>
           /\ retimed[1] \in [id : {retimed[1].id}, items : {retimed[1].items}]
           /\ retimed[1].id \in {PublicId} \cup DOMAIN server
    /\ \A c \in calls : Arriving(c) => ~Waiting(c.id)
    /\ url = "open" => ~Waiting(1)

-----------------------------------------------------------------------------
(* Calls. *)

\* A call that moves on is the call it was, but for its stage and its items.
LEMMA Moved ==
  ASSUME NEW c, IsShaped(c), NEW at
  PROVE  LET d == [c EXCEPT !.at = at]
         IN  /\ IsShaped(d) /\ d.op = c.op /\ d.id = c.id
             /\ d.at = at /\ d.items = c.items
  BY DEF IsShaped

LEMMA Answering ==
  ASSUME NEW c, IsShaped(c), NEW items
  PROVE  LET d == [c EXCEPT !.at = "done", !.items = items]
         IN  /\ IsShaped(d) /\ d.op = c.op /\ d.id = c.id
             /\ d.at = "done" /\ d.items = items
  BY DEF IsShaped

LEMMA NewCallShaped ==
  ASSUME NEW op, NEW id, NEW items
  PROVE  LET c == NewCall(op, id, items)
         IN  IsShaped(c) /\ c.op = op /\ c.at = "sent" /\ c.id = id /\ c.items = items
  BY DEF IsShaped, NewCall

\* A call of the page goes on or ends, and the backend keeps what it has.
LEMMA CallStep ==
  ASSUME Inv, NEW c \in calls, NEW d, IsShaped(d), d.op = c.op, d.id = c.id,
         calls' \in {calls \ {c}, (calls \ {c}) \cup {d}},
         UNCHANGED <<plan, dirty, server>>, url' = url,
         crossed \subseteq crossed',
         Arriving(d) => Arriving(c),
         d \in calls' /\ d.at = "done" /\ d.op \in {"save", "create", "open"} =>
             d.id \in DOMAIN server /\ server[d.id] = <<d.items>>,
         c.op = "delete" /\ c.at = "done" => c.id \in crossed'
  PROVE  Inv'
  <1>1. \A e \in calls' : e \in calls \/ e = d
    OBVIOUS
  <1>2. WriteCall(d) <=> WriteCall(c)
    BY DEF WriteCall
  <1>3. Shape'
    BY <1>1 DEF Inv, Shape, IsShaped
  <1>4. KnownIds'
    BY <1>1, <1>2 DEF Inv, KnownIds, WriteCall, Arriving
  <1>5. ArrivesNew'
    <2>1. (\A e \in calls : Arriving(e) => ~Shows(e.id))'
      BY <1>1 DEF Inv, ArrivesNew, Arriving, Shows
    <2>2. (\A e, f \in calls : Arriving(e) /\ WriteCall(f) => e.id # f.id)'
      BY <1>1, <1>2 DEF Inv, ArrivesNew, Arriving, WriteCall
    <2>3. (\A e, f \in calls : Arriving(e) /\ Arriving(f) /\ e # f => e.id # f.id)'
      BY <1>1 DEF Inv, ArrivesNew, Arriving
    <2>4. (url = "open" => /\ ~Shows(1)
                           /\ \A e \in calls : Arriving(e) \/ WriteCall(e) => e.id # 1)'
      BY <1>1, <1>2 DEF Inv, ArrivesNew, Arriving, Shows, WriteCall
    <2> QED
      BY <2>1, <2>2, <2>3, <2>4 DEF ArrivesNew
  <1>6. OneWriter'
    BY <1>1, <1>2 DEF Inv, OneWriter, WriteCall
  <1>7. AnswersHold'
    BY <1>1 DEF Inv, AnswersHold
  <1>8. ShownHolds'
    <2> SUFFICES ASSUME Own, ~dirty, plan[1].id \notin crossed'
                 PROVE  /\ \A e \in calls' : e.op = "save" => e.id # plan[1].id
                        /\ plan[1].id \in DOMAIN server
                        /\ \/ server[plan[1].id] = <<plan[1].items>>
                           \/ \E e \in calls' : e.op = "delete" /\ e.at = "done"
                                                /\ e.id = plan[1].id
      BY DEF ShownHolds, Own
    <2>1. /\ \A e \in calls : e.op = "save" => e.id # plan[1].id
          /\ plan[1].id \in DOMAIN server
          /\ \/ server[plan[1].id] = <<plan[1].items>>
             \/ \E e \in calls : e.op = "delete" /\ e.at = "done" /\ e.id = plan[1].id
      BY DEF Inv, ShownHolds
    <2>2. \A e \in calls : e # c => e \in calls'
      OBVIOUS
    <2> QED
      BY <1>1, <2>1, <2>2
  <1> QED
    BY <1>3, <1>4, <1>5, <1>6, <1>7, <1>8 DEF Inv

\* The page sends a call.
LEMMA SendStep ==
  ASSUME Inv, NEW c, IsShaped(c), calls' = calls \cup {c}, c.at # "done",
         UNCHANGED <<plan, dirty, server>>, url' \in {url, "none"},
         crossed \subseteq crossed',
         c.op = "public" => c.id = PublicId,
         WriteCall(c) => /\ plan # <<>> /\ c.id = plan[1].id
                         /\ c.op = "save" => dirty
                         /\ (\E d \in calls : WriteCall(d) /\ d.id = c.id) => c.id \in crossed',
         Arriving(c) => url = "open" /\ url' = "none" /\ c.id = 1
  PROVE  Inv'
  <1>1. \A e \in calls' : e \in calls \/ e = c
    OBVIOUS
  <1>2. Shape'
    BY <1>1 DEF Inv, Shape, IsShaped
  <1>3. KnownIds'
    BY <1>1 DEF Inv, KnownIds, WriteCall, Arriving
  <1>4. ArrivesNew'
    <2>0. Arriving(c) => ~WriteCall(c)
      BY DEF Arriving, WriteCall
    <2>1. (\A e \in calls : Arriving(e) => ~Shows(e.id))'
      BY <1>1 DEF Inv, ArrivesNew, Arriving, Shows
    <2>2. (\A e, f \in calls : Arriving(e) /\ WriteCall(f) => e.id # f.id)'
      BY <1>1, <2>0 DEF Inv, ArrivesNew, Arriving, WriteCall, Shows
    <2>3. (\A e, f \in calls : Arriving(e) /\ Arriving(f) /\ e # f => e.id # f.id)'
      BY <1>1 DEF Inv, ArrivesNew, Arriving
    <2>4. (url = "open" => /\ ~Shows(1)
                           /\ \A e \in calls : Arriving(e) \/ WriteCall(e) => e.id # 1)'
      BY <1>1 DEF Inv, ArrivesNew, Arriving, Shows, WriteCall
    <2> QED
      BY <2>1, <2>2, <2>3, <2>4 DEF ArrivesNew
  <1>5. OneWriter'
    BY <1>1 DEF Inv, OneWriter, WriteCall
  <1>6. AnswersHold'
    BY <1>1 DEF Inv, AnswersHold
  <1>7. ShownHolds'
    BY <1>1 DEF Inv, ShownHolds, Own, WriteCall
  <1> QED
    BY <1>2, <1>3, <1>4, <1>5, <1>6, <1>7 DEF Inv

\* The plan shown changes: it counts as changed.
LEMMA EditStep ==
  ASSUME Inv, plan # <<>>, NEW items, plan' = <<[plan[1] EXCEPT !.items = items]>>,
         dirty' = TRUE, UNCHANGED <<server, calls, url, crossed>>
  PROVE  Inv'
  <1>1. /\ plan' # <<>> /\ plan'[1].id = plan[1].id
        /\ plan'[1] \in [id : {plan'[1].id}, items : {plan'[1].items}]
    BY DEF Inv, Shape
  <1>2. Shape'
    BY <1>1 DEF Inv, Shape, IsShaped
  <1>3. KnownIds'
    BY <1>1 DEF Inv, KnownIds, WriteCall, Arriving
  <1>4. ArrivesNew'
    BY <1>1 DEF Inv, ArrivesNew, WriteCall, Arriving, Shows
  <1>5. OneWriter' /\ AnswersHold' /\ ShownHolds'
    BY DEF Inv, OneWriter, AnswersHold, ShownHolds, WriteCall
  <1> QED
    BY <1>2, <1>3, <1>4, <1>5 DEF Inv

-----------------------------------------------------------------------------
(* The backend. *)

\* A row is replaced, or one is added, and the others stay.
LEMMA RowReplaced ==
  ASSUME Shape, NEW id \in DOMAIN server, NEW row,
         row # <<>> => row = <<row[1]>>,
         server' = [server EXCEPT ![id] = row]
  PROVE  /\ \E S : server' \in Seq(S)
         /\ DOMAIN server' = DOMAIN server
         /\ \A n \in DOMAIN server : server'[n] = IF n = id THEN row ELSE server[n]
         /\ \A n \in DOMAIN server' : server'[n] # <<>> => server'[n] = <<server'[n][1]>>
  <1>1. PICK S : server \in Seq(S)
    BY DEF Shape
  <1>2. server' \in Seq(S \cup {row})
    BY <1>1
  <1> QED
    BY <1>1, <1>2 DEF Shape

LEMMA RowAdded ==
  ASSUME Shape, NEW row, row = <<row[1]>>, server' = Append(server, row)
  PROVE  /\ \E S : server' \in Seq(S)
         /\ Len(server) + 1 \notin DOMAIN server /\ Len(server) + 1 # PublicId
         /\ DOMAIN server' = DOMAIN server \cup {Len(server) + 1}
         /\ \A n \in DOMAIN server : server'[n] = server[n]
         /\ server'[Len(server) + 1] = row
         /\ \A n \in DOMAIN server' : server'[n] # <<>> => server'[n] = <<server'[n][1]>>
  <1>1. PICK S : server \in Seq(S)
    BY DEF Shape
  <1>2. server \in Seq(S \cup {row})
    BY <1>1
  <1>3. server' \in Seq(S \cup {row})
    BY <1>2
  <1>4. /\ Len(server) \in Nat /\ DOMAIN server = 1..Len(server)
        /\ DOMAIN server' = 1..(Len(server) + 1)
        /\ \A n \in DOMAIN server : server'[n] = server[n]
        /\ server'[Len(server) + 1] = row
    BY <1>2
  <1> QED
    BY <1>3, <1>4 DEF Shape, PublicId

\* Ids of rows are not the public plan's.
LEMMA PublicIsNoRow ==
  ASSUME Shape PROVE PublicId \notin DOMAIN server
  <1>1. PICK S : server \in Seq(S)
    BY DEF Shape
  <1> QED
    BY <1>1 DEF PublicId

\* A plan is written: nobody else writes it, or it is crossed.
LEMMA WriteStep ==
  ASSUME Inv, NEW c \in calls, WriteCall(c), c.at = "sent",
         c.id \in DOMAIN server, NEW row,
         row # <<>> => row = <<row[1]>>,
         server' = [server EXCEPT ![c.id] = row],
         NEW d, IsShaped(d), d.op = c.op, d.id = c.id,
         calls' = (calls \ {c}) \cup {d},
         d.op = "save" => row = <<d.items>>,
         d.op = "delete" => d.at = "done" \/ server[c.id] = <<>>,
         UNCHANGED <<plan, dirty, url, crossed>>
  PROVE  Inv'
  <1>0. /\ \E S : server' \in Seq(S)
        /\ DOMAIN server' = DOMAIN server
        /\ \A n \in DOMAIN server : server'[n] = IF n = c.id THEN row ELSE server[n]
        /\ \A n \in DOMAIN server' : server'[n] # <<>> => server'[n] = <<server'[n][1]>>
    BY RowReplaced DEF Inv
  <1>1. \A e \in calls' : (e \in calls /\ e # c) \/ e = d
    OBVIOUS
  <1>2. WriteCall(d) /\ ~Arriving(d)
    BY DEF WriteCall, Arriving
  <1>3. \A e \in calls : e # c /\ e.id = c.id /\ c.id \notin crossed => ~WriteCall(e) /\ ~Arriving(e)
    BY DEF Inv, OneWriter, ArrivesNew
  <1>4. Shape'
    BY <1>0, <1>1 DEF Inv, Shape, IsShaped
  <1>5. KnownIds'
    BY <1>0, <1>1, <1>2 DEF Inv, KnownIds, WriteCall, Arriving
  <1>6. ArrivesNew'
    <2>1. (\A e \in calls : Arriving(e) => ~Shows(e.id))'
      BY <1>1, <1>2 DEF Inv, ArrivesNew, Arriving, Shows
    <2>2. (\A e, f \in calls : Arriving(e) /\ WriteCall(f) => e.id # f.id)'
      BY <1>1, <1>2 DEF Inv, ArrivesNew, Arriving, WriteCall
    <2>3. (\A e, f \in calls : Arriving(e) /\ Arriving(f) /\ e # f => e.id # f.id)'
      BY <1>1, <1>2 DEF Inv, ArrivesNew, Arriving
    <2>4. (url = "open" => /\ ~Shows(1)
                           /\ \A e \in calls : Arriving(e) \/ WriteCall(e) => e.id # 1)'
      BY <1>1, <1>2 DEF Inv, ArrivesNew, Arriving, Shows, WriteCall
    <2> QED
      BY <2>1, <2>2, <2>3, <2>4 DEF ArrivesNew
  <1>7. OneWriter'
    BY <1>1, <1>2 DEF Inv, OneWriter, WriteCall
  <1>8. AnswersHold'
    <2> SUFFICES ASSUME NEW e \in calls', e.at = "done", e.op \in {"save", "create", "open"},
                        e.id \notin crossed
                 PROVE  e.id \in DOMAIN server' /\ server'[e.id] = <<e.items>>
      BY DEF AnswersHold
    <2>1. CASE e = d
      BY <1>0, <2>1 DEF WriteCall
    <2>2. CASE e \in calls /\ e # c
      <3>1. WriteCall(e) \/ Arriving(e)
        BY DEF WriteCall, Arriving
      <3>2. e.id # c.id
        BY <1>3, <2>2, <3>1
      <3>3. e.id \in DOMAIN server /\ server[e.id] = <<e.items>>
        BY <2>2 DEF Inv, AnswersHold
      <3> QED
        BY <1>0, <3>2, <3>3
    <2> QED
      BY <1>1, <2>1, <2>2
  <1>9. ShownHolds'
    <2> SUFFICES ASSUME Own, ~dirty, plan[1].id \notin crossed
                 PROVE  /\ \A e \in calls' : e.op = "save" => e.id # plan[1].id
                        /\ plan[1].id \in DOMAIN server
                        /\ \/ server'[plan[1].id] = <<plan[1].items>>
                           \/ \E e \in calls' : e.op = "delete" /\ e.at = "done"
                                                /\ e.id = plan[1].id
      BY <1>0 DEF ShownHolds, Own
    <2>1. /\ \A e \in calls : e.op = "save" => e.id # plan[1].id
          /\ plan[1].id \in DOMAIN server
          /\ \/ server[plan[1].id] = <<plan[1].items>>
             \/ \E e \in calls : e.op = "delete" /\ e.at = "done" /\ e.id = plan[1].id
      BY DEF Inv, ShownHolds
    <2>2. CASE c.id # plan[1].id
      <3>1. \A e \in calls : e.id = plan[1].id => e \in calls'
        BY <2>2
      <3> QED
        BY <1>0, <1>1, <2>1, <2>2, <3>1
    <2>3. CASE c.id = plan[1].id
      <3>1. c.op = "delete" /\ d.op = "delete" /\ d \in calls'
        BY <2>1, <2>3 DEF WriteCall
      <3>2. CASE d.at = "done"
        BY <1>1, <2>1, <2>3, <3>1, <3>2
      <3>3. CASE server[c.id] = <<>>
        <4>1. PICK e \in calls : e.op = "delete" /\ e.at = "done" /\ e.id = plan[1].id
          BY <2>1, <2>3, <3>3
        <4>2. e = c \/ c.id \in crossed
          BY <1>3, <2>3, <4>1 DEF WriteCall
        <4>3. e = c
          BY <2>3, <4>2
        <4> QED
          BY <4>1, <4>3
      <3> QED
        BY <3>1, <3>2, <3>3
    <2> QED
      BY <2>2, <2>3
  <1> QED
    BY <1>4, <1>5, <1>6, <1>7, <1>8, <1>9 DEF Inv

\* A plan is added: nobody has heard of it.
LEMMA CreateStep ==
  ASSUME Inv, NEW c \in calls, c.op = "create", NEW items,
         server' = Append(server, <<items>>),
         NEW d, IsShaped(d), d.op = "create", d.at = "done", d.id = Len(server) + 1,
         d.items = items, calls' = (calls \ {c}) \cup {d},
         UNCHANGED <<plan, dirty, url, crossed>>
  PROVE  Inv'
  <1>0. /\ \E S : server' \in Seq(S)
        /\ d.id \notin DOMAIN server /\ d.id # PublicId
        /\ DOMAIN server' = DOMAIN server \cup {d.id}
        /\ \A n \in DOMAIN server : server'[n] = server[n]
        /\ server'[d.id] = <<items>>
        /\ \A n \in DOMAIN server' : server'[n] # <<>> => server'[n] = <<server'[n][1]>>
    <2>1. <<items>> = << <<items>>[1] >>
      OBVIOUS
    <2> QED
      BY <2>1, RowAdded DEF Inv
  <1>1. \A e \in calls' : e \in calls \/ e = d
    OBVIOUS
  <1>2. ~WriteCall(d) /\ Arriving(d) /\ ~WriteCall(c)
    BY DEF WriteCall, Arriving
  <1>3. /\ \A e \in calls : WriteCall(e) \/ Arriving(e) => e.id # d.id
        /\ ~Shows(d.id) /\ (url = "open" => d.id # 1)
    BY <1>0 DEF Inv, KnownIds, Shows
  <1>4. Shape'
    BY <1>0, <1>1 DEF Inv, Shape, IsShaped
  <1>5. KnownIds'
    BY <1>0, <1>1, <1>2 DEF Inv, KnownIds, WriteCall, Arriving
  <1>6. ArrivesNew'
    <2>1. (\A e \in calls : Arriving(e) => ~Shows(e.id))'
      BY <1>1, <1>3 DEF Inv, ArrivesNew, Arriving, Shows
    <2>2. (\A e, f \in calls : Arriving(e) /\ WriteCall(f) => e.id # f.id)'
      BY <1>1, <1>2, <1>3 DEF Inv, ArrivesNew, Arriving, WriteCall
    <2>3. (\A e, f \in calls : Arriving(e) /\ Arriving(f) /\ e # f => e.id # f.id)'
      BY <1>1, <1>3 DEF Inv, ArrivesNew, Arriving
    <2>4. (url = "open" => /\ ~Shows(1)
                           /\ \A e \in calls : Arriving(e) \/ WriteCall(e) => e.id # 1)'
      BY <1>1, <1>2, <1>3 DEF Inv, ArrivesNew, Arriving, Shows, WriteCall
    <2> QED
      BY <2>1, <2>2, <2>3, <2>4 DEF ArrivesNew
  <1>7. OneWriter'
    BY <1>1, <1>2 DEF Inv, OneWriter, WriteCall
  <1>8. AnswersHold'
    BY <1>0, <1>1 DEF Inv, AnswersHold
  <1>9. ShownHolds'
    <2>1. \A e \in calls : e.op = "delete" => e \in calls'
      OBVIOUS
    <2> QED
      BY <1>0, <1>1, <2>1 DEF Inv, ShownHolds, Own
  <1> QED
    BY <1>4, <1>5, <1>6, <1>7, <1>8, <1>9 DEF Inv

-----------------------------------------------------------------------------
(* The answers. *)

\* The page shows the plan of an answer: dirty stays or is cleared.
LEMMA ShowStep ==
  ASSUME Inv, NEW c \in calls, c.at = "done",
         c.op \in {"save", "create", "open", "public"},
         plan' = <<[id |-> c.id, items |-> c.items]>>,
         calls' \subseteq calls \cup {[c EXCEPT !.at = "listing"]},
         c.op # "create" => calls' = calls \ {c},
         c \notin calls',
         dirty' = FALSE \/ (dirty' = dirty /\ c.op # "save"),
         UNCHANGED <<server, url, crossed>>
  PROVE  Inv'
  <1> DEFINE d == [c EXCEPT !.at = "listing"]
  <1>0. /\ IsShaped(d) /\ d.op = c.op /\ d.id = c.id /\ d.at = "listing"
    BY Moved DEF Inv, Shape
  <1>1. \A e \in calls' : (e \in calls /\ e # c) \/ (e = d /\ c.op = "create")
    OBVIOUS
  <1> HIDE DEF d
  <1>2. /\ plan' # <<>> /\ plan'[1].id = c.id /\ plan'[1].items = c.items
        /\ plan'[1] \in [id : {plan'[1].id}, items : {plan'[1].items}]
    OBVIOUS
  <1>3. d.op = "create" => ~WriteCall(d) /\ ~Arriving(d)
    BY <1>0 DEF WriteCall, Arriving
  <1>4. c.op # "public" => WriteCall(c) \/ Arriving(c)
    BY DEF WriteCall, Arriving
  <1>5. PublicId \notin DOMAIN server
    BY PublicIsNoRow DEF Inv
  <1>6. Shape'
    BY <1>0, <1>1, <1>2 DEF Inv, Shape, IsShaped
  <1>7. KnownIds'
    BY <1>0, <1>1, <1>2, <1>3, <1>4 DEF Inv, KnownIds, WriteCall, Arriving
  <1>8. ArrivesNew'
    <2>1. (\A e \in calls : Arriving(e) => ~Shows(e.id))'
      <3> SUFFICES ASSUME NEW e \in calls', Arriving(e) PROVE e.id # c.id
        BY <1>2 DEF Shows, Arriving
      <3>1. e \in calls /\ e # c
        BY <1>0, <1>1, <1>3
      <3>2. CASE c.op = "public"
        BY <1>5, <3>1, <3>2 DEF Inv, KnownIds
      <3>3. CASE c.op # "public"
        BY <1>4, <3>1, <3>3 DEF Inv, ArrivesNew
      <3> QED
        BY <3>2, <3>3
    <2>2. (\A e, f \in calls : Arriving(e) /\ WriteCall(f) => e.id # f.id)'
      BY <1>0, <1>1, <1>3 DEF Inv, ArrivesNew, Arriving, WriteCall
    <2>3. (\A e, f \in calls : Arriving(e) /\ Arriving(f) /\ e # f => e.id # f.id)'
      BY <1>0, <1>1, <1>3 DEF Inv, ArrivesNew, Arriving
    <2>4. (url = "open" => /\ ~Shows(1)
                           /\ \A e \in calls : Arriving(e) \/ WriteCall(e) => e.id # 1)'
      <3>1. url = "open" => c.id # 1
        BY <1>4 DEF Inv, ArrivesNew, KnownIds, PublicId
      <3> QED
        BY <1>0, <1>1, <1>2, <1>3, <3>1 DEF Inv, ArrivesNew, Arriving, Shows, WriteCall
    <2> QED
      BY <2>1, <2>2, <2>3, <2>4 DEF ArrivesNew
  <1>9. OneWriter'
    BY <1>0, <1>1, <1>3 DEF Inv, OneWriter, WriteCall
  <1>10. AnswersHold'
    BY <1>0, <1>1 DEF Inv, AnswersHold
  <1>11. ShownHolds'
    <2> SUFFICES ASSUME c.id # PublicId, c.id \notin crossed
                 PROVE  /\ \A e \in calls' : e.op = "save" => e.id # c.id
                        /\ c.id \in DOMAIN server /\ server[c.id] = <<c.items>>
      BY <1>2 DEF ShownHolds, Own
    <2>0. c.op # "public"
      BY DEF Inv, KnownIds
    <2>1. c.id \in DOMAIN server /\ server[c.id] = <<c.items>>
      BY <2>0 DEF Inv, AnswersHold
    <2>2. \A e \in calls' : e.op = "save" => e.id # c.id
      <3> SUFFICES ASSUME NEW e \in calls', e.op = "save" PROVE e.id # c.id
        OBVIOUS
      <3>1. e \in calls /\ e # c /\ WriteCall(e)
        BY <1>0, <1>1 DEF WriteCall
      <3>2. CASE WriteCall(c)
        BY <3>1, <3>2 DEF Inv, OneWriter
      <3>3. CASE Arriving(c)
        BY <3>1, <3>3 DEF Inv, ArrivesNew
      <3> QED
        BY <1>4, <2>0, <3>2, <3>3
    <2> QED
      BY <2>1, <2>2
  <1> QED
    BY <1>6, <1>7, <1>8, <1>9, <1>10, <1>11 DEF Inv

\* The page shows no plan any more.
LEMMA CloseStep ==
  ASSUME Inv, NEW c \in calls, plan' = <<>>, calls' = calls \ {c},
         UNCHANGED <<server, url, crossed>>
  PROVE  Inv'
  <1>1. Shape' /\ KnownIds' /\ OneWriter' /\ AnswersHold' /\ ShownHolds'
    BY DEF Inv, Shape, KnownIds, OneWriter, AnswersHold, ShownHolds, Own,
           IsShaped, WriteCall, Arriving
  <1>2. ArrivesNew'
    BY DEF Inv, ArrivesNew, Shows, WriteCall, Arriving
  <1> QED
    BY <1>1, <1>2 DEF Inv

\* The task shows the plan it was set for, with times: it counts as changed.
LEMMA TaskStep ==
  ASSUME Inv, TaskHolds, WriteTimes
  PROVE  Inv'
  <1>0. /\ retimed # <<>> /\ plan' = retimed /\ dirty' = TRUE
        /\ UNCHANGED <<server, calls, url, crossed>>
    BY DEF WriteTimes, history
  <1>1. /\ plan' # <<>> /\ plan'[1] = retimed[1]
        /\ plan'[1] \in [id : {plan'[1].id}, items : {plan'[1].items}]
    BY <1>0 DEF TaskHolds
  <1>2. Shape'
    BY <1>0, <1>1 DEF Inv, Shape, IsShaped
  <1>3. KnownIds'
    BY <1>0, <1>1 DEF Inv, TaskHolds, KnownIds, WriteCall, Arriving
  <1>4. ArrivesNew'
    BY <1>0, <1>1 DEF Inv, TaskHolds, ArrivesNew, WriteCall, Arriving, Shows, Waiting
  <1>5. OneWriter' /\ AnswersHold' /\ ShownHolds'
    BY <1>0 DEF Inv, OneWriter, AnswersHold, ShownHolds, WriteCall
  <1> QED
    BY <1>2, <1>3, <1>4, <1>5 DEF Inv

-----------------------------------------------------------------------------
(* Every step keeps the invariant. *)

LEMMA InitInv == Init => Inv
  <1> SUFFICES ASSUME Init PROVE Inv
    OBVIOUS
  <1>1. plan = <<>> /\ calls = {}
    BY DEF Init
  <1>2. PICK item : server = IF url = "open" THEN <<<<<<item>>>>>> ELSE <<>>
    BY DEF Init
  <1>3. \E S : server \in Seq(S)
    <2>1. CASE url = "open"
      <3>1. PICK row : server = <<row>>
        BY <1>2, <2>1
      <3>2. server \in Seq({row})
        BY <3>1
      <3> QED
        BY <3>2
    <2>2. CASE url # "open"
      <3>1. server \in Seq({})
        BY <1>2, <2>2
      <3> QED
        BY <3>1
    <2> QED
      BY <2>1, <2>2
  <1>4. url = "open" => 1 \in DOMAIN server
    BY <1>2
  <1>5. \A id \in DOMAIN server : server[id] # <<>> => server[id] = <<server[id][1]>>
    BY <1>2
  <1> QED
    BY <1>1, <1>3, <1>4, <1>5 DEF Inv, Shape, KnownIds, ArrivesNew, OneWriter,
       AnswersHold, ShownHolds, Shows, Own

LEMMA UserKeepsInv == Inv /\ UserNext => Inv'
  <1> SUFFICES ASSUME Inv, UserNext PROVE Inv'
    OBVIOUS
  <1>0. ASSUME plan # <<>>, NEW items, Edit(items) PROVE Inv'
    BY <1>0, EditStep DEF Edit
  <1>1. ASSUME NEW s \in Stations, AddStation(s) PROVE Inv'
    BY <1>0, <1>1 DEF AddStation
  <1>2. ASSUME NEW p \in Places, NEW s \in Stations, AddPlace(p, s) PROVE Inv'
    <2>1. plan # <<>> /\ \E items : Edit(items)
      BY <1>2 DEF AddPlace
    <2> QED
      BY <1>0, <2>1
  <1>3. ASSUME NEW i \in 1..MaxItems, RemoveItem(i) PROVE Inv'
    BY <1>0, <1>3 DEF RemoveItem
  <1>4. ASSUME NEW i \in 1..MaxItems, ReorderItem(i) PROVE Inv'
    BY <1>0, <1>4 DEF ReorderItem
  <1>5. ASSUME NEW i \in 1..MaxItems, SetPlaceTime(i) PROVE Inv'
    BY <1>0, <1>5 DEF SetPlaceTime
  <1>6. ASSUME NEW i \in 1..MaxItems, ApplyDeparture(i) PROVE Inv'
    BY <1>0, <1>6 DEF ApplyDeparture
  <1>7. CASE Retitle
    BY <1>0, <1>7 DEF Retitle
  <1>8. ASSUME NEW s \in Stations, NEW withPlace \in BOOLEAN, CreatePlan(s, withPlace)
        PROVE  Inv'
    <2>1. PICK items : Send(NewCall("create", 0, items))
      BY <1>8 DEF CreatePlan
    <2>2. LET c == NewCall("create", 0, items)
          IN  IsShaped(c) /\ c.op = "create" /\ c.at = "sent"
      BY NewCallShaped
    <2>3. UNCHANGED <<plan, dirty, server, url, crossed>>
      BY <1>8 DEF CreatePlan, shown, history
    <2> QED
      BY <2>1, <2>2, <2>3, SendStep DEF Send, WriteCall, Arriving
  <1>9. CASE DeletePlan
    <2> DEFINE c == NewCall("delete", plan[1].id, <<>>)
    <2>1. IsShaped(c) /\ c.op = "delete" /\ c.at = "sent" /\ c.id = plan[1].id
      BY NewCallShaped
    <2> HIDE DEF c
    <2>2. /\ calls' = calls \cup {c} /\ plan # <<>>
          /\ UNCHANGED <<plan, dirty, server, url>>
          /\ crossed' = crossed \cup (IF Writing(plan[1].id) THEN {plan[1].id} ELSE {})
      BY <1>9 DEF DeletePlan, Send, Own, shown, c
    <2>3. (\E d \in calls : WriteCall(d) /\ d.id = c.id) => c.id \in crossed'
      BY <2>1, <2>2 DEF Writing, WriteCall
    <2> QED
      BY <2>1, <2>2, <2>3, SendStep DEF Arriving
  <1>10. CASE OpenPlanner
    BY <1>10 DEF OpenPlanner, history, Inv, Shape, KnownIds, ArrivesNew, OneWriter,
       AnswersHold, ShownHolds, Shows, Own, IsShaped, WriteCall, Arriving
  <1> QED
    BY <1>1, <1>2, <1>3, <1>4, <1>5, <1>6, <1>7, <1>8, <1>9, <1>10 DEF UserNext

LEMMA EffectsKeepInv ==
  Inv /\ (OpenAddress \/ OpenPublicPlan \/ ScheduleChanges \/ ApplySchedule \/ Autosave)
      => Inv'
  <1> SUFFICES ASSUME Inv PROVE OpenAddress \/ OpenPublicPlan \/ ScheduleChanges
                                \/ ApplySchedule \/ Autosave => Inv'
    OBVIOUS
  <1>1. CASE OpenAddress
    <2>1. PICK items : Send([NewCall(url, IF url = "open" THEN 1 ELSE 0, items)
                               EXCEPT !.at = "opening"])
      BY <1>1 DEF OpenAddress
    <2> DEFINE c == [NewCall(url, IF url = "open" THEN 1 ELSE 0, items)
                        EXCEPT !.at = "opening"]
    <2>2. /\ IsShaped(c) /\ c.op = url /\ c.at = "opening"
          /\ c.id = IF url = "open" THEN 1 ELSE 0
      BY NewCallShaped, Moved
    <2> HIDE DEF c
    <2>3. /\ url \in {"open", "create"} /\ url' = "none" /\ crossed' = crossed
          /\ UNCHANGED <<plan, dirty, server>> /\ calls' = calls \cup {c}
      BY <1>1, <2>1 DEF OpenAddress, Send, history, c
    <2> QED
      BY <2>2, <2>3, SendStep DEF WriteCall, Arriving
  <1>2. CASE OpenPublicPlan
    <2> DEFINE c == NewCall("public", PublicId, <<>>)
    <2>1. IsShaped(c) /\ c.op = "public" /\ c.at = "sent" /\ c.id = PublicId
      BY NewCallShaped
    <2> HIDE DEF c
    <2>2. /\ url' = "none" /\ crossed' = crossed
          /\ UNCHANGED <<plan, dirty, server>> /\ calls' = calls \cup {c}
      BY <1>2 DEF OpenPublicPlan, Send, shown, history, c
    <2> QED
      BY <2>1, <2>2, SendStep DEF WriteCall, Arriving
  <1>3. CASE ScheduleChanges \/ ApplySchedule
    <2>1. UNCHANGED <<plan, dirty, server, calls, url, crossed>>
      BY <1>3 DEF ScheduleChanges, ApplySchedule, shown, history
    <2> QED
      BY <2>1 DEF Inv, Shape, KnownIds, ArrivesNew, OneWriter, AnswersHold, ShownHolds,
         Shows, Own, IsShaped, WriteCall, Arriving
  <1>4. CASE Autosave
    <2> DEFINE c == NewCall("save", plan[1].id, plan[1].items)
    <2>1. IsShaped(c) /\ c.op = "save" /\ c.at = "sent" /\ c.id = plan[1].id
      BY NewCallShaped
    <2> HIDE DEF c
    <2>2. /\ calls' = calls \cup {c} /\ plan # <<>> /\ dirty
          /\ UNCHANGED <<plan, dirty, server, url>>
          /\ crossed' = crossed \cup (IF Writing(plan[1].id) THEN {plan[1].id} ELSE {})
      BY <1>4 DEF Autosave, Send, shown, c
    <2>3. (\E d \in calls : WriteCall(d) /\ d.id = c.id) => c.id \in crossed'
      BY <2>1, <2>2 DEF Writing, WriteCall
    <2> QED
      BY <2>1, <2>2, <2>3, SendStep DEF Arriving
  <1> QED
    BY <1>1, <1>2, <1>3, <1>4

LEMMA ServeKeepsInv ==
  ASSUME Inv, NEW c \in calls, Serve(c)
  PROVE  Inv'
  <1>0. IsShaped(c)
    BY DEF Inv, Shape
  <1>f. ASSUME Becomes(c, "failed"), UNCHANGED <<plan, dirty, server, url, crossed>>,
               c.at = "sent"
        PROVE  Inv'
    <2> DEFINE d == [c EXCEPT !.at = "failed"]
    <2>1. IsShaped(d) /\ d.op = c.op /\ d.id = c.id /\ d.at = "failed"
      BY <1>0, Moved
    <2>2. calls' = (calls \ {c}) \cup {d}
      BY <1>f DEF Becomes
    <2> HIDE DEF d
    <2> QED
      BY <1>f, <2>1, <2>2, CallStep DEF Arriving
  <1>1. CASE ServeSave(c)
    <2>0. /\ c.op = "save" /\ c.at = "sent"
          /\ UNCHANGED <<plan, dirty, url, crossed>>
      BY <1>1 DEF ServeSave, shown, history
    <2>1. CASE Exists(c.id) /\ Acceptable(c.items, RowsOf(server[c.id][1]))
      <3>1. /\ server' = [server EXCEPT ![c.id] = <<Stored(c.items)>>]
            /\ calls' = (calls \ {c}) \cup {[c EXCEPT !.at = "done", !.items = Stored(c.items)]}
            /\ c.id \in DOMAIN server
        BY <1>1, <2>1 DEF ServeSave, Exists
      <3>2. PICK items : items = Stored(c.items)
        OBVIOUS
      <3>3. LET d == [c EXCEPT !.at = "done", !.items = items]
            IN  /\ IsShaped(d) /\ d.op = c.op /\ d.id = c.id
                /\ d.at = "done" /\ d.items = items
        BY <1>0, Answering
      <3>4. <<items>> = << <<items>>[1] >>
        OBVIOUS
      <3> QED
        BY <2>0, <3>1, <3>2, <3>3, <3>4, WriteStep DEF WriteCall
    <2>2. CASE ~(Exists(c.id) /\ Acceptable(c.items, RowsOf(server[c.id][1])))
      BY <1>1, <1>f, <2>0, <2>2 DEF ServeSave
    <2> QED
      BY <2>1, <2>2
  <1>2. CASE ServeCreate(c)
    <2>0. /\ c.op = "create" /\ c.at = "sent"
          /\ UNCHANGED <<plan, dirty, url, crossed>>
      BY <1>2 DEF ServeCreate, shown, history
    <2>1. CASE Acceptable(c.items, {})
      <3>1. /\ server' = Append(server, <<Stored(c.items)>>)
            /\ calls' = (calls \ {c}) \cup {[c EXCEPT !.at = "done", !.id = Len(server) + 1,
                                                      !.items = Stored(c.items)]}
        BY <1>2, <2>1 DEF ServeCreate
      <3>2. PICK items, id : items = Stored(c.items) /\ id = Len(server) + 1
        OBVIOUS
      <3> DEFINE d == [c EXCEPT !.at = "done", !.id = id, !.items = items]
      <3>3. /\ IsShaped(d) /\ d.op = c.op /\ d.id = id
            /\ d.at = "done" /\ d.items = items
        BY <1>0 DEF IsShaped
      <3>4. calls' = (calls \ {c}) \cup {d} /\ server' = Append(server, <<items>>)
        BY <3>1, <3>2
      <3> HIDE DEF d
      <3> QED
        BY <2>0, <3>2, <3>3, <3>4, CreateStep
    <2>2. CASE ~Acceptable(c.items, {})
      BY <1>2, <1>f, <2>0, <2>2 DEF ServeCreate
    <2> QED
      BY <2>1, <2>2
  <1>3. CASE ServeDelete(c)
    <2>0. /\ c.op = "delete" /\ c.at = "sent"
          /\ UNCHANGED <<plan, dirty, url, crossed>>
          /\ Becomes(c, IF Exists(c.id) THEN "done" ELSE "failed")
          /\ server' = [server EXCEPT ![c.id] = <<>>]
      BY <1>3 DEF ServeDelete, shown, history
    <2>1. CASE c.id \in DOMAIN server
      <3> DEFINE d == [c EXCEPT !.at = IF Exists(c.id) THEN "done" ELSE "failed"]
      <3>1. /\ IsShaped(d) /\ d.op = c.op /\ d.id = c.id
            /\ d.at = IF Exists(c.id) THEN "done" ELSE "failed"
        BY <1>0, Moved
      <3>2. calls' = (calls \ {c}) \cup {d}
        BY <2>0 DEF Becomes
      <3> HIDE DEF d
      <3>3. d.at = "done" \/ server[c.id] = <<>>
        BY <2>1, <3>1 DEF Exists
      <3> QED
        BY <2>0, <2>1, <3>1, <3>2, <3>3, WriteStep DEF WriteCall
    <2>2. CASE c.id \notin DOMAIN server
      <3>1. server' = server /\ Becomes(c, "failed")
        BY <2>0, <2>2 DEF Exists, Inv, Shape
      <3> QED
        BY <1>f, <2>0, <3>1
    <2> QED
      BY <2>1, <2>2
  <1>4. CASE ServeOpen(c)
    <2>0. /\ c.op \in {"open", "public"} /\ c.at = "sent"
          /\ UNCHANGED <<plan, dirty, server, url, crossed>>
      BY <1>4 DEF ServeOpen, shown, history
    <2>1. CASE c.op = "public"
      <3>1. PICK items : calls' = (calls \ {c}) \cup {[c EXCEPT !.at = "done", !.items = items]}
        BY <1>4, <2>1 DEF ServeOpen
      <3>2. LET d == [c EXCEPT !.at = "done", !.items = items]
            IN  IsShaped(d) /\ d.op = c.op /\ d.id = c.id /\ d.at = "done"
        BY <1>0, Answering
      <3> QED
        BY <2>0, <2>1, <3>1, <3>2, CallStep DEF Arriving
    <2>2. CASE c.op = "open" /\ ~Exists(c.id)
      BY <1>4, <1>f, <2>0, <2>2 DEF ServeOpen
    <2>3. CASE c.op = "open" /\ Exists(c.id)
      <3>1. calls' = (calls \ {c}) \cup {[c EXCEPT !.at = "done", !.items = server[c.id][1]]}
        BY <1>4, <2>3 DEF ServeOpen
      <3>2. c.id \in DOMAIN server /\ server[c.id] = <<server[c.id][1]>>
        BY <2>3 DEF Exists, Inv, Shape
      <3>3. LET d == [c EXCEPT !.at = "done", !.items = server[c.id][1]]
            IN  /\ IsShaped(d) /\ d.op = c.op /\ d.id = c.id
                /\ d.at = "done" /\ d.items = server[c.id][1]
        BY <1>0, Answering
      <3> QED
        BY <2>0, <2>3, <3>1, <3>2, <3>3, CallStep DEF Arriving
    <2> QED
      BY <2>0, <2>1, <2>2, <2>3
  <1> QED
    BY <1>1, <1>2, <1>3, <1>4 DEF Serve

LEMMA AnswerKeepsInv ==
  ASSUME Inv, NEW c \in calls, Answered(c) \/ CallFails(c) \/ CallThrows(c)
  PROVE  Inv'
  <1>0. IsShaped(c)
    BY DEF Inv, Shape
  <1>1. CASE PlannerOpened(c)
    <2> DEFINE d == [c EXCEPT !.at = "sent"]
    <2>1. IsShaped(d) /\ d.op = c.op /\ d.id = c.id /\ d.at = "sent"
      BY <1>0, Moved
    <2>2. /\ calls' = (calls \ {c}) \cup {d} /\ c.at = "opening"
          /\ UNCHANGED <<plan, dirty, server, url, crossed>>
      BY <1>1 DEF PlannerOpened, Becomes, shown, history
    <2> HIDE DEF d
    <2> QED
      BY <2>1, <2>2, CallStep DEF Arriving
  <1>2. CASE SaveAnswered(c)
    BY <1>2, ShowStep DEF SaveAnswered, history
  <1>3. CASE CreateAnswered(c)
    <2>1. LET d == [c EXCEPT !.at = "listing"] IN d # c
      BY <1>0, <1>3, Moved DEF CreateAnswered
    <2> QED
      BY <1>3, <2>1, ShowStep DEF CreateAnswered, Becomes
  <1>4. CASE CreateListed(c)
    BY <1>0, <1>4, CallStep DEF CreateListed, shown, history
  <1>5. CASE DeleteAnswered(c)
    BY <1>5, CloseStep DEF DeleteAnswered, history
  <1>6. CASE OpenAnswered(c)
    BY <1>6, ShowStep DEF OpenAnswered
  <1>7. CASE FailureAnswered(c)
    BY <1>0, <1>7, CallStep DEF FailureAnswered, shown, history
  <1>8. CASE CallFails(c)
    <2> DEFINE d == [c EXCEPT !.at = "failed"]
    <2>1. IsShaped(d) /\ d.op = c.op /\ d.id = c.id /\ d.at = "failed"
      BY <1>0, Moved
    <2>2. /\ calls' = (calls \ {c}) \cup {d}
          /\ UNCHANGED <<plan, dirty, server, url>>
          /\ crossed' = NotTold(c)
      BY <1>8 DEF CallFails, Becomes, shown
    <2> HIDE DEF d
    <2> QED
      BY <2>1, <2>2, CallStep DEF Arriving, NotTold
  <1>9. CASE CallThrows(c)
    <2>1. /\ calls' = calls \ {c} /\ crossed' = NotTold(c)
          /\ UNCHANGED <<plan, dirty, server, url>>
      BY <1>9 DEF CallThrows, shown
    <2> QED
      BY <1>0, <2>1, CallStep DEF NotTold
  <1> QED
    BY <1>1, <1>2, <1>3, <1>4, <1>5, <1>6, <1>7, <1>8, <1>9 DEF Answered

LEMMA NextKeepsInv == Inv /\ TaskHolds /\ [Next]_vars => Inv'
  <1> SUFFICES ASSUME Inv, TaskHolds, [Next]_vars PROVE Inv'
    OBVIOUS
  <1>1. CASE UNCHANGED vars
    BY <1>1 DEF vars, Inv, Shape, KnownIds, ArrivesNew, OneWriter,
       AnswersHold, ShownHolds, Shows, Own, IsShaped, WriteCall, Arriving
  <1> QED
    BY <1>1, UserKeepsInv, EffectsKeepInv, TaskStep, ServeKeepsInv, AnswerKeepsInv DEF Next

\* A step that neither sets the task nor shows a plan of its id keeps it.
LEMMA TaskKept ==
  ASSUME TaskHolds, retimed' \in {retimed, <<>>}, url' \in {url, "none"},
         retimed' # <<>> => DOMAIN server \subseteq DOMAIN server',
         \A e \in calls' : retimed' # <<>> /\ Arriving(e) =>
             \/ \E c \in calls : Arriving(c) /\ c.id = e.id
             \/ e.id \notin {PublicId} \cup DOMAIN server
             \/ url = "open" /\ e.id = 1
  PROVE  TaskHolds'
  <1>1. CASE retimed' = <<>>
    BY <1>1 DEF TaskHolds, Waiting
  <1>2. CASE retimed' = retimed /\ retimed # <<>>
    <2>1. \A e \in calls' : Arriving(e) => retimed[1].id # e.id
      BY <1>2 DEF TaskHolds, Waiting
    <2>2. (\A e \in calls : Arriving(e) => ~Waiting(e.id))'
      BY <1>2, <2>1 DEF Waiting, Arriving
    <2>3. (url = "open" => ~Waiting(1))'
      BY <1>2 DEF TaskHolds, Waiting
    <2> QED
      BY <1>2, <2>2, <2>3 DEF TaskHolds
  <1> QED
    BY <1>1, <1>2

\* The effect sets the task for the plan shown.
LEMMA TaskSet ==
  ASSUME Inv, TaskHolds, ApplySchedule
  PROVE  TaskHolds'
  <1>0. UNCHANGED <<server, calls, url>>
    BY DEF ApplySchedule
  <1>1. CASE retimed' = <<>>
    BY <1>0, <1>1, TaskKept
  <1>2. CASE retimed' # <<>>
    <2>1. PICK items : /\ plan # <<>>
                       /\ retimed' = <<[plan[1] EXCEPT !.items = items]>>
      BY <1>2 DEF ApplySchedule
    <2>2. /\ retimed' = <<retimed'[1]>> /\ retimed'[1].id = plan[1].id
          /\ retimed'[1] \in [id : {retimed'[1].id}, items : {retimed'[1].items}]
      BY <2>1 DEF Inv, Shape
    <2>3. plan[1].id \in {PublicId} \cup DOMAIN server
      BY <2>1 DEF Inv, KnownIds
    <2>4. (\A e \in calls : Arriving(e) => ~Waiting(e.id))'
      BY <1>0, <2>1, <2>2 DEF Inv, ArrivesNew, Arriving, Waiting, Shows
    <2>5. (url = "open" => ~Waiting(1))'
      BY <1>0, <2>1, <2>2 DEF Inv, ArrivesNew, Waiting, Shows
    <2> QED
      BY <1>0, <2>2, <2>3, <2>4, <2>5 DEF TaskHolds
  <1> QED
    BY <1>1, <1>2

\* The user and the page send calls; an edit clears the task.
LEMMA SendKeepsTask ==
  ASSUME TaskHolds, UserNext \/ OpenAddress \/ OpenPublicPlan \/ ScheduleChanges \/ Autosave
  PROVE  TaskHolds'
  <1>1. CASE retimed' = <<>>
    BY <1>1 DEF TaskHolds, Waiting
  <1>2. ASSUME NEW c, ~Arriving(c) \/ (url = "open" /\ c.id = 1), calls' = calls \cup {c},
               UNCHANGED <<retimed, server>>, url' \in {url, "none"}
        PROVE  TaskHolds'
    BY <1>2, TaskKept
  <1>3. ASSUME NEW op \in {"save", "create", "delete", "public"}, NEW id, NEW items,
               Send(NewCall(op, id, items)),
               UNCHANGED <<retimed, server>>, url' \in {url, "none"}
        PROVE  TaskHolds'
    <2>1. PICK c : c = NewCall(op, id, items)
      OBVIOUS
    <2>2. ~Arriving(c)
      BY <2>1, NewCallShaped DEF Arriving
    <2> QED
      BY <1>2, <1>3, <2>1, <2>2 DEF Send
  <1>4. CASE \/ \E s \in Stations : AddStation(s)
             \/ \E p \in Places, s \in Stations : AddPlace(p, s)
             \/ \E i \in 1..MaxItems : RemoveItem(i) \/ ReorderItem(i)
                                       \/ SetPlaceTime(i) \/ ApplyDeparture(i)
             \/ Retitle
    <2>1. \E items : Edit(items)
      BY <1>4 DEF AddStation, AddPlace, RemoveItem, ReorderItem, SetPlaceTime, ApplyDeparture,
         Retitle
    <2> QED
      BY <1>1, <2>1 DEF Edit
  <1>5. ASSUME NEW s \in Stations, NEW withPlace \in BOOLEAN, CreatePlan(s, withPlace)
        PROVE  TaskHolds'
    <2>1. UNCHANGED <<retimed, server, url>> /\ \E items : Send(NewCall("create", 0, items))
      BY <1>5 DEF CreatePlan
    <2> QED
      BY <1>3, <2>1
  <1>6. CASE DeletePlan
    BY <1>3, <1>6 DEF DeletePlan
  <1>7. CASE Autosave
    BY <1>3, <1>7 DEF Autosave
  <1>8. CASE OpenPublicPlan
    BY <1>3, <1>8 DEF OpenPublicPlan
  <1>9. CASE OpenPlanner \/ ScheduleChanges
    <2>1. UNCHANGED <<retimed, server, calls, url>>
      BY <1>9 DEF OpenPlanner, ScheduleChanges
    <2> QED
      BY <2>1, TaskKept
  <1>10. CASE OpenAddress
    <2>1. PICK items : Send([NewCall(url, IF url = "open" THEN 1 ELSE 0, items)
                               EXCEPT !.at = "opening"])
      BY <1>10 DEF OpenAddress
    <2>2. PICK c : c = [NewCall(url, IF url = "open" THEN 1 ELSE 0, items)
                          EXCEPT !.at = "opening"]
      OBVIOUS
    <2>3. c.op = url /\ c.at = "opening" /\ c.id = IF url = "open" THEN 1 ELSE 0
      BY <2>2, NewCallShaped, Moved
    <2>4. /\ url \in {"open", "create"} /\ url' = "none" /\ calls' = calls \cup {c}
          /\ UNCHANGED <<retimed, server>>
      BY <1>10, <2>1, <2>2 DEF OpenAddress, Send
    <2> QED
      BY <1>2, <2>3, <2>4 DEF Arriving
  <1> QED
    BY <1>4, <1>5, <1>6, <1>7, <1>8, <1>9, <1>10 DEF UserNext

\* A call that goes on arrives with the plan it arrived with before, or a new one.
LEMMA CallKeepsTask ==
  ASSUME Inv, TaskHolds, NEW c \in calls,
         Serve(c) \/ Answered(c) \/ CallFails(c) \/ CallThrows(c)
  PROVE  TaskHolds'
  <1>0. IsShaped(c) /\ url' = url /\ retimed' = retimed
    <2>1. IsShaped(c)
      BY DEF Inv, Shape
    <2>2. url' = url /\ retimed' = retimed
      BY DEF Serve, ServeSave, ServeCreate, ServeDelete, ServeOpen, Answered, PlannerOpened,
         SaveAnswered, CreateAnswered, CreateListed, DeleteAnswered, OpenAnswered,
         FailureAnswered, CallFails, CallThrows
    <2> QED
      BY <2>1, <2>2
  <1>1. ASSUME NEW d, calls' \in {calls \ {c}, (calls \ {c}) \cup {d}},
               DOMAIN server \subseteq DOMAIN server',
               Arriving(d) => \/ Arriving(c) /\ c.id = d.id
                              \/ d.id \notin {PublicId} \cup DOMAIN server
        PROVE  TaskHolds'
    BY <1>0, <1>1, TaskKept
  <1>2. ASSUME NEW at, Becomes(c, at), at # "done" \/ c.op # "create",
               DOMAIN server \subseteq DOMAIN server'
        PROVE  TaskHolds'
    <2>1. PICK d : d = [c EXCEPT !.at = at]
      OBVIOUS
    <2>2. d.op = c.op /\ d.id = c.id /\ d.at = at
      BY <1>0, <2>1, Moved
    <2>3. calls' = (calls \ {c}) \cup {d}
      BY <1>2, <2>1 DEF Becomes
    <2> QED
      BY <1>1, <1>2, <2>2, <2>3 DEF Arriving
  <1>3. ASSUME c.op # "create", NEW items,
               calls' = (calls \ {c}) \cup {[c EXCEPT !.at = "done", !.items = items]},
               DOMAIN server \subseteq DOMAIN server'
        PROVE  TaskHolds'
    <2>1. PICK d : d = [c EXCEPT !.at = "done", !.items = items]
      OBVIOUS
    <2>2. d.op = c.op /\ d.id = c.id
      BY <1>0, <2>1, Answering
    <2>3. Arriving(d) => Arriving(c) /\ c.id = d.id
      BY <1>3, <2>2 DEF Arriving
    <2>4. calls' = (calls \ {c}) \cup {d}
      BY <1>3, <2>1
    <2> QED
      BY <1>1, <1>3, <2>3, <2>4
  <1>4. ASSUME NEW id, NEW row, server' = [server EXCEPT ![id] = row]
        PROVE  DOMAIN server \subseteq DOMAIN server'
    BY <1>4
  <1>5. CASE ServeSave(c)
    <2>1. c.op = "save"
      BY <1>5 DEF ServeSave
    <2>2. CASE Exists(c.id) /\ Acceptable(c.items, RowsOf(server[c.id][1]))
      <3>1. /\ server' = [server EXCEPT ![c.id] = <<Stored(c.items)>>]
            /\ calls' = (calls \ {c}) \cup {[c EXCEPT !.at = "done", !.items = Stored(c.items)]}
        BY <1>5, <2>2 DEF ServeSave
      <3> QED
        BY <1>3, <1>4, <2>1, <3>1
    <2>3. CASE ~(Exists(c.id) /\ Acceptable(c.items, RowsOf(server[c.id][1])))
      BY <1>2, <1>5, <2>1, <2>3 DEF ServeSave
    <2> QED
      BY <2>2, <2>3
  <1>6. CASE ServeCreate(c)
    <2>1. CASE Acceptable(c.items, {})
      <3>1. PICK items, id :
               /\ server' = Append(server, <<items>>) /\ id = Len(server) + 1
               /\ calls' = (calls \ {c}) \cup {[c EXCEPT !.at = "done", !.id = id,
                                                         !.items = items]}
        BY <1>6, <2>1 DEF ServeCreate
      <3>2. PICK d : d = [c EXCEPT !.at = "done", !.id = id, !.items = items]
        OBVIOUS
      <3>3. d.id = id
        BY <1>0, <3>2 DEF IsShaped
      <3>4. PICK row : row = <<items>>
        OBVIOUS
      <3>5. row = <<row[1]>>
        BY <3>4
      <3>6. id \notin DOMAIN server /\ id # PublicId /\ DOMAIN server \subseteq DOMAIN server'
        BY <3>1, <3>4, <3>5, RowAdded DEF Inv
      <3>7. calls' = (calls \ {c}) \cup {d}
        BY <3>1, <3>2
      <3> QED
        BY <1>1, <3>3, <3>6, <3>7
    <2>2. CASE ~Acceptable(c.items, {})
      BY <1>2, <1>6, <2>2 DEF ServeCreate
    <2> QED
      BY <2>1, <2>2
  <1>7. CASE ServeDelete(c)
    <2>1. /\ c.op = "delete" /\ server' = [server EXCEPT ![c.id] = <<>>]
          /\ \E at : Becomes(c, at)
      BY <1>7 DEF ServeDelete
    <2> QED
      BY <1>2, <1>4, <2>1
  <1>8. CASE ServeOpen(c)
    <2>1. /\ c.op # "create" /\ server' = server
          /\ \/ Becomes(c, "failed")
             \/ \E items : calls' = (calls \ {c}) \cup
                              {[c EXCEPT !.at = "done", !.items = items]}
      BY <1>8 DEF ServeOpen
    <2> QED
      BY <1>2, <1>3, <2>1
  <1>9. CASE Answered(c) \/ CallFails(c) \/ CallThrows(c)
    <2>1. /\ server' = server
          /\ calls' = calls \ {c} \/ \E at \in {"sent", "listing", "failed"} : Becomes(c, at)
      BY <1>9 DEF Answered, PlannerOpened, SaveAnswered, CreateAnswered, CreateListed,
         DeleteAnswered, OpenAnswered, FailureAnswered, CallFails, CallThrows
    <2>2. CASE calls' = calls \ {c}
      BY <1>1, <2>1, <2>2
    <2>3. CASE \E at \in {"sent", "listing", "failed"} : Becomes(c, at)
      BY <1>2, <2>1, <2>3
    <2> QED
      BY <2>1, <2>2, <2>3
  <1> QED
    BY <1>5, <1>6, <1>7, <1>8, <1>9 DEF Serve

LEMMA NextKeepsTask == Inv /\ TaskHolds /\ [Next]_vars => TaskHolds'
  <1> SUFFICES ASSUME Inv, TaskHolds, [Next]_vars PROVE TaskHolds'
    OBVIOUS
  <1>1. CASE UNCHANGED vars
    BY <1>1, TaskKept DEF vars
  <1>2. CASE WriteTimes
    BY <1>2 DEF WriteTimes, TaskHolds, Waiting
  <1> QED
    BY <1>1, <1>2, SendKeepsTask, TaskSet, CallKeepsTask DEF Next

LEMMA InitTask == Init => TaskHolds
  BY DEF Init, TaskHolds, Waiting

LEMMA NextInv == Inv /\ TaskHolds /\ [Next]_vars => Inv' /\ TaskHolds'
  BY NextKeepsInv, NextKeepsTask

(* A plan that the page shows as saved, with no call in flight, is what the   *)
(* backend holds, whatever was edited, opened, refused or lost before         *)
(* (page.tsx:531-560, 693), unless two calls wrote it at once.                *)
THEOREM SavedMeansSaved == Spec => []CleanMeansSaved
  <1>1. Inv => CleanMeansSaved
    BY DEF Inv, ShownHolds, CleanMeansSaved, Exists, Own
  <1> QED
    BY <1>1, InitInv, InitTask, NextInv, PTL DEF Spec

-----------------------------------------------------------------------------
(* The types, and what the items of a plan are while they pass through calls. *)

\* A station of a plan is one that there is.
GoodItem == {x \in Item : x.kind = "STATION" => x.what \in Stations}
Items == {s \in Seq(GoodItem) : Len(s) <= MaxItems}
PlanView == [id : 0..MaxPlans, items : Items]
Calls == [op : {"save", "create", "delete", "open", "public"},
          at : {"opening", "sent", "done", "failed", "listing"},
          id : 0..MaxPlans, items : Items]

PageTyped ==
    /\ plan = <<>> \/ \E view \in PlanView : plan = <<view>>
    /\ dirty \in BOOLEAN /\ pending \in BOOLEAN /\ readOnly \in BOOLEAN
    /\ schedule \in Minutes \cup {NoSchedule}
    /\ url \in {"none", "open", "create", "public"}
    /\ edits \in 0..MaxEdits
PlanRows == {<<>>} \cup {<<items>> : items \in Items}
ServerTyped ==
    /\ server \in Seq(PlanRows)
    /\ rows \in 0..MaxRows
CallsTyped ==
    /\ calls \subseteq Calls /\ IsFiniteSet(calls) /\ Cardinality(calls) <= MaxCalls

\* Every creation under way has a plan's room.
Creating == {c \in calls : c.op = "create" /\ c.at \in {"opening", "sent"}}
RoomKept == Len(server) + Cardinality(Creating) <= MaxPlans

Typed == PageTyped /\ ServerTyped /\ CallsTyped /\ RoomKept

\* What the task waits to write is a view of a plan.
TaskTyped == retimed = <<>> \/ \E view \in PlanView : retimed = <<view>>

-----------------------------------------------------------------------------
(* Numbers. *)

\* Of any numbers one is the least ...
LEMMA LeastOf ==
  ASSUME NEW N \in SUBSET Nat, N # {}
  PROVE  \E m \in N : \A n \in N : m <= n
  <1> DEFINE T == {0..n : n \in N}
  <1>1. T \subseteq FiniteSubsetsOf(Nat) /\ T # {}
    <2>1. \A n \in N : 0..n \subseteq Nat /\ IsFiniteSet(0..n)
      BY FS_Interval
    <2> QED
      BY <2>1 DEF FiniteSubsetsOf
  <1>2. \E x \in T : \A y \in T : <<y, x>> \notin StrictSubsetOrdering(Nat)
    <2> HIDE DEF T
    <2> QED
      BY <1>1, FS_StrictSubsetOrderingWellFounded, WFMin
  <1>3. PICK m \in N : \A n \in N : <<0..n, 0..m>> \notin StrictSubsetOrdering(Nat)
    BY <1>2
  <1>4. ASSUME NEW n \in N, n < m PROVE FALSE
    <2>1. 0..n \subseteq 0..m /\ 0..n \subseteq Nat /\ 0..m \subseteq Nat
      BY <1>4
    <2>2. m \in 0..m /\ m \notin 0..n
      BY <1>4
    <2> QED
      BY <2>1, <2>2, <1>3 DEF StrictSubsetOrdering
  <1> QED
    BY <1>3, <1>4

\* ... and of those up to some number one is the greatest.
LEMMA GreatestOf ==
  ASSUME NEW n \in Nat, NEW N \in SUBSET (0..n), N # {}
  PROVE  \E m \in N : \A i \in N : m >= i
  <1> DEFINE Below == {n - i : i \in N}
  <1>1. Below \in SUBSET Nat /\ Below # {}
    OBVIOUS
  <1>2. PICK k \in Below : \A b \in Below : k <= b
    <2> HIDE DEF Below
    <2> QED
      BY <1>1, LeastOf
  <1>3. PICK m \in N : k = n - m
    OBVIOUS
  <1>4. \A i \in N : n - m <= n - i
    BY <1>2, <1>3
  <1> QED
    BY <1>4

\* The first and the last of some items are among them.
LEMMA FirstAndLast ==
  ASSUME NEW items \in Items, NEW N \in SUBSET DOMAIN items, N # {}
  PROVE  Min(N) \in N /\ Max(N) \in N
  <1>1. Len(items) \in Nat /\ DOMAIN items = 1..Len(items)
    BY DEF Items
  <1>2. N \in SUBSET Nat /\ N \in SUBSET (0..Len(items))
    BY <1>1
  <1>3. Min(N) = CHOOSE x \in N : \A y \in N : x =< y
    BY DEF Min
  <1>4. Max(N) = CHOOSE x \in N : \A y \in N : x >= y
    BY DEF Max
  <1>5. Min(N) \in N
    BY <1>2, <1>3, LeastOf
  <1>6. Max(N) \in N
    BY <1>1, <1>2, <1>4, GreatestOf
  <1> QED
    BY <1>5, <1>6

-----------------------------------------------------------------------------
(* What the backend is sent, and what it stores. *)

\* Items are items with a kind, a place, a station, a row and a time.
LEMMA ItemFacts ==
  ASSUME NEW items \in Items
  PROVE  /\ Len(items) \in Nat /\ DOMAIN items = 1..Len(items) /\ Len(items) <= MaxItems
         /\ \A i \in DOMAIN items :
              /\ items[i] \in GoodItem /\ items[i] \in Item
              /\ items[i].at \in Stations \cup {NoStation}
              /\ (items[i].kind = "STATION" => items[i].what \in Stations)
  <1>1. Len(items) \in Nat /\ DOMAIN items = 1..Len(items) /\ Len(items) <= MaxItems
    BY DEF Items
  <1>2. \A i \in DOMAIN items : items[i] \in GoodItem
    BY DEF Items
  <1>3. \A x \in GoodItem : /\ x \in Item /\ x.at \in Stations \cup {NoStation}
                            /\ (x.kind = "STATION" => x.what \in Stations)
    BY DEF GoodItem, Item
  <1> QED
    BY <1>1, <1>2, <1>3

\* An item that gets another time is the item it was.
LEMMA Retimed ==
  ASSUME NEW x \in GoodItem, NEW time \in Times
  PROVE  LET y == [x EXCEPT !.time = time] IN y \in GoodItem /\ y.tag = x.tag
  BY DEF GoodItem, Item

\* A place is sent with a station, if there is any.
LEMMA AccessIsStation ==
  ASSUME NEW items \in Items, NEW i \in DOMAIN items
  PROVE  AccessStation(items, i) \in Stations \cup {NoStation}
  <1>1. StartStation(items) \in Stations \cup {NoStation}
    <2>1. CASE StationsIn(items) # {}
      <3>1. PICK m : m = Min(StationsIn(items))
        OBVIOUS
      <3>2. StationsIn(items) \in SUBSET DOMAIN items
        BY DEF StationsIn
      <3>3. m \in StationsIn(items)
        BY <2>1, <3>1, <3>2, FirstAndLast
      <3>4. items[m].what \in Stations
        BY <3>3, ItemFacts DEF StationsIn
      <3> QED
        BY <2>1, <3>1, <3>4 DEF StartStation
    <2>2. CASE StationsIn(items) = {}
      <3>1. items # <<>> => items[1].at \in Stations \cup {NoStation}
        BY ItemFacts
      <3> QED
        BY <2>2, <3>1 DEF StartStation
    <2> QED
      BY <2>1, <2>2
  <1>2. PICK before \in SUBSET DOMAIN items : before = {j \in StationsIn(items) : j <= i}
    BY DEF StationsIn
  <1>3. CASE before # {}
    <2>1. PICK m : m = Max(before)
      OBVIOUS
    <2>2. m \in before
      BY <1>3, <2>1, FirstAndLast
    <2>3. items[m].what \in Stations
      BY <1>2, <2>2, ItemFacts DEF StationsIn
    <2> QED
      BY <1>2, <1>3, <2>1, <2>3 DEF AccessStation
  <1>4. CASE before = {}
    BY <1>1, <1>2, <1>4 DEF AccessStation
  <1> QED
    BY <1>3, <1>4

\* What is sent are the items, with a station and a time for each place.
LEMMA WrittenItems ==
  ASSUME NEW items \in Items
  PROVE  /\ DOMAIN Written(items) = DOMAIN items
         /\ \A i \in DOMAIN items : /\ Written(items)[i] \in GoodItem
                                    /\ Written(items)[i].tag = items[i].tag
  <1> SUFFICES ASSUME NEW i \in DOMAIN items
               PROVE  /\ Written(items)[i] \in GoodItem
                      /\ Written(items)[i].tag = items[i].tag
    BY DEF Written
  <1>1. items[i] \in GoodItem
    BY ItemFacts
  <1>2. CASE items[i].kind = "STATION"
    BY <1>1, <1>2 DEF Written
  <1>3. CASE items[i].kind # "STATION"
    <2>1. PICK at \in Stations \cup {NoStation} : at = AccessStation(items, i)
      BY AccessIsStation
    <2>2. PICK time \in Times :
            time = IF items[i].time = "none" THEN "made up" ELSE items[i].time
      BY <1>1 DEF GoodItem, Item, Times
    <2>3. PICK x : x = [items[i] EXCEPT !.at = at, !.time = time]
      OBVIOUS
    <2>4. x \in GoodItem /\ x.tag = items[i].tag
      BY <1>1, <2>3 DEF GoodItem, Item
    <2>5. Written(items)[i] = x
      BY <1>3, <2>1, <2>2, <2>3 DEF Written
    <2> QED
      BY <2>4, <2>5
  <1> QED
    BY <1>2, <1>3

\* What is stored are the items that were sent, each with a row of its own.
LEMMA StoredItems ==
  ASSUME NEW items \in Items, rows \in Nat, rows + NewRows(items) <= MaxRows
  PROVE  Stored(items) \in Items /\ TagsOf(Stored(items)) = TagsOf(items)
  <1> DEFINE New == {i \in DOMAIN items : items[i].row = 0}
             Before(i) == {j \in 1..(i - 1) : items[j].row = 0}
  <1>1. /\ Len(items) \in Nat /\ DOMAIN items = 1..Len(items) /\ Len(items) <= MaxItems
        /\ MaxRows \in Nat
    BY ItemFacts, PlanAssumption
  <1>2. IsFiniteSet(New) /\ Cardinality(New) \in Nat /\ Cardinality(New) = NewRows(items)
    <2>1. IsFiniteSet(1..Len(items))
      BY <1>1, FS_Interval
    <2>2. New \in SUBSET (1..Len(items))
      BY <1>1
    <2> QED
      BY <2>1, <2>2, FS_Subset, FS_CardinalityType DEF NewRows
  <1>3. ASSUME NEW i \in New
        PROVE  Cardinality(Before(i)) \in Nat /\ Cardinality(Before(i)) + 1 <= Cardinality(New)
    <2>1. PICK B : B = Before(i)
      OBVIOUS
    <2>2. B \cup {i} \in SUBSET New /\ i \notin B /\ B \in SUBSET New
      BY <1>1, <2>1
    <2> HIDE DEF New, Before
    <2>3. IsFiniteSet(B) /\ Cardinality(B) \in Nat
      BY <1>2, <2>2, FS_Subset, FS_CardinalityType
    <2>4. Cardinality(B \cup {i}) = Cardinality(B) + 1
      BY <2>2, <2>3, FS_AddElement
    <2>5. Cardinality(B \cup {i}) <= Cardinality(New)
      BY <1>2, <2>2, FS_Subset
    <2> QED
      BY <2>1, <2>3, <2>4, <2>5
  <1>4. ASSUME NEW i \in DOMAIN items
        PROVE  Stored(items)[i] \in GoodItem /\ Stored(items)[i].tag = items[i].tag
    <2>1. PICK x \in GoodItem : x = Written(items)[i] /\ x.tag = items[i].tag
      BY WrittenItems
    <2>2. CASE items[i].row # 0
      BY <2>1, <2>2 DEF Stored
    <2>3. CASE items[i].row = 0
      <3>1. PICK row : row = rows + 1 + Cardinality(Before(i))
        OBVIOUS
      <3>2. row \in 0..MaxRows
        <4>1. /\ Cardinality(Before(i)) \in Nat
              /\ Cardinality(Before(i)) + 1 <= Cardinality(New)
          BY <1>3, <2>3
        <4> HIDE DEF New, Before
        <4> QED
          BY <1>1, <1>2, <3>1, <4>1
      <3>3. PICK y : y = [x EXCEPT !.row = row]
        OBVIOUS
      <3>4. y \in GoodItem /\ y.tag = x.tag
        BY <3>2, <3>3 DEF GoodItem, Item
      <3>5. Stored(items)[i] = y
        BY <2>1, <2>3, <3>1, <3>3 DEF Stored
      <3> QED
        BY <2>1, <3>4, <3>5
    <2> QED
      BY <2>2, <2>3
  <1>5. PICK s : s = Stored(items)
    OBVIOUS
  <1>6. s = [i \in 1..Len(items) |-> s[i]] /\ DOMAIN s = DOMAIN items
    BY <1>1, <1>5 DEF Stored
  <1>7. \A i \in 1..Len(items) : s[i] \in GoodItem /\ s[i].tag = items[i].tag
    BY <1>1, <1>4, <1>5
  <1>8. s \in Seq(GoodItem) /\ Len(s) = Len(items)
    BY <1>1, <1>6, <1>7
  <1>9. TagsOf(s) = TagsOf(items)
    BY <1>1, <1>6, <1>7 DEF TagsOf
  <1> QED
    BY <1>1, <1>5, <1>8, <1>9 DEF Items

-----------------------------------------------------------------------------
(* Every step keeps the types. *)

\* The plan shown is a view of it.
LEMMA PlanFacts ==
  ASSUME PageTyped, plan # <<>>
  PROVE  /\ plan = <<plan[1]>> /\ plan[1] \in PlanView
         /\ plan[1].id \in 0..MaxPlans /\ plan[1].items \in Items
  <1>1. PICK view \in PlanView : plan = <<view>>
    BY DEF PageTyped
  <1>2. view.id \in 0..MaxPlans /\ view.items \in Items
    BY DEF PlanView
  <1> QED
    BY <1>1, <1>2

\* A plan that the backend holds is one.
LEMMA ServerFacts ==
  ASSUME ServerTyped
  PROVE  /\ Len(server) \in Nat /\ DOMAIN server = 1..Len(server)
         /\ \A id : Exists(id) => server[id] = <<server[id][1]>> /\ server[id][1] \in Items
  <1>1. Len(server) \in Nat /\ DOMAIN server = 1..Len(server)
    BY DEF ServerTyped
  <1>2. ASSUME NEW id, Exists(id)
        PROVE  server[id] = <<server[id][1]>> /\ server[id][1] \in Items
    <2>1. PICK items \in Items : server[id] = <<items>>
      BY <1>2 DEF Exists, ServerTyped, PlanRows
    <2> QED
      BY <2>1
  <1> QED
    BY <1>1, <1>2

\* A plan that is written is one plan among as many.
LEMMA PlanWritten ==
  ASSUME ServerTyped, NEW id, NEW row \in PlanRows, server' = [server EXCEPT ![id] = row]
  PROVE  server' \in Seq(PlanRows) /\ Len(server') = Len(server)
  <1>1. PICK n \in Nat : n = Len(server)
    BY DEF ServerTyped
  <1>2. DOMAIN server = 1..n /\ \A i \in 1..n : server[i] \in PlanRows
    BY <1>1 DEF ServerTyped
  <1>3. PICK s : s = [i \in 1..n |-> IF i = id THEN row ELSE server[i]]
    OBVIOUS
  <1>4. server' = s
    BY <1>2, <1>3
  <1>5. \A i \in 1..n : s[i] \in PlanRows
    BY <1>2, <1>3
  <1>6. s \in Seq(PlanRows) /\ Len(s) = n
    BY <1>3, <1>5
  <1> QED
    BY <1>1, <1>4, <1>6

\* A call goes on, or is over, and no creation has begun.
LEMMA CallsMove ==
  ASSUME Typed, NEW c \in calls, NEW d \in Calls,
         calls' \in {calls \ {c}, (calls \ {c}) \cup {d}},
         d.op = "create" /\ d.at \in {"opening", "sent"} => c \in Creating,
         Len(server') = Len(server)
  PROVE  CallsTyped' /\ RoomKept'
  <1> DEFINE Rest == calls \ {c}
             Grown == Rest \cup {d}
  <1>1. /\ IsFiniteSet(calls) /\ Cardinality(calls) \in Nat /\ Cardinality(calls) <= MaxCalls
        /\ MaxCalls \in Nat /\ MaxPlans \in Nat
    BY FS_CardinalityType, PlanAssumption DEF Typed, CallsTyped
  <1>2. IsFiniteSet(Rest) /\ Cardinality(Rest) = Cardinality(calls) - 1
    BY <1>1, FS_RemoveElement
  <1>3. IsFiniteSet(Grown) /\ Cardinality(Grown) <= Cardinality(calls)
    <2> HIDE DEF Rest
    <2>1. /\ IsFiniteSet(Rest \cup {d})
          /\ Cardinality(Rest \cup {d}) = IF d \in Rest THEN Cardinality(Rest)
                                          ELSE Cardinality(Rest) + 1
      BY <1>2, FS_AddElement
    <2> QED
      BY <1>1, <1>2, <2>1
  <1>4. calls' \in {Rest, Grown}
    OBVIOUS
  <1>5. CallsTyped'
    <2>1. calls' \subseteq Calls
      BY DEF Typed, CallsTyped
    <2> HIDE DEF Rest, Grown
    <2>2. IsFiniteSet(calls') /\ Cardinality(calls') <= MaxCalls
      BY <1>1, <1>2, <1>3, <1>4, FS_CardinalityType
    <2> QED
      BY <2>1, <2>2 DEF CallsTyped
  <1>6. Cardinality(Creating') <= Cardinality(Creating) /\ Cardinality(Creating') \in Nat
        /\ Cardinality(Creating) \in Nat
    <2>1. IsFiniteSet(Creating)
      <3>1. Creating \in SUBSET calls
        BY DEF Creating
      <3> QED
        BY <1>1, <3>1, FS_Subset
    <2>2. CASE c \in Creating
      <3> DEFINE Others == Creating \ {c}
      <3>1. Creating' \in SUBSET (Others \cup {d})
        BY DEF Creating
      <3>2. IsFiniteSet(Others) /\ Cardinality(Others) = Cardinality(Creating) - 1
        BY <2>1, <2>2, FS_RemoveElement
      <3> HIDE DEF Others
      <3>3. /\ IsFiniteSet(Others \cup {d})
            /\ Cardinality(Others \cup {d}) = IF d \in Others THEN Cardinality(Others)
                                              ELSE Cardinality(Others) + 1
        BY <3>2, FS_AddElement
      <3>4. /\ Cardinality(Creating') <= Cardinality(Others \cup {d})
            /\ IsFiniteSet(Creating')
        BY <3>1, <3>3, FS_Subset
      <3> QED
        BY <2>1, <3>2, <3>3, <3>4, FS_CardinalityType
    <2>3. CASE c \notin Creating
      <3>1. Creating' \in SUBSET Creating
        BY <2>3 DEF Creating
      <3> QED
        BY <2>1, <3>1, FS_Subset, FS_CardinalityType
    <2> QED
      BY <2>2, <2>3
  <1>7. RoomKept'
    <2>1. Len(server) \in Nat
      BY ServerFacts DEF Typed
    <2> QED
      BY <1>1, <1>6, <2>1 DEF Typed, RoomKept
  <1> QED
    BY <1>5, <1>7

\* A call is sent while there is room for it.
LEMMA CallSent ==
  ASSUME Typed, NEW c \in Calls, Send(c), UNCHANGED server,
         c.op = "create" => RoomForPlan
  PROVE  CallsTyped' /\ RoomKept'
  <1>1. /\ IsFiniteSet(calls) /\ Cardinality(calls) \in Nat /\ Cardinality(calls) < MaxCalls
        /\ MaxCalls \in Nat /\ MaxPlans \in Nat /\ Len(server) \in Nat
        /\ calls' = calls \cup {c}
    BY FS_CardinalityType, PlanAssumption, ServerFacts DEF Typed, CallsTyped, Send
  <1>2. /\ IsFiniteSet(calls')
        /\ Cardinality(calls') \in Nat /\ Cardinality(calls') <= Cardinality(calls) + 1
    <2>1. /\ IsFiniteSet(calls \cup {c})
          /\ Cardinality(calls \cup {c}) = IF c \in calls THEN Cardinality(calls)
                                           ELSE Cardinality(calls) + 1
      BY <1>1, FS_AddElement
    <2> QED
      BY <1>1, <2>1
  <1>3. CallsTyped'
    <2>1. calls' \subseteq Calls
      BY <1>1 DEF Typed, CallsTyped
    <2> QED
      BY <1>1, <1>2, <2>1 DEF CallsTyped
  <1>4. IsFiniteSet(Creating) /\ Cardinality(Creating) \in Nat
    <2>1. Creating \in SUBSET calls
      BY DEF Creating
    <2> QED
      BY <1>1, <2>1, FS_Subset, FS_CardinalityType
  <1>5. CASE c.op = "create"
    <2> DEFINE Unlisted == {d \in calls : d.op = "create" /\ d.at # "listing"}
    <2>1. Len(server) + Cardinality(Unlisted) < MaxPlans
      BY <1>5 DEF RoomForPlan
    <2>2. Creating \in SUBSET Unlisted /\ Unlisted \in SUBSET calls
      BY DEF Creating
    <2> HIDE DEF Unlisted
    <2>3. /\ IsFiniteSet(Unlisted) /\ Cardinality(Unlisted) \in Nat
          /\ Cardinality(Creating) <= Cardinality(Unlisted)
      BY <1>1, <2>2, FS_Subset, FS_CardinalityType
    <2>4. Creating' \in SUBSET (Creating \cup {c})
      BY <1>1 DEF Creating
    <2>5. /\ IsFiniteSet(Creating \cup {c})
          /\ Cardinality(Creating \cup {c}) = IF c \in Creating THEN Cardinality(Creating)
                                              ELSE Cardinality(Creating) + 1
      BY <1>4, FS_AddElement
    <2>6. Cardinality(Creating') <= Cardinality(Creating \cup {c}) /\ Cardinality(Creating') \in Nat
      BY <2>4, <2>5, FS_Subset, FS_CardinalityType
    <2>7. RoomKept'
      BY <1>1, <1>4, <2>1, <2>3, <2>5, <2>6 DEF RoomKept
    <2> QED
      BY <1>3, <2>7
  <1>6. CASE c.op # "create"
    <2>1. Creating' = Creating
      BY <1>1, <1>6 DEF Creating
    <2> QED
      BY <1>3, <2>1 DEF Typed, RoomKept
  <1> QED
    BY <1>5, <1>6

\* What a call becomes is a call.
LEMMA BecomesTyped ==
  ASSUME NEW c \in Calls, NEW at \in {"opening", "sent", "done", "failed", "listing"}
  PROVE  LET d == [c EXCEPT !.at = at]
         IN  /\ d \in Calls /\ d.op = c.op /\ d.id = c.id /\ d.items = c.items /\ d.at = at
  BY DEF Calls

LEMMA AnsweringTyped ==
  ASSUME NEW c \in Calls, NEW items \in Items
  PROVE  LET d == [c EXCEPT !.at = "done", !.items = items]
         IN  /\ d \in Calls /\ d.op = c.op /\ d.id = c.id /\ d.items = items /\ d.at = "done"
  BY DEF Calls

LEMMA NewCallTyped ==
  ASSUME NEW op \in {"save", "create", "delete", "open", "public"}, NEW id \in 0..MaxPlans,
         NEW items \in Items
  PROVE  LET c == NewCall(op, id, items)
         IN  /\ c \in Calls /\ c.op = op /\ c.at = "sent" /\ c.id = id /\ c.items = items
  BY DEF Calls, NewCall

\* What the user adds is an item.
LEMMA NewItems ==
  /\ \A tag \in Tags : /\ \A s \in Stations : NewItem(tag, "STATION", s) \in GoodItem
                       /\ \A p \in Places : NewItem(tag, "PLACE", p) \in GoodItem
  /\ FirstStation \in Stations /\ {1, 2 * MaxEdits + 2} \subseteq Tags
  /\ \A e \in 0..MaxEdits : e < MaxEdits => 2 * e + 2 \in Tags /\ 2 * e + 3 \in Tags
  <1>1. MaxEdits \in Nat /\ MaxPlans \in Nat \ {0} /\ MaxRows \in Nat /\ Stations # {}
    BY PlanAssumption
  <1>2. ASSUME NEW tag \in Tags, NEW what \in Stations \cup Places,
               NEW kind \in {"STATION", "PLACE"}, kind = "STATION" => what \in Stations
        PROVE  NewItem(tag, kind, what) \in GoodItem
    BY <1>1, <1>2 DEF NewItem, GoodItem, Item, Times
  <1>3. /\ \A tag \in Tags, s \in Stations : NewItem(tag, "STATION", s) \in GoodItem
        /\ \A tag \in Tags, p \in Places : NewItem(tag, "PLACE", p) \in GoodItem
    BY <1>2
  <1>4. FirstStation \in Stations
    BY <1>1 DEF FirstStation
  <1>5. {1, 2 * MaxEdits + 2} \subseteq Tags
    BY <1>1 DEF Tags
  <1>6. \A e \in 0..MaxEdits : e < MaxEdits => 2 * e + 2 \in Tags /\ 2 * e + 3 \in Tags
    BY <1>1 DEF Tags
  <1> QED
    BY <1>3, <1>4, <1>5, <1>6

\* An edit leaves a plan with the items it says.
LEMMA EditTyped ==
  ASSUME Typed, plan # <<>>, NEW items \in Seq(GoodItem), Edit(items),
         schedule' \in {schedule, NoSchedule}
  PROVE  /\ Typed' /\ items \in Items
         /\ plan' = <<plan'[1]>> /\ plan'[1].id = plan[1].id /\ plan'[1].items = items
  <1>1. items \in Items
    BY DEF Edit, Items
  <1>2. PICK view : view = [plan[1] EXCEPT !.items = items]
    OBVIOUS
  <1>3. view \in PlanView /\ view.id = plan[1].id /\ view.items = items
    BY <1>1, <1>2, PlanFacts DEF PlanView, Typed
  <1>4. plan' = <<view>> /\ dirty' = TRUE /\ edits < MaxEdits /\ edits' = edits + 1
        /\ UNCHANGED <<pending, readOnly, url, server, calls, rows>>
    BY <1>2 DEF Edit
  <1>5. PageTyped'
    <2>1. edits' \in 0..MaxEdits
      BY <1>4, PlanAssumption DEF Typed, PageTyped
    <2> QED
      BY <1>3, <1>4, <2>1 DEF Typed, PageTyped
  <1>6. ServerTyped' /\ CallsTyped' /\ RoomKept'
    BY <1>4 DEF Typed, ServerTyped, CallsTyped, RoomKept, Creating
  <1> QED
    BY <1>1, <1>3, <1>4, <1>5, <1>6 DEF Typed

\* The edits of the user, by the items they leave.
LEMMA UserEdits ==
  ASSUME Typed,
         \/ \E s \in Stations : AddStation(s)
         \/ \E p \in Places, s \in Stations : AddPlace(p, s)
         \/ \E i \in 1..MaxItems : RemoveItem(i) \/ ReorderItem(i)
                                   \/ SetPlaceTime(i) \/ ApplyDeparture(i)
         \/ Retitle
  PROVE  /\ plan # <<>>
         /\ \E items \in Seq(GoodItem) : Edit(items) /\ schedule' \in {schedule, NoSchedule}
  <1>1. plan # <<>>
    BY DEF AddStation, AddPlace, RemoveItem, ReorderItem, SetPlaceTime, ApplyDeparture, Retitle
  <1>2. PICK items \in Items : items = plan[1].items
    BY <1>1, PlanFacts DEF Typed
  <1>3. items \in Seq(GoodItem) /\ Len(items) \in Nat /\ DOMAIN items = 1..Len(items)
    BY DEF Items
  <1>4. edits \in 0..MaxEdits
    BY DEF Typed, PageTyped
  <1>5. \A time \in Times : \A i \in DOMAIN items :
          [items EXCEPT ![i].time = time] \in Seq(GoodItem)
    <2> SUFFICES ASSUME NEW time \in Times, NEW i \in DOMAIN items
                 PROVE  [items EXCEPT ![i].time = time] \in Seq(GoodItem)
      OBVIOUS
    <2>1. PICK x : x = [items[i] EXCEPT !.time = time]
      OBVIOUS
    <2>2. x \in GoodItem
      BY <1>3, <2>1, Retimed
    <2>3. [items EXCEPT ![i].time = time] = [items EXCEPT ![i] = x]
      BY <2>1
    <2>4. [items EXCEPT ![i] = x] \in Seq(GoodItem)
      BY <1>3, <2>2
    <2> QED
      BY <2>3, <2>4
  <1>6. ASSUME NEW s \in Stations, AddStation(s)
        PROVE  \E new \in Seq(GoodItem) : Edit(new) /\ schedule' \in {schedule, NoSchedule}
    <2>1. PICK new : new = Append(items, NewItem(NewTag, "STATION", s)) /\ Edit(new)
      BY <1>2, <1>6 DEF AddStation
    <2>2. NewItem(NewTag, "STATION", s) \in GoodItem
      BY <1>4, <2>1, NewItems DEF NewTag, Edit
    <2>3. new \in Seq(GoodItem)
      BY <1>3, <2>1, <2>2
    <2> QED
      BY <1>6, <2>1, <2>3 DEF AddStation
  <1>7. ASSUME NEW p \in Places, NEW s \in Stations, AddPlace(p, s)
        PROVE  \E new \in Seq(GoodItem) : Edit(new) /\ schedule' \in {schedule, NoSchedule}
    <2>1. PICK head \in {<<>>, <<NewItem(NewTag, "STATION", s)>>} :
             Edit(items \o Append(head, NewItem(NewTag + 1, "PLACE", p)))
      BY <1>2, <1>7 DEF AddPlace
    <2>2. NewTag \in Tags /\ NewTag + 1 \in Tags
      <3>1. edits < MaxEdits
        BY <2>1 DEF Edit
      <3> QED
        BY <1>4, <3>1, NewItems DEF NewTag
    <2>3. PICK x \in GoodItem, y \in GoodItem : /\ x = NewItem(NewTag, "STATION", s)
                                                /\ y = NewItem(NewTag + 1, "PLACE", p)
      BY <2>2, NewItems
    <2>4. items \o Append(head, y) \in Seq(GoodItem)
      <3>1. head = <<>> \/ head = <<x>>
        BY <2>1, <2>3
      <3>2. head \in Seq(GoodItem)
        <4>1. <<>> \in Seq(GoodItem) /\ <<x>> \in Seq(GoodItem)
          OBVIOUS
        <4> QED
          BY <3>1, <4>1, Zenon
      <3>3. Append(head, y) \in Seq(GoodItem)
        BY <3>2
      <3> QED
        BY <1>3, <3>3
    <2>5. Edit(items \o Append(head, y)) /\ schedule' = schedule
      BY <1>7, <2>1, <2>3 DEF AddPlace
    <2> QED
      BY <2>4, <2>5
  <1>8. ASSUME NEW i \in 1..MaxItems, RemoveItem(i)
        PROVE  \E new \in Seq(GoodItem) : Edit(new) /\ schedule' \in {schedule, NoSchedule}
    <2>1. PICK new : new = RemoveAt(items, i) /\ Edit(new)
      BY <1>2, <1>8 DEF RemoveItem
    <2>2. i \in DOMAIN items
      BY <1>2, <1>8 DEF RemoveItem
    <2>3. SubSeq(items, 1, i - 1) \in Seq(GoodItem) /\ SubSeq(items, i + 1, Len(items)) \in Seq(GoodItem)
      BY <1>3, <2>2
    <2>4. new \in Seq(GoodItem)
      BY <2>1, <2>3 DEF RemoveAt
    <2> QED
      BY <1>8, <2>1, <2>4 DEF RemoveItem
  <1>9. ASSUME NEW i \in 1..MaxItems, ReorderItem(i)
        PROVE  \E new \in Seq(GoodItem) : Edit(new) /\ schedule' \in {schedule, NoSchedule}
    <2>1. PICK new : /\ new = [items EXCEPT ![i] = items[i + 1], ![i + 1] = items[i]]
                     /\ Edit(new)
      BY <1>2, <1>9 DEF ReorderItem
    <2>2. i \in DOMAIN items /\ i + 1 \in DOMAIN items
      BY <1>2, <1>9 DEF ReorderItem
    <2>3. items[i] \in GoodItem /\ items[i + 1] \in GoodItem
      BY <1>3, <2>2
    <2>4. new \in Seq(GoodItem)
      BY <1>3, <2>1, <2>2, <2>3
    <2> QED
      BY <1>9, <2>1, <2>4 DEF ReorderItem
  <1>10. ASSUME NEW i \in 1..MaxItems, SetPlaceTime(i) \/ ApplyDeparture(i)
         PROVE  \E new \in Seq(GoodItem) : Edit(new) /\ schedule' \in {schedule, NoSchedule}
    <2>1. i \in DOMAIN items /\ schedule' = schedule
      BY <1>2, <1>10 DEF SetPlaceTime, ApplyDeparture
    <2>2. \/ \E time \in {"none", "picked"} : Edit([items EXCEPT ![i].time = time])
          \/ Edit(items)
      BY <1>2, <1>10 DEF SetPlaceTime, ApplyDeparture
    <2>3. {"none", "picked"} \subseteq Times
      BY DEF Times
    <2> QED
      BY <1>3, <1>5, <2>1, <2>2, <2>3
  <1>11. ASSUME Retitle
         PROVE  \E new \in Seq(GoodItem) : Edit(new) /\ schedule' \in {schedule, NoSchedule}
    BY <1>2, <1>3, <1>11 DEF Retitle
  <1> QED
    BY <1>1, <1>6, <1>7, <1>8, <1>9, <1>10, <1>11

\* The schedule's times change no item but for its time.
LEMMA ItemsTimed ==
  ASSUME NEW items \in Items, schedule \in Minutes
  PROVE  WithTimes(items) \in Items /\ TagsOf(WithTimes(items)) = TagsOf(items)
  <1>1. PICK new : new = WithTimes(items)
    OBVIOUS
  <1>2. \A i \in DOMAIN items : new[i] \in GoodItem /\ new[i].tag = items[i].tag
    <2> SUFFICES ASSUME NEW i \in DOMAIN items
                 PROVE  new[i] \in GoodItem /\ new[i].tag = items[i].tag
      OBVIOUS
    <2>1. items[i] \in GoodItem /\ schedule \in Times
      BY ItemFacts DEF Times
    <2>2. [items[i] EXCEPT !.time = schedule] \in GoodItem
          /\ [items[i] EXCEPT !.time = schedule].tag = items[i].tag
      BY <2>1, Retimed
    <2>3. new[i] \in {items[i], [items[i] EXCEPT !.time = schedule]}
      BY <1>1 DEF WithTimes
    <2> QED
      BY <2>1, <2>2, <2>3
  <1>3. Len(items) \in Nat /\ DOMAIN items = 1..Len(items) /\ Len(items) <= MaxItems
    BY ItemFacts
  <1>4. DOMAIN new = 1..Len(items) /\ new = [i \in 1..Len(items) |-> new[i]]
    BY <1>1, <1>3 DEF WithTimes
  <1>5. new \in Items
    <2>1. new \in Seq(GoodItem) /\ Len(new) = Len(items)
      BY <1>2, <1>3, <1>4
    <2> QED
      BY <1>3, <2>1 DEF Items
  <1>6. TagsOf(new) = TagsOf(items)
    BY <1>2, <1>3, <1>4 DEF TagsOf
  <1> QED
    BY <1>1, <1>5, <1>6

\* The effect sets a task for the plan shown, with the same items, or none.
LEMMA TaskIsPlan ==
  ASSUME Typed, ApplySchedule, retimed' # <<>>
  PROVE  /\ plan # <<>> /\ TaskTyped' /\ retimed'[1].id = plan[1].id
         /\ TagsOf(retimed'[1].items) = TagsOf(plan[1].items)
  <1>1. /\ plan # <<>> /\ schedule \in Minutes
        /\ retimed' = <<[plan[1] EXCEPT !.items = WithTimes(plan[1].items)]>>
    BY DEF ApplySchedule, Typed, PageTyped
  <1>2. PICK items \in Items : items = plan[1].items
    BY <1>1, PlanFacts DEF Typed
  <1>3. PICK new \in Items : new = WithTimes(items) /\ TagsOf(new) = TagsOf(items)
    BY <1>1, ItemsTimed
  <1>4. PICK view : view = [plan[1] EXCEPT !.items = new]
    OBVIOUS
  <1>5. view \in PlanView /\ view.id = plan[1].id /\ view.items = new
    <2>1. plan[1] \in PlanView
      BY <1>1, PlanFacts DEF Typed
    <2> QED
      BY <1>4, <2>1 DEF PlanView
  <1>6. retimed' = <<view>>
    BY <1>1, <1>2, <1>3, <1>4
  <1> QED
    BY <1>1, <1>2, <1>3, <1>5, <1>6 DEF TaskTyped

\* Any other step keeps the task or ends it.
LEMMA TaskOnly == [Next]_vars => retimed' \in {retimed, <<>>} \/ ApplySchedule
  <1> SUFFICES ASSUME [Next]_vars PROVE retimed' \in {retimed, <<>>} \/ ApplySchedule
    OBVIOUS
  <1>1. CASE UserNext
    BY <1>1 DEF UserNext, AddStation, AddPlace, RemoveItem, ReorderItem, SetPlaceTime,
       ApplyDeparture, Retitle, Edit, CreatePlan, DeletePlan, OpenPlanner
  <1>2. ASSUME NEW c \in calls, Serve(c) \/ Answered(c) \/ CallFails(c) \/ CallThrows(c)
        PROVE  retimed' = retimed
    BY <1>2 DEF Serve, ServeSave, ServeCreate, ServeDelete, ServeOpen, Answered, PlannerOpened,
       SaveAnswered, CreateAnswered, CreateListed, DeleteAnswered, OpenAnswered,
       FailureAnswered, CallFails, CallThrows
  <1>3. CASE OpenAddress \/ OpenPublicPlan \/ ScheduleChanges \/ WriteTimes \/ Autosave
    BY <1>3 DEF OpenAddress, OpenPublicPlan, ScheduleChanges, WriteTimes, Autosave
  <1> QED
    BY <1>1, <1>2, <1>3 DEF Next, vars

LEMMA TaskKeepsType == Typed /\ TaskTyped /\ [Next]_vars => TaskTyped'
  <1> SUFFICES ASSUME Typed, TaskTyped, [Next]_vars PROVE TaskTyped'
    OBVIOUS
  <1>1. CASE retimed' \in {retimed, <<>>}
    BY <1>1 DEF TaskTyped
  <1>2. CASE ApplySchedule /\ retimed' # <<>>
    BY <1>2, TaskIsPlan
  <1> QED
    BY <1>1, <1>2, TaskOnly

\* Steps that change the calls only.
LEMMA CallOnly ==
  ASSUME Typed, UNCHANGED <<plan, dirty, readOnly, schedule, server, rows>>,
         pending' \in BOOLEAN, url' \in {url, "none"}, edits' \in 0..MaxEdits,
         CallsTyped', RoomKept'
  PROVE  Typed'
  BY DEF Typed, PageTyped, ServerTyped

LEMMA UserTyped == ASSUME Typed, UserNext PROVE Typed'
  <1>1. CASE \/ \E s \in Stations : AddStation(s)
             \/ \E p \in Places, s \in Stations : AddPlace(p, s)
             \/ \E i \in 1..MaxItems : RemoveItem(i) \/ ReorderItem(i)
                                       \/ SetPlaceTime(i) \/ ApplyDeparture(i)
             \/ Retitle
    BY <1>1, UserEdits, EditTyped
  <1>2. ASSUME NEW s \in Stations, NEW withPlace \in BOOLEAN, CreatePlan(s, withPlace)
        PROVE  Typed'
    <2>1. /\ edits < MaxEdits /\ RoomForPlan /\ edits' = edits + 1 /\ pending' = TRUE
          /\ edits \in 0..MaxEdits /\ MaxEdits \in Nat /\ MaxItems \in Nat \ {0, 1}
          /\ UNCHANGED <<plan, dirty, readOnly, schedule, url, server, rows>>
      BY <1>2, PlanAssumption DEF CreatePlan, shown, Typed, PageTyped
    <2>2. PICK items \in Items : Send(NewCall("create", 0, items))
      <3>1. PICK p \in Places : Send(NewCall("create", 0,
              <<NewItem(NewTag, "STATION", s)>> \o
              (IF withPlace THEN <<NewItem(NewTag + 1, "PLACE", p)>> ELSE <<>>)))
        BY <1>2 DEF CreatePlan
      <3>2. NewTag \in Tags /\ NewTag + 1 \in Tags
        BY <2>1, NewItems DEF NewTag
      <3>3. PICK x \in GoodItem, y \in GoodItem : /\ x = NewItem(NewTag, "STATION", s)
                                                  /\ y = NewItem(NewTag + 1, "PLACE", p)
        BY <3>2, NewItems
      <3>4. <<x>> \o <<y>> \in Items /\ <<x>> \o <<>> \in Items
        BY <2>1 DEF Items
      <3> QED
        BY <3>1, <3>3, <3>4
    <2>3. 0 \in 0..MaxPlans
      BY PlanAssumption
    <2>4. CallsTyped' /\ RoomKept'
      BY <2>1, <2>2, <2>3, NewCallTyped, CallSent
    <2> QED
      BY <2>1, <2>4, CallOnly
  <1>3. CASE DeletePlan
    <2>1. /\ plan # <<>> /\ pending' = TRUE /\ Send(NewCall("delete", plan[1].id, <<>>))
          /\ UNCHANGED <<plan, dirty, readOnly, schedule, url, server, rows, edits>>
      BY <1>3 DEF DeletePlan, Own, shown
    <2>2. plan[1].id \in 0..MaxPlans /\ <<>> \in Items /\ edits \in 0..MaxEdits
      BY <2>1, PlanFacts, PlanAssumption DEF Typed, PageTyped, Items
    <2>3. CallsTyped' /\ RoomKept'
      BY <2>1, <2>2, NewCallTyped, CallSent
    <2> QED
      BY <2>1, <2>2, <2>3, CallOnly
  <1>4. CASE OpenPlanner
    BY <1>4 DEF OpenPlanner, Typed, PageTyped, ServerTyped, CallsTyped, RoomKept, Creating
  <1> QED
    BY <1>1, <1>2, <1>3, <1>4 DEF UserNext

LEMMA EffectsTyped ==
  ASSUME Typed, TaskTyped,
         \/ OpenAddress \/ OpenPublicPlan \/ Autosave
         \/ ScheduleChanges \/ ApplySchedule \/ WriteTimes
  PROVE  Typed'
  <1>0. 0 \in 0..MaxPlans /\ 1 \in 0..MaxPlans /\ MaxItems \in Nat \ {0, 1} /\ <<>> \in Items
    BY PlanAssumption DEF Items
  <1>1. CASE OpenAddress
    <2>1. /\ url \in {"open", "create"} /\ url' = "none" /\ readOnly' = FALSE
          /\ (url = "create" => RoomForPlan)
          /\ UNCHANGED <<plan, dirty, pending, schedule, server, rows, edits>>
      BY <1>1 DEF OpenAddress
    <2>2. PICK items \in AddressItems(url) :
             Send([NewCall(url, IF url = "open" THEN 1 ELSE 0, items) EXCEPT !.at = "opening"])
      BY <1>1 DEF OpenAddress
    <2>3. items \in Items
      <3>1. PICK x \in GoodItem : x = NewItem(1, "STATION", FirstStation)
        BY NewItems
      <3>2. \A p \in Places : NewItem(2 * MaxEdits + 2, "PLACE", p) \in GoodItem
        BY NewItems
      <3>3. \A y \in GoodItem : Append(<<x>>, y) \in Items
        BY <1>0 DEF Items
      <3>4. <<x>> \in Items
        BY <1>0 DEF Items
      <3> QED
        BY <1>0, <3>1, <3>2, <3>3, <3>4 DEF AddressItems
    <2>4. PICK id \in 0..MaxPlans : id = IF url = "open" THEN 1 ELSE 0
      BY <1>0
    <2>5. PICK c : c = NewCall(url, id, items)
      OBVIOUS
    <2>6. c \in Calls /\ c.op = url
      BY <2>1, <2>3, <2>5, NewCallTyped
    <2>7. PICK d : d = [c EXCEPT !.at = "opening"]
      OBVIOUS
    <2>8. d \in Calls /\ d.op = url
      BY <2>6, <2>7, BecomesTyped
    <2>9. CallsTyped' /\ RoomKept'
      BY <2>1, <2>2, <2>4, <2>5, <2>7, <2>8, CallSent
    <2> QED
      BY <2>1, <2>9 DEF Typed, PageTyped, ServerTyped
  <1>2. CASE OpenPublicPlan
    <2>1. /\ url' = "none" /\ Send(NewCall("public", PublicId, <<>>)) /\ pending' = TRUE
          /\ UNCHANGED <<plan, dirty, readOnly, schedule, server, rows, edits>>
      BY <1>2 DEF OpenPublicPlan, shown
    <2>2. CallsTyped' /\ RoomKept'
      BY <1>0, <2>1, NewCallTyped, CallSent DEF PublicId
    <2> QED
      BY <2>1, <2>2, CallOnly DEF Typed, PageTyped
  <1>3. CASE ScheduleChanges
    BY <1>3 DEF ScheduleChanges, shown, Typed, PageTyped, ServerTyped, CallsTyped,
       RoomKept, Creating
  <1>4. CASE ApplySchedule
    BY <1>4 DEF ApplySchedule, shown, Typed, PageTyped, ServerTyped, CallsTyped,
       RoomKept, Creating
  <1>5. CASE Autosave
    <2>1. /\ plan # <<>> /\ pending' = TRUE
          /\ Send(NewCall("save", plan[1].id, plan[1].items))
          /\ UNCHANGED <<plan, dirty, readOnly, schedule, url, server, rows, edits>>
      BY <1>5 DEF Autosave, shown
    <2>2. plan[1].id \in 0..MaxPlans /\ plan[1].items \in Items /\ edits \in 0..MaxEdits
      BY <2>1, PlanFacts DEF Typed, PageTyped
    <2>3. CallsTyped' /\ RoomKept'
      BY <2>1, <2>2, NewCallTyped, CallSent
    <2> QED
      BY <2>1, <2>2, <2>3, CallOnly
  <1>6. CASE WriteTimes
    BY <1>6 DEF WriteTimes, TaskTyped, Typed, PageTyped, ServerTyped, CallsTyped,
       RoomKept, Creating
  <1> QED
    BY <1>1, <1>2, <1>3, <1>4, <1>5, <1>6

LEMMA ServeTyped == ASSUME Typed, NEW c \in calls, Serve(c) PROVE Typed'
  <1>0. c \in Calls /\ c.items \in Items /\ c.id \in 0..MaxPlans /\ ServerTyped
    BY DEF Typed, CallsTyped, Calls
  <1>1. /\ Len(server) \in Nat /\ DOMAIN server = 1..Len(server) /\ rows \in Nat
        /\ MaxRows \in Nat /\ rows \in 0..MaxRows /\ edits \in 0..MaxEdits
        /\ pending \in BOOLEAN
    BY <1>0, ServerFacts, PlanAssumption DEF ServerTyped, Typed, PageTyped
  <1>2. /\ UNCHANGED <<plan, dirty, readOnly, pending, schedule, url, edits>>
        /\ c.at = "sent"
    BY DEF Serve, ServeSave, ServeCreate, ServeDelete, ServeOpen, shown
  <1>3. NewRows(c.items) \in Nat
    <2>1. PICK n : n = Len(c.items)
      OBVIOUS
    <2>2. n \in Nat /\ DOMAIN c.items = 1..n
      BY <1>0, <2>1, ItemFacts
    <2>3. IsFiniteSet(1..n)
      BY <2>2, FS_Interval
    <2>4. {i \in DOMAIN c.items : c.items[i].row = 0} \in SUBSET (1..n)
      BY <2>2
    <2> QED
      BY <2>3, <2>4, FS_Subset, FS_CardinalityType DEF NewRows
  <1>f. ASSUME NEW at \in {"done", "failed"}, Becomes(c, at), Len(server') = Len(server)
        PROVE  CallsTyped' /\ RoomKept'
    <2>1. PICK d : d = [c EXCEPT !.at = at]
      OBVIOUS
    <2>2. d \in Calls /\ d.at = at
      <3>1. at \in {"opening", "sent", "done", "failed", "listing"}
        OBVIOUS
      <3> QED
        BY <1>0, <2>1, <3>1, BecomesTyped
    <2>3. calls' = (calls \ {c}) \cup {d}
      BY <1>f, <2>1 DEF Becomes
    <2> QED
      BY <1>f, <2>2, <2>3, CallsMove
  <1>d. ASSUME NEW items \in Items, Len(server') = Len(server),
               calls' = (calls \ {c}) \cup {[c EXCEPT !.at = "done", !.items = items]}
        PROVE  CallsTyped' /\ RoomKept'
    <2>1. PICK d : d = [c EXCEPT !.at = "done", !.items = items]
      OBVIOUS
    <2>2. d \in Calls /\ d.at = "done"
      BY <1>0, <2>1, AnsweringTyped
    <2> QED
      BY <1>d, <2>1, <2>2, CallsMove
  <1>e. ASSUME UNCHANGED <<server, rows>>, CallsTyped', RoomKept' PROVE Typed'
    BY <1>1, <1>2, <1>e, CallOnly
  <1>4. CASE ServeSave(c)
    <2>1. CASE Exists(c.id) /\ Acceptable(c.items, RowsOf(server[c.id][1]))
      <3>1. /\ rows + NewRows(c.items) <= MaxRows /\ rows' = rows + NewRows(c.items)
            /\ server' = [server EXCEPT ![c.id] = <<Stored(c.items)>>]
            /\ calls' = (calls \ {c}) \cup {[c EXCEPT !.at = "done", !.items = Stored(c.items)]}
        BY <1>4, <2>1 DEF ServeSave, Acceptable
      <3>2. PICK items \in Items : items = Stored(c.items)
        BY <1>0, <1>1, <3>1, StoredItems
      <3>3. server' \in Seq(PlanRows) /\ Len(server') = Len(server)
        <4>1. PICK row \in PlanRows : row = <<items>>
          BY DEF PlanRows
        <4> QED
          BY <1>0, <3>1, <3>2, <4>1, PlanWritten
      <3>4. ServerTyped'
        BY <1>1, <1>3, <3>1, <3>3 DEF ServerTyped
      <3>5. CallsTyped' /\ RoomKept'
        BY <1>d, <3>1, <3>2, <3>3
      <3> QED
        BY <1>2, <3>4, <3>5 DEF Typed, PageTyped
    <2>2. CASE ~(Exists(c.id) /\ Acceptable(c.items, RowsOf(server[c.id][1])))
      BY <1>4, <1>f, <1>e, <2>2 DEF ServeSave
    <2> QED
      BY <2>1, <2>2
  <1>5. CASE ServeCreate(c)
    <2>1. CASE Acceptable(c.items, {})
      <3>1. /\ rows + NewRows(c.items) <= MaxRows /\ rows' = rows + NewRows(c.items)
            /\ server' = Append(server, <<Stored(c.items)>>) /\ c.op = "create"
            /\ calls' = (calls \ {c}) \cup {[c EXCEPT !.at = "done", !.id = Len(server) + 1,
                                                      !.items = Stored(c.items)]}
        BY <1>5, <2>1 DEF ServeCreate, Acceptable
      <3>2. PICK items \in Items : items = Stored(c.items)
        BY <1>0, <1>1, <3>1, StoredItems
      <3>3. server' \in Seq(PlanRows) /\ Len(server') = Len(server) + 1
        <4>1. PICK row \in PlanRows : row = <<items>>
          BY DEF PlanRows
        <4> QED
          BY <1>0, <3>1, <3>2, <4>1 DEF ServerTyped
      <3>4. ServerTyped'
        BY <1>1, <1>3, <3>1, <3>3 DEF ServerTyped
      <3>5. /\ IsFiniteSet(Creating) /\ Cardinality(Creating) \in Nat /\ MaxPlans \in Nat
            /\ c \in Creating /\ Len(server) + Cardinality(Creating) <= MaxPlans
        <4>1. Creating \in SUBSET calls /\ IsFiniteSet(calls)
          BY DEF Creating, Typed, CallsTyped
        <4> QED
          BY <1>2, <3>1, <4>1, FS_Subset, FS_CardinalityType, PlanAssumption
             DEF Creating, Typed, RoomKept
      <3>6. Cardinality(Creating \ {c}) = Cardinality(Creating) - 1 /\ IsFiniteSet(Creating \ {c})
        BY <3>5, FS_RemoveElement
      <3>7. Cardinality(Creating \ {c}) \in Nat
        BY <3>6, FS_CardinalityType
      <3>8. PICK id \in 0..MaxPlans : id = Len(server) + 1
        BY <1>1, <3>5, <3>6, <3>7
      <3>9. PICK d : d = [c EXCEPT !.at = "done", !.id = id, !.items = items]
        OBVIOUS
      <3>10. d \in Calls /\ d.at = "done" /\ calls' = (calls \ {c}) \cup {d}
        BY <1>0, <3>1, <3>2, <3>8, <3>9 DEF Calls
      <3>11. Creating' = Creating \ {c}
        BY <3>10 DEF Creating
      <3>12. RoomKept'
        BY <1>1, <3>3, <3>5, <3>6, <3>11 DEF RoomKept
      <3>13. CallsTyped'
        <4>1. PICK n \in Nat : n = Len(server)
          BY <1>1
        <4> DEFINE Rest == calls \ {c}
        <4>2. /\ IsFiniteSet(Rest) /\ Cardinality(Rest) = Cardinality(calls) - 1
              /\ Cardinality(calls) \in Nat /\ Cardinality(calls) <= MaxCalls
              /\ MaxCalls \in Nat
          BY FS_RemoveElement, FS_CardinalityType, PlanAssumption DEF Typed, CallsTyped
        <4>3. calls' = Rest \cup {d} /\ calls' \subseteq Calls
          BY <3>10 DEF Typed, CallsTyped
        <4> HIDE DEF Rest
        <4>4. /\ IsFiniteSet(Rest \cup {d})
              /\ Cardinality(Rest \cup {d}) = IF d \in Rest THEN Cardinality(Rest)
                                              ELSE Cardinality(Rest) + 1
          BY <4>2, FS_AddElement
        <4> QED
          BY <4>2, <4>3, <4>4 DEF CallsTyped
      <3> QED
        BY <1>2, <3>4, <3>12, <3>13 DEF Typed, PageTyped
    <2>2. CASE ~Acceptable(c.items, {})
      BY <1>5, <1>f, <1>e, <2>2 DEF ServeCreate
    <2> QED
      BY <2>1, <2>2
  <1>6. CASE ServeDelete(c)
    <2>1. PICK at \in {"done", "failed"} : Becomes(c, at)
      BY <1>6 DEF ServeDelete
    <2>2. server' = [server EXCEPT ![c.id] = <<>>] /\ rows' = rows
      BY <1>6 DEF ServeDelete
    <2>3. server' \in Seq(PlanRows) /\ Len(server') = Len(server)
      <3>1. PICK row \in PlanRows : row = <<>>
        BY DEF PlanRows
      <3> QED
        BY <1>0, <2>2, <3>1, PlanWritten
    <2>4. CallsTyped' /\ RoomKept'
      BY <1>f, <2>1, <2>3
    <2> QED
      BY <1>1, <1>2, <2>2, <2>3, <2>4 DEF Typed, PageTyped, ServerTyped
  <1>7. CASE ServeOpen(c)
    <2>1. UNCHANGED <<server, rows>>
      BY <1>7 DEF ServeOpen
    <2>2. CASE c.op = "public"
      <3>1. PICK items \in Items : items = <<NewItem(1, "STATION", FirstStation)>>
        <4>1. PICK x \in GoodItem : x = NewItem(1, "STATION", FirstStation)
          BY NewItems
        <4>2. <<x>> \in Items
          BY PlanAssumption DEF Items
        <4> QED
          BY <4>1, <4>2
      <3> QED
        BY <1>7, <1>d, <1>e, <2>1, <2>2, <3>1 DEF ServeOpen
    <2>3. CASE c.op # "public" /\ ~Exists(c.id)
      BY <1>7, <1>f, <1>e, <2>1, <2>3 DEF ServeOpen
    <2>4. CASE c.op # "public" /\ Exists(c.id)
      BY <1>7, <1>0, <1>d, <1>e, <2>1, <2>4, ServerFacts DEF ServeOpen
    <2> QED
      BY <2>2, <2>3, <2>4
  <1> QED
    BY <1>4, <1>5, <1>6, <1>7 DEF Serve

LEMMA AnswerTyped ==
  ASSUME Typed, NEW c \in calls, Answered(c) \/ CallFails(c) \/ CallThrows(c)
  PROVE  Typed'
  <1>0. c \in Calls /\ c.items \in Items /\ c.id \in 0..MaxPlans
    BY DEF Typed, CallsTyped, Calls
  <1>1. UNCHANGED <<server, rows, edits, url>>
    BY DEF Answered, PlannerOpened, SaveAnswered, CreateAnswered, CreateListed, DeleteAnswered,
       OpenAnswered, FailureAnswered, CallFails, CallThrows
  <1>2. CallsTyped' /\ RoomKept'
    <2>1. CASE \E at \in {"sent", "failed", "listing"} :
                 Becomes(c, at) /\ (at = "sent" => c.at = "opening")
      <3>1. PICK at \in {"sent", "failed", "listing"} :
                 Becomes(c, at) /\ (at = "sent" => c.at = "opening")
        BY <2>1
      <3>2. PICK d : d = [c EXCEPT !.at = at]
        OBVIOUS
      <3>3. d \in Calls /\ d.at = at /\ d.op = c.op
        <4>1. at \in {"opening", "sent", "done", "failed", "listing"}
          OBVIOUS
        <4> QED
          BY <1>0, <3>2, <4>1, BecomesTyped
      <3>4. calls' = (calls \ {c}) \cup {d}
        BY <3>1, <3>2 DEF Becomes
      <3> QED
        BY <1>1, <3>1, <3>3, <3>4, CallsMove DEF Creating
    <2>2. CASE calls' = calls \ {c}
      <3>1. c.op = "create" /\ c.at \in {"opening", "sent"} => c \in Creating
        BY DEF Creating
      <3> QED
        BY <1>0, <1>1, <2>2, <3>1, CallsMove
    <2> QED
      BY <2>1, <2>2 DEF Answered, PlannerOpened, SaveAnswered, CreateAnswered, CreateListed,
         DeleteAnswered, OpenAnswered, FailureAnswered, CallFails, CallThrows
  <1>3. plan' \in {plan, <<>>} \/ plan' = <<[id |-> c.id, items |-> c.items]>>
    BY DEF Answered, PlannerOpened, SaveAnswered, CreateAnswered, CreateListed, DeleteAnswered,
       OpenAnswered, FailureAnswered, CallFails, CallThrows, shown
  <1>4. /\ dirty' \in {dirty, FALSE} /\ pending' \in {pending, TRUE, FALSE}
        /\ readOnly' \in {readOnly, TRUE, FALSE} /\ schedule' \in {schedule, NoSchedule}
    BY DEF Answered, PlannerOpened, SaveAnswered, CreateAnswered, CreateListed, DeleteAnswered,
       OpenAnswered, FailureAnswered, CallFails, CallThrows, shown
  <1>5. PageTyped'
    <2>1. [id |-> c.id, items |-> c.items] \in PlanView
      BY <1>0 DEF PlanView
    <2>2. plan' = <<>> \/ \E view \in PlanView : plan' = <<view>>
      BY <1>3, <2>1 DEF Typed, PageTyped
    <2> QED
      BY <1>1, <1>4, <2>2 DEF Typed, PageTyped
  <1> QED
    BY <1>1, <1>2, <1>5 DEF Typed, ServerTyped

LEMMA InitTyped == Init => Typed
  <1> SUFFICES ASSUME Init PROVE Typed
    OBVIOUS
  <1>1. /\ plan = <<>> /\ calls = {} /\ edits = 0 /\ rows \in {0, 1} /\ schedule = NoSchedule
        /\ dirty = FALSE /\ pending = FALSE /\ readOnly = FALSE
        /\ url \in {"none", "open", "create", "public"}
        /\ MaxRows \in Nat \ {0} /\ MaxPlans \in Nat \ {0} /\ MaxItems \in Nat \ {0}
        /\ MaxCalls \in Nat /\ MaxEdits \in Nat
    BY PlanAssumption DEF Init
  <1>2. PageTyped
    <2>1. edits \in 0..MaxEdits /\ schedule \in Minutes \cup {NoSchedule}
      BY <1>1
    <2> QED
      BY <1>1, <2>1, Zenon DEF PageTyped
  <1>3. server \in Seq(PlanRows) /\ Len(server) \in {0, 1}
    <2>1. PICK x : x = [NewItem(1, "STATION", FirstStation) EXCEPT !.row = 1]
      OBVIOUS
    <2>2. x \in GoodItem
      <3>1. PICK y \in GoodItem : y = NewItem(1, "STATION", FirstStation)
        BY NewItems
      <3>2. [y EXCEPT !.row = 1] \in GoodItem
        BY <1>1 DEF GoodItem, Item
      <3> QED
        BY <2>1, <3>1, <3>2
    <2>3. PICK items \in Items : items = <<x>>
      <3>1. <<x>> \in Seq(GoodItem) /\ Len(<<x>>) <= MaxItems
        BY <1>1, <2>2
      <3> QED
        BY <3>1 DEF Items
    <2>4. server = <<<<items>>>> \/ server = <<>>
      BY <2>1, <2>3 DEF Init
    <2>5. CASE server = <<>>
      BY <2>5
    <2>6. CASE server = <<<<items>>>>
      <3>1. PICK row \in PlanRows : row = <<items>>
        BY DEF PlanRows
      <3>2. server = <<row>>
        BY <2>6, <3>1
      <3> QED
        BY <3>2
    <2> QED
      BY <2>4, <2>5, <2>6
  <1>4. CallsTyped
    BY <1>1, FS_EmptySet DEF CallsTyped
  <1>5. RoomKept
    <2>1. Creating = {}
      BY <1>1 DEF Creating
    <2>2. Cardinality(Creating) = 0
      BY <2>1, FS_EmptySet
    <2>3. PICK n \in {0, 1} : n = Len(server)
      BY <1>3
    <2>4. n + 0 <= MaxPlans
      BY <1>1
    <2> QED
      BY <2>2, <2>3, <2>4 DEF RoomKept
  <1>6. ServerTyped
    BY <1>1, <1>3 DEF ServerTyped
  <1> QED
    BY <1>2, <1>4, <1>5, <1>6 DEF Typed

LEMMA InitTaskTyped == Init => TaskTyped
  BY DEF Init, TaskTyped

LEMMA NextTyped == Typed /\ TaskTyped /\ [Next]_vars => Typed' /\ TaskTyped'
  <1> SUFFICES ASSUME Typed, TaskTyped, [Next]_vars PROVE Typed'
    BY TaskKeepsType
  <1>1. CASE UNCHANGED vars
    BY <1>1 DEF vars, Typed, PageTyped, ServerTyped, CallsTyped, RoomKept, Creating
  <1> QED
    BY <1>1, UserTyped, EffectsTyped, ServeTyped, AnswerTyped DEF Next

(* The page, its calls and the backend keep their types: the items of a plan  *)
(* through every edit, every save (legacyApiAdapter.ts:405-432) and back, the *)
(* ids of the plans created meanwhile, and the times the schedule writes.     *)
THEOREM PlansTyped == Spec => []TypeOK
  <1>1. Typed /\ TaskTyped => TypeOK
    <2> SUFFICES ASSUME Typed, TaskTyped PROVE TypeOK
      OBVIOUS
    <2>1. Len(plan) <= 1 /\ (plan # <<>> => plan[1].id \in 0..MaxPlans /\ plan[1].items \in Items)
      <3>1. CASE plan = <<>>
        BY <3>1
      <3>2. CASE plan # <<>>
        <4>1. PICK view : plan = <<view>>
          BY <3>2, PlanFacts DEF Typed
        <4>2. Len(plan) = 1
          BY <4>1
        <4> QED
          BY <3>2, <4>2, PlanFacts DEF Typed
      <3> QED
        BY <3>1, <3>2
    <2>2. \A items \in Items : IsItems(items)
      BY DEF Items, IsItems, GoodItem
    <2>3. \A id : Exists(id) => IsItems(server[id][1])
      BY <2>2, ServerFacts DEF Typed
    <2>4. \A c \in calls : IsCall(c)
      <3>1. \A c \in Calls : /\ c.op \in {"save", "create", "delete", "open", "public"}
                             /\ c.at \in {"opening", "sent", "done", "failed", "listing"}
                             /\ c.id \in 0..MaxPlans /\ c.items \in Items
        BY DEF Calls
      <3> QED
        BY <2>2, <3>1 DEF Typed, CallsTyped, IsCall
    <2>5. Len(server) <= MaxPlans
      <3>1. Creating \in SUBSET calls /\ IsFiniteSet(calls)
        BY DEF Creating, Typed, CallsTyped
      <3>2. Cardinality(Creating) \in Nat /\ Len(server) \in Nat /\ MaxPlans \in Nat
        BY <3>1, FS_Subset, FS_CardinalityType, ServerFacts, PlanAssumption DEF Typed
      <3> QED
        BY <3>2 DEF Typed, RoomKept
    <2>6. /\ Len(retimed) <= 1
          /\ retimed # <<>> => retimed[1].id \in 0..MaxPlans /\ retimed[1].items \in Items
      <3>1. CASE retimed = <<>>
        BY <3>1
      <3>2. CASE retimed # <<>>
        <4>1. PICK view \in PlanView : retimed = <<view>>
          BY <3>2 DEF TaskTyped
        <4> QED
          BY <4>1 DEF PlanView
      <3> QED
        BY <3>1, <3>2
    <2> QED
      BY <2>1, <2>2, <2>3, <2>4, <2>5, <2>6 DEF TypeOK, Typed, PageTyped, CallsTyped
  <1> QED
    BY <1>1, InitTyped, InitTaskTyped, NextTyped, PTL DEF Spec

-----------------------------------------------------------------------------
(* What the user wanted of a plan. *)

\* The plan shown, and every save of one, has the items of the last edit.
ShownWanted == plan # <<>> /\ plan[1].id \notin racing =>
                   TagsOf(plan[1].items) = wanted[plan[1].id]
SavesWanted == \A c \in calls : c.op = "save" /\ c.id \notin racing =>
                   TagsOf(c.items) = wanted[c.id]

\* A recruitment's plan comes once, and is not edited or saved before.
PublicFirst ==
    /\ (url = "public" \/ \E c \in calls : c.op = "public") =>
           /\ ~Shows(PublicId) /\ ~Waiting(PublicId)
           /\ \A c \in calls : c.op = "save" => c.id # PublicId
    /\ \A c, d \in calls : c.op = "public" => /\ url # "public"
                                              /\ (d.op = "public" => d = c)

\* So has what the task waits to write.
TaskWanted == retimed # <<>> /\ retimed[1].id \notin racing =>
                  TagsOf(retimed[1].items) = wanted[retimed[1].id]

TagsHold == /\ DOMAIN wanted = 0..MaxPlans
            /\ ShownWanted /\ SavesWanted /\ PublicFirst

\* An edit says what is wanted, and a save under way races it.
LEMMA EditTags ==
  ASSUME Typed, TagsHold, plan # <<>>, NEW items \in Seq(GoodItem), Edit(items),
         schedule' \in {schedule, NoSchedule}
  PROVE  TagsHold'
  <1>1. PICK id \in 0..MaxPlans : id = plan[1].id
    BY PlanFacts DEF Typed
  <1>2. /\ plan' # <<>> /\ plan'[1].id = id /\ plan'[1].items = items
    BY <1>1, EditTyped
  <1>3. /\ wanted' = [wanted EXCEPT ![id] = TagsOf(items)]
        /\ racing' = (IF Saving(id) THEN racing \cup {id} ELSE racing \ {id})
        /\ UNCHANGED <<calls, url>> /\ retimed' = <<>>
    BY <1>1 DEF Edit
  <1>4. /\ DOMAIN wanted' = 0..MaxPlans /\ wanted'[id] = TagsOf(items)
        /\ \A n : n # id => wanted'[n] = wanted[n] /\ (n \in racing' <=> n \in racing)
    <2>1. DOMAIN wanted = 0..MaxPlans
      BY DEF TagsHold
    <2>2. wanted' = [n \in 0..MaxPlans |-> IF n = id THEN TagsOf(items) ELSE wanted[n]]
      BY <1>3, <2>1
    <2>3. \A n : n # id => (n \in racing' <=> n \in racing)
      BY <1>3
    <2>4. \A n : n # id => wanted'[n] = wanted[n]
      BY <1>3, <2>1
    <2> QED
      BY <2>2, <2>3, <2>4
  <1>5. ShownWanted'
    BY <1>2, <1>4 DEF ShownWanted
  <1>6. SavesWanted'
    <2> SUFFICES ASSUME NEW c \in calls, c.op = "save", c.id \notin racing'
                 PROVE  TagsOf(c.items) = wanted'[c.id]
      BY <1>3 DEF SavesWanted
    <2>1. c.id # id
      BY <1>3 DEF Saving
    <2> QED
      BY <1>4, <2>1 DEF TagsHold, SavesWanted
  <1>7. PublicFirst'
    BY <1>1, <1>2, <1>3 DEF TagsHold, PublicFirst, Shows, Waiting
  <1> QED
    BY <1>4, <1>5, <1>6, <1>7 DEF TagsHold

\* A call goes on or ends; a save keeps its plan and what it has of it.
LEMMA CallTags ==
  ASSUME TagsHold, NEW c \in calls, NEW d, d.op = c.op,
         d.op = "save" => d.id = c.id /\ TagsOf(d.items) = TagsOf(c.items),
         calls' \in {calls \ {c}, (calls \ {c}) \cup {d}},
         plan' \in {plan, <<>>}, UNCHANGED <<url, wanted, racing>>,
         retimed' \in {retimed, <<>>}
  PROVE  TagsHold'
  <1>1. \A e \in calls' : (e \in calls /\ e # c) \/ e = d
    OBVIOUS
  <1>2. DOMAIN wanted' = 0..MaxPlans /\ ShownWanted'
    BY DEF TagsHold, ShownWanted
  <1>3. SavesWanted'
    BY <1>1 DEF TagsHold, SavesWanted
  <1>4. PublicFirst'
    <2>1. Shows(PublicId)' => Shows(PublicId)
      BY DEF Shows
    <2> QED
      BY <1>1, <2>1 DEF TagsHold, PublicFirst, Waiting
  <1> QED
    BY <1>2, <1>3, <1>4 DEF TagsHold

\* A save is sent with the plan shown, and a recruitment's plan is asked for once.
LEMMA SentTags ==
  ASSUME TagsHold, NEW c, calls' = calls \cup {c},
         c.op = "save" => plan # <<>> /\ c.id = plan[1].id /\ c.items = plan[1].items,
         c.op = "public" => url = "public" /\ url' = "none",
         url' \in {url, "none"}, UNCHANGED <<plan, wanted, racing>>,
         retimed' \in {retimed, <<>>}
  PROVE  TagsHold'
  <1>1. \A e \in calls' : e \in calls \/ e = c
    OBVIOUS
  <1>2. DOMAIN wanted' = 0..MaxPlans /\ ShownWanted'
    BY DEF TagsHold, ShownWanted
  <1>3. SavesWanted'
    BY <1>1 DEF TagsHold, SavesWanted, ShownWanted
  <1>4. PublicFirst'
    BY <1>1 DEF TagsHold, PublicFirst, Shows, Waiting
  <1> QED
    BY <1>2, <1>3, <1>4 DEF TagsHold

\* The page shows the answer of a save.
LEMMA SavedTags ==
  ASSUME TagsHold, NEW c \in calls, c.op = "save",
         plan' = <<[id |-> c.id, items |-> c.items]>>, calls' = calls \ {c},
         UNCHANGED <<url, wanted, racing>>, retimed' \in {retimed, <<>>}
  PROVE  TagsHold'
  <1>1. plan' # <<>> /\ plan'[1].id = c.id /\ plan'[1].items = c.items
    OBVIOUS
  <1>2. ShownWanted' /\ SavesWanted'
    BY <1>1 DEF TagsHold, ShownWanted, SavesWanted
  <1>3. PublicFirst'
    BY <1>1 DEF TagsHold, PublicFirst, Shows, Waiting
  <1> QED
    BY <1>2, <1>3 DEF TagsHold

\* The page shows a plan it has not shown before, which no call saves.
LEMMA ArrivedTags ==
  ASSUME Inv, TagsHold, NEW c \in calls, c.op \in {"create", "open", "public"},
         c.at = "done", c.id \in 0..MaxPlans, NEW d, d.op = "create",
         plan' = <<[id |-> c.id, items |-> c.items]>>,
         calls' \in {calls \ {c}, (calls \ {c}) \cup {d}},
         wanted' = [wanted EXCEPT ![c.id] = TagsOf(c.items)],
         UNCHANGED <<url, racing>>, retimed' \in {retimed, <<>>}
  PROVE  TagsHold'
  <1>0. \A e \in calls' : (e \in calls /\ e # c) \/ e = d
    OBVIOUS
  <1>1. plan' # <<>> /\ plan'[1].id = c.id /\ plan'[1].items = c.items
    OBVIOUS
  <1>2. /\ DOMAIN wanted' = 0..MaxPlans /\ wanted'[c.id] = TagsOf(c.items)
        /\ \A n : n # c.id => wanted'[n] = wanted[n]
    BY DEF TagsHold
  <1>3. c.op = "public" => c.id = PublicId
    BY DEF Inv, KnownIds
  <1>4. c.op # "public" => c.id # PublicId /\ Arriving(c)
    BY PublicIsNoRow DEF Inv, KnownIds, Arriving
  <1>5. \A e \in calls : e.op = "save" => e.id # c.id
    <2>1. CASE c.op = "public"
      BY <1>3, <2>1 DEF TagsHold, PublicFirst, Waiting
    <2>2. CASE c.op # "public"
      BY <1>4, <2>2 DEF Inv, ArrivesNew, WriteCall
    <2> QED
      BY <2>1, <2>2
  <1>6. ShownWanted'
    BY <1>1, <1>2 DEF ShownWanted
  <1>7. SavesWanted'
    BY <1>0, <1>2, <1>5 DEF TagsHold, SavesWanted
  <1>8. PublicFirst'
    <2>1. Shows(PublicId)' => c.op = "public"
      BY <1>1, <1>4 DEF Shows
    <2> QED
      BY <1>0, <2>1 DEF TagsHold, PublicFirst, Waiting
  <1> QED
    BY <1>2, <1>6, <1>7, <1>8 DEF TagsHold

LEMMA UserTags == ASSUME Typed, TagsHold, UserNext PROVE TagsHold'
  <1>1. CASE \/ \E s \in Stations : AddStation(s)
             \/ \E p \in Places, s \in Stations : AddPlace(p, s)
             \/ \E i \in 1..MaxItems : RemoveItem(i) \/ ReorderItem(i)
                                       \/ SetPlaceTime(i) \/ ApplyDeparture(i)
             \/ Retitle
    BY <1>1, UserEdits, EditTags
  <1>2. ASSUME NEW s \in Stations, NEW withPlace \in BOOLEAN, CreatePlan(s, withPlace)
        PROVE  TagsHold'
    <2>1. PICK items : Send(NewCall("create", 0, items))
      BY <1>2 DEF CreatePlan
    <2>2. NewCall("create", 0, items).op = "create"
      BY DEF NewCall
    <2>3. UNCHANGED <<retimed, plan, url, wanted, racing>>
      BY <1>2 DEF CreatePlan, shown, history
    <2> QED
      BY <2>1, <2>2, <2>3, SentTags DEF Send
  <1>3. CASE DeletePlan
    <2>1. /\ Send(NewCall("delete", plan[1].id, <<>>))
          /\ UNCHANGED <<retimed, plan, url, wanted, racing>>
      BY <1>3 DEF DeletePlan, shown
    <2>2. NewCall("delete", plan[1].id, <<>>).op = "delete"
      BY DEF NewCall
    <2> QED
      BY <2>1, <2>2, SentTags DEF Send
  <1>4. CASE OpenPlanner
    BY <1>4 DEF OpenPlanner, history, TagsHold, ShownWanted, SavesWanted, PublicFirst, Shows, Waiting
  <1> QED
    BY <1>1, <1>2, <1>3, <1>4 DEF UserNext

LEMMA EffectsTags ==
  ASSUME Typed, TaskTyped, TagsHold, TaskWanted,
         \/ OpenAddress \/ OpenPublicPlan \/ Autosave
         \/ ScheduleChanges \/ ApplySchedule \/ WriteTimes
  PROVE  TagsHold'
  <1>1. CASE OpenAddress
    <2>1. PICK items : Send([NewCall(url, IF url = "open" THEN 1 ELSE 0, items)
                               EXCEPT !.at = "opening"])
      BY <1>1 DEF OpenAddress
    <2>2. PICK c : c = [NewCall(url, IF url = "open" THEN 1 ELSE 0, items)
                          EXCEPT !.at = "opening"]
      OBVIOUS
    <2>3. c.op = url
      BY <2>2 DEF NewCall
    <2>4. /\ url \in {"open", "create"} /\ url' = "none" /\ calls' = calls \cup {c}
          /\ UNCHANGED <<retimed, plan, wanted, racing>>
      BY <1>1, <2>1, <2>2 DEF OpenAddress, Send, history
    <2> QED
      BY <2>3, <2>4, SentTags
  <1>2. CASE OpenPublicPlan
    <2>1. /\ Send(NewCall("public", PublicId, <<>>)) /\ url = "public" /\ url' = "none"
          /\ UNCHANGED <<retimed, plan, wanted, racing>>
      BY <1>2 DEF OpenPublicPlan, shown, history
    <2>2. NewCall("public", PublicId, <<>>).op = "public"
      BY DEF NewCall
    <2> QED
      BY <2>1, <2>2, SentTags DEF Send
  <1>3. CASE ScheduleChanges \/ ApplySchedule
    <2>1. UNCHANGED <<plan, calls, url, wanted, racing>>
      BY <1>3 DEF ScheduleChanges, ApplySchedule, shown, history
    <2>2. (DOMAIN wanted = 0..MaxPlans)' /\ ShownWanted' /\ SavesWanted'
      BY <2>1 DEF TagsHold, ShownWanted, SavesWanted
    <2>3. Waiting(PublicId)' => Waiting(PublicId) \/ Shows(PublicId)
      <3>1. CASE retimed' = retimed
        BY <3>1 DEF Waiting
      <3>2. CASE ApplySchedule /\ retimed' # <<>>
        BY <3>2, TaskIsPlan DEF Waiting, Shows
      <3>3. CASE retimed' = <<>>
        BY <3>3 DEF Waiting
      <3> QED
        BY <1>3, <3>1, <3>2, <3>3 DEF ScheduleChanges
    <2>4. PublicFirst'
      <3>1. Shows(PublicId)' <=> Shows(PublicId)
        BY <2>1 DEF Shows
      <3> QED
        BY <2>1, <2>3, <3>1 DEF TagsHold, PublicFirst
    <2> QED
      BY <2>2, <2>4 DEF TagsHold
  <1>4. CASE WriteTimes
    <2>1. retimed # <<>> /\ retimed' = <<>> /\ plan' = retimed /\ UNCHANGED <<calls, url, wanted, racing>>
      BY <1>4 DEF WriteTimes, history
    <2>2. ShownWanted'
      BY <2>1 DEF TaskWanted, ShownWanted
    <2>3. PublicFirst'
      <3>1. ~Waiting(PublicId)' /\ (Shows(PublicId)' => Waiting(PublicId))
        BY <2>1 DEF Shows, Waiting
      <3> QED
        BY <2>1, <3>1 DEF TagsHold, PublicFirst
    <2> QED
      BY <2>1, <2>2, <2>3 DEF TagsHold, SavesWanted
  <1>5. CASE Autosave
    <2>1. /\ plan # <<>> /\ Send(NewCall("save", plan[1].id, plan[1].items))
          /\ UNCHANGED <<retimed, plan, url, wanted, racing>>
      BY <1>5 DEF Autosave, shown
    <2>2. PICK c : c = NewCall("save", plan[1].id, plan[1].items)
      OBVIOUS
    <2>3. c.op = "save" /\ c.id = plan[1].id /\ c.items = plan[1].items
      BY <2>2 DEF NewCall
    <2> QED
      BY <2>1, <2>2, <2>3, SentTags DEF Send
  <1> QED
    BY <1>1, <1>2, <1>3, <1>4, <1>5

\* The backend, and a proxy that fails, keep what a save has of a plan.
LEMMA ServeTags ==
  ASSUME Typed, TagsHold, NEW c \in calls, Serve(c) PROVE TagsHold'
  <1>0. c \in Calls /\ c.items \in Items /\ rows \in Nat
    BY DEF Typed, CallsTyped, Calls, ServerTyped
  <1>1. UNCHANGED <<retimed, plan, url, wanted, racing>>
    BY DEF Serve, ServeSave, ServeCreate, ServeDelete, ServeOpen, shown, history
  <1>2. CASE \E at \in {"done", "failed"} : Becomes(c, at)
    <2>1. PICK at \in {"done", "failed"} : Becomes(c, at)
      BY <1>2
    <2>2. PICK d : d = [c EXCEPT !.at = at]
      OBVIOUS
    <2>3. d.op = c.op /\ d.id = c.id /\ d.items = c.items
      BY <1>0, <2>2 DEF Calls
    <2>4. calls' = (calls \ {c}) \cup {d}
      BY <2>1, <2>2 DEF Becomes
    <2> QED
      BY <1>1, <2>3, <2>4, CallTags
  <1>3. CASE c.op = "save" /\ ServeSave(c)
             /\ Exists(c.id) /\ Acceptable(c.items, RowsOf(server[c.id][1]))
    <2>1. /\ rows + NewRows(c.items) <= MaxRows
          /\ calls' = (calls \ {c}) \cup {[c EXCEPT !.at = "done", !.items = Stored(c.items)]}
      BY <1>3 DEF ServeSave, Acceptable
    <2>2. PICK items \in Items : items = Stored(c.items) /\ TagsOf(items) = TagsOf(c.items)
      BY <1>0, <2>1, StoredItems
    <2>3. PICK d : d = [c EXCEPT !.at = "done", !.items = items]
      OBVIOUS
    <2>4. d.op = c.op /\ d.id = c.id /\ d.items = items
      BY <1>0, <2>2, <2>3 DEF Calls
    <2>5. calls' = (calls \ {c}) \cup {d}
      BY <2>1, <2>2, <2>3
    <2> QED
      BY <1>1, <2>2, <2>4, <2>5, CallTags
  <1>4. CASE c.op # "save" /\ \E id, items : calls' = (calls \ {c}) \cup
                {[c EXCEPT !.at = "done", !.id = id, !.items = items]}
    <2>1. PICK id, items : calls' = (calls \ {c}) \cup
                {[c EXCEPT !.at = "done", !.id = id, !.items = items]}
      BY <1>4
    <2>2. PICK d : d = [c EXCEPT !.at = "done", !.id = id, !.items = items]
      OBVIOUS
    <2>3. d.op = c.op
      BY <1>0, <2>2 DEF Calls
    <2>4. calls' = (calls \ {c}) \cup {d}
      BY <2>1, <2>2
    <2> QED
      BY <1>1, <1>4, <2>3, <2>4, CallTags
  <1>5. CASE c.op # "save" /\ \E items : calls' = (calls \ {c}) \cup
                {[c EXCEPT !.at = "done", !.items = items]}
    <2>1. PICK items : calls' = (calls \ {c}) \cup
                {[c EXCEPT !.at = "done", !.items = items]}
      BY <1>5
    <2>2. PICK d : d = [c EXCEPT !.at = "done", !.items = items]
      OBVIOUS
    <2>3. d.op = c.op
      BY <1>0, <2>2 DEF Calls
    <2>4. calls' = (calls \ {c}) \cup {d}
      BY <2>1, <2>2
    <2> QED
      BY <1>1, <1>5, <2>3, <2>4, CallTags
  <1> QED
    <2>1. CASE ServeSave(c)
      BY <1>2, <1>3, <2>1 DEF ServeSave
    <2>2. CASE ServeCreate(c)
      <3>1. CASE Acceptable(c.items, {})
        BY <1>4, <2>2, <3>1 DEF ServeCreate
      <3>2. CASE ~Acceptable(c.items, {})
        BY <1>2, <2>2, <3>2 DEF ServeCreate
      <3> QED
        BY <3>1, <3>2
    <2>3. CASE ServeDelete(c)
      BY <1>2, <2>3 DEF ServeDelete
    <2>4. CASE ServeOpen(c)
      BY <1>2, <1>5, <2>4 DEF ServeOpen
    <2> QED
      BY <2>1, <2>2, <2>3, <2>4 DEF Serve

LEMMA AnswerTags ==
  ASSUME Inv, Typed, TagsHold, NEW c \in calls, Answered(c) \/ CallFails(c) \/ CallThrows(c)
  PROVE  TagsHold'
  <1>0. c \in Calls /\ c.id \in 0..MaxPlans
    BY DEF Typed, CallsTyped, Calls
  <1>1. ASSUME NEW at, Becomes(c, at), UNCHANGED <<retimed, plan, url, wanted, racing>>
        PROVE  TagsHold'
    <2>1. PICK d : d = [c EXCEPT !.at = at]
      OBVIOUS
    <2>2. d.op = c.op /\ d.id = c.id /\ d.items = c.items
      BY <1>0, <2>1 DEF Calls
    <2>3. calls' = (calls \ {c}) \cup {d}
      BY <1>1, <2>1 DEF Becomes
    <2> QED
      BY <1>1, <2>2, <2>3, CallTags
  <1>2. ASSUME calls' = calls \ {c}, plan' \in {plan, <<>>},
               UNCHANGED <<retimed, url, wanted, racing>>
        PROVE  TagsHold'
    BY <1>2, CallTags
  <1>3. CASE PlannerOpened(c) \/ CallFails(c)
    BY <1>1, <1>3 DEF PlannerOpened, CallFails, shown, history
  <1>4. CASE CreateListed(c) \/ DeleteAnswered(c) \/ FailureAnswered(c) \/ CallThrows(c)
    BY <1>2, <1>4 DEF CreateListed, DeleteAnswered, FailureAnswered, CallThrows, shown, history
  <1>5. CASE SaveAnswered(c)
    BY <1>5, SavedTags DEF SaveAnswered, history
  <1>6. CASE CreateAnswered(c)
    <2>1. PICK d : d = [c EXCEPT !.at = "listing"]
      OBVIOUS
    <2>2. d.op = "create" /\ calls' = (calls \ {c}) \cup {d}
      BY <1>0, <1>6, <2>1 DEF CreateAnswered, Becomes, Calls
    <2> QED
      BY <1>0, <1>6, <2>2, ArrivedTags DEF CreateAnswered
  <1>7. CASE OpenAnswered(c)
    <2>1. PICK d : d = NewCall("create", 0, <<>>)
      OBVIOUS
    <2>2. d.op = "create"
      BY <2>1 DEF NewCall
    <2> QED
      BY <1>0, <1>7, <2>2, ArrivedTags DEF OpenAnswered
  <1> QED
    BY <1>3, <1>4, <1>5, <1>6, <1>7 DEF Answered

LEMMA InitTags == Init => TagsHold /\ TaskWanted
  BY DEF Init, TagsHold, ShownWanted, SavesWanted, PublicFirst, Shows, TaskWanted, Waiting

\* What is wanted of the plan that the task waits to write does not change:
\* an edit clears the task, and a plan that is opened or created is another.
LEMMA WaitingWanted ==
  ASSUME Inv, TaskHolds, Typed, TagsHold, TaskWanted, [Next]_vars,
         retimed' = retimed, retimed # <<>>, ~ApplySchedule
  PROVE  /\ wanted'[retimed[1].id] = wanted[retimed[1].id]
         /\ retimed[1].id \in racing' <=> retimed[1].id \in racing
  <1>1. CASE UNCHANGED <<wanted, racing>>
    BY <1>1
  <1>2. ASSUME NEW c \in calls, CreateAnswered(c) \/ OpenAnswered(c)
        PROVE  wanted'[retimed[1].id] = wanted[retimed[1].id] /\ racing' = racing
    <2>1. /\ wanted' = [wanted EXCEPT ![c.id] = TagsOf(c.items)] /\ racing' = racing
          /\ c.op \in {"create", "open", "public"} /\ c.at = "done"
      BY <1>2 DEF CreateAnswered, OpenAnswered
    <2>2. CASE c.op = "public"
      <3>1. c.id = PublicId /\ ~Waiting(PublicId)
        BY <2>2 DEF Inv, KnownIds, TagsHold, PublicFirst
      <3> QED
        BY <2>1, <3>1 DEF TagsHold, Waiting
    <2>3. CASE c.op # "public"
      <3>1. ~Waiting(c.id)
        BY <2>1, <2>3 DEF TaskHolds, Arriving
      <3> QED
        BY <2>1, <3>1 DEF TagsHold, Waiting
    <2> QED
      BY <2>1, <2>2, <2>3
  <1>3. ASSUME NEW items, Edit(items) PROVE FALSE
    BY <1>3 DEF Edit
  <1>4. CASE UserNext
    <2>1. CASE \/ \E s \in Stations : AddStation(s)
               \/ \E p \in Places, s \in Stations : AddPlace(p, s)
               \/ \E i \in 1..MaxItems : RemoveItem(i) \/ ReorderItem(i)
                                         \/ SetPlaceTime(i) \/ ApplyDeparture(i)
               \/ Retitle
      <3>1. \E items : Edit(items)
        BY <2>1 DEF AddStation, AddPlace, RemoveItem, ReorderItem, SetPlaceTime,
           ApplyDeparture, Retitle
      <3> QED
        BY <1>3, <3>1
    <2>2. CASE (\E s \in Stations, withPlace \in BOOLEAN : CreatePlan(s, withPlace))
               \/ DeletePlan \/ OpenPlanner
      BY <1>1, <2>2 DEF CreatePlan, DeletePlan, OpenPlanner, history
    <2> QED
      BY <1>4, <2>1, <2>2 DEF UserNext
  <1>5. CASE OpenAddress \/ OpenPublicPlan \/ ScheduleChanges \/ WriteTimes \/ Autosave
    BY <1>1, <1>5 DEF OpenAddress, OpenPublicPlan, ScheduleChanges, WriteTimes, Autosave,
       history
  <1>6. ASSUME NEW c \in calls, Serve(c) \/ Answered(c) \/ CallFails(c) \/ CallThrows(c),
               ~(CreateAnswered(c) \/ OpenAnswered(c))
        PROVE  UNCHANGED <<wanted, racing>>
    BY <1>6 DEF Serve, ServeSave, ServeCreate, ServeDelete, ServeOpen, Answered,
       PlannerOpened, SaveAnswered, CreateListed, DeleteAnswered, FailureAnswered,
       CallFails, CallThrows, history
  <1>7. CASE UNCHANGED vars
    BY <1>1, <1>7 DEF vars
  <1> QED
    BY <1>1, <1>2, <1>4, <1>5, <1>6, <1>7 DEF Next

LEMMA NextTags ==
  Inv /\ TaskHolds /\ Typed /\ TaskTyped /\ TagsHold /\ TaskWanted /\ [Next]_vars
      => TagsHold' /\ TaskWanted'
  <1> SUFFICES ASSUME Inv, TaskHolds, Typed, TaskTyped, TagsHold, TaskWanted, [Next]_vars
               PROVE  TagsHold' /\ TaskWanted'
    OBVIOUS
  <1>1. TagsHold'
    <2>1. CASE UNCHANGED vars
      BY <2>1 DEF vars, TagsHold, ShownWanted, SavesWanted, PublicFirst, Shows, Waiting
    <2> QED
      BY <2>1, UserTags, EffectsTags, ServeTags, AnswerTags DEF Next
  <1>2. TaskWanted'
    <2>1. CASE retimed' = <<>>
      BY <2>1 DEF TaskWanted
    <2>2. CASE retimed' # <<>> /\ ApplySchedule
      <3>1. /\ plan # <<>> /\ retimed'[1].id = plan[1].id
            /\ TagsOf(retimed'[1].items) = TagsOf(plan[1].items)
        BY <2>2, TaskIsPlan
      <3>2. UNCHANGED <<wanted, racing>>
        BY <2>2 DEF ApplySchedule, history
      <3> QED
        BY <3>1, <3>2 DEF TagsHold, ShownWanted, TaskWanted
    <2>3. CASE retimed' = retimed /\ retimed # <<>> /\ ~ApplySchedule
      BY <2>3, WaitingWanted DEF TaskWanted
    <2> QED
      BY <2>1, <2>2, <2>3, TaskOnly
  <1> QED
    BY <1>1, <1>2

(* What the user made of a plan is what the page shows, item by item and in   *)
(* order, through every save, its rewriting (legacyApiAdapter.ts:405-432) and *)
(* its answer: only an edit made while a save of the plan was in flight can   *)
(* be lost to that save's answer (page.tsx:547).                              *)
THEOREM EditsKept == Spec => []EditsLostOnlyDuringSave
  <1>1. TagsHold => EditsLostOnlyDuringSave
    BY DEF TagsHold, ShownWanted, EditsLostOnlyDuringSave
  <1> DEFINE All == Inv /\ TaskHolds /\ Typed /\ TaskTyped /\ TagsHold /\ TaskWanted
  <1>2. Init => All
    BY InitInv, InitTask, InitTyped, InitTaskTyped, InitTags
  <1>3. All /\ [Next]_vars => All'
    BY NextInv, NextTyped, NextTags
  <1>4. All => EditsLostOnlyDuringSave
    BY <1>1
  <1> HIDE DEF All
  <1> QED
    BY <1>2, <1>3, <1>4, PTL DEF Spec

=============================================================================
