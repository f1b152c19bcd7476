------------------------------ MODULE LineMap -------------------------------
(***************************************************************************)
(* The map of the lines that the browser puts together from the station    *)
(* lists of the backend (frontend/src/lib/subwayLineMap.ts), and the       *)
(* search for a way on it (findTopologicalPath of                          *)
(* src/lib/transitTimetable.ts).  A `lists` argument gives the stations    *)
(* of each line of the database, none for a line whose request failed.     *)
(***************************************************************************)
EXTENDS Integers, Sequences, FiniteSets, SequencesExt

CONSTANTS Stations,
          Real,        \* LINE_ID_TO_REAL: what a line of the database is called
          LoopLine     \* the line whose last station is next to its first

Lines == DOMAIN Real

ASSUME LineMapAssumption ==
    /\ Real \in Seq(Range(Real)) /\ LoopLine \in Lines
    /\ IsFiniteSet(Stations)

(* rawLineIds of a station, and the stations in the order of the map *)
LinesAt(lists, s) == {l \in Lines : s \in Range(lists[l])}

Known(lists) == UNION {Range(lists[l]) : l \in Lines}

(* addStation: a station keeps the place it was first added at *)
Rank(lists, s) ==
    LET all == FlattenSeq(lists)
    IN  CHOOSE i \in DOMAIN all : all[i] = s /\ \A j \in 1..(i - 1) : all[j] # s

Edge(s, t, line) == [from |-> s, to |-> t, line |-> line]

(* addEdges for each line, and the edge that closes the loop *)
Edges(lists) ==
    LET along(l) == IF lists[l] = <<>> THEN <<>>
                    ELSE [i \in 1..(Len(lists[l]) - 1) |->
                            Edge(lists[l][i], lists[l][i + 1], Real[l])]
        loop == lists[LoopLine]
    IN  FlattenSeq([l \in Lines |-> along(l)]) \o
        (IF Len(loop) > 1 THEN <<Edge(Last(loop), Head(loop), Real[LoopLine])>>
         ELSE <<>>)

(* An edge may be ridden either way. *)
Ways(lists) ==
    LET edges == Edges(lists)
    IN  FlattenSeq([i \in DOMAIN edges |->
            <<edges[i], Edge(edges[i].to, edges[i].from, edges[i].line)>>])

-----------------------------------------------------------------------------
(* The search, breadth first: queue, and the edges by which it has come to   *)
(* the stations it has visited.                                              *)

Reached(search, from) == {from} \cup {e.to : e \in Range(search.came)}

(* Mutant: the queue is a stack. *)
VisitDepthFirst(from, search, e) ==
    IF e.to \in Reached(search, from) THEN search
    ELSE [queue |-> <<e.to>> \o search.queue, came |-> Append(search.came, e)]

Visit(from, search, e) ==
    IF e.to \in Reached(search, from) THEN search
    ELSE [queue |-> Append(search.queue, e.to), came |-> Append(search.came, e)]

(* One pass of the loop, unless it is over: the ways from the head of the
   queue, in their order *)
Look(ways, from, to, search) ==
    LET head == Head(search.queue)
        visited[n \in 0..Len(ways)] ==
            IF n = 0 THEN [queue |-> Tail(search.queue), came |-> search.came]
            ELSE LET before == visited[n - 1]
                 IN  IF ways[n].from = head THEN Visit(from, before, ways[n]) ELSE before
    IN  IF search.queue = <<>> \/ head = to THEN search ELSE visited[Len(ways)]

(* The loop has no more passes than there are stations. *)
Search(lists, from, to) ==
    LET ways == Ways(lists)
        passes[n \in 0..Cardinality(Stations)] ==
            IF n = 0 THEN [queue |-> <<from>>, came |-> <<>>]
            ELSE LET before == passes[n - 1] IN Look(ways, from, to, before)
    IN  passes[Cardinality(Stations)]

CameTo(search, s) == CHOOSE e \in Range(search.came) : e.to = s

(* The edges from one station to another, back from where the cursor is; none
   if there is no way *)
FindPath(lists, from, to) ==
    LET search == Search(lists, from, to)
        back[n \in 0..Len(search.came)] ==
            IF n = 0 THEN <<>>
            ELSE LET path == back[n - 1]
                     cursor == IF path = <<>> THEN to ELSE Head(path).from
                 IN  IF cursor = from THEN path
                     ELSE <<CameTo(search, cursor)>> \o path
    IN  IF to \in Reached(search, from) THEN back[Len(search.came)] ELSE <<>>
=============================================================================
