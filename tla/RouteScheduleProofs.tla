------------------------- MODULE RouteScheduleProofs ------------------------
(***************************************************************************)
(* Proofs about RouteSchedule, for any lines, timetables and routes.       *)
(***************************************************************************)
EXTENDS RouteSchedule, FiniteSetTheorems, TLAPS

(* Loops.                                                                    *)

\* Of any numbers one is the least ...
LEMMA LeastOf ==
  ASSUME NEW N \in SUBSET Nat, N # {}
  PROVE  \E m \in N : \A n \in N : m <= n
  <1> DEFINE T == {0..n : n \in N}
  <1>1. T \subseteq FiniteSubsetsOf(Nat) /\ T # {}
    <2>1. \A n \in N : 0..n \subseteq Nat /\ IsFiniteSet(0..n)
      BY FS_Interval
    <2> QED
      BY <2>1 DEF FiniteSubsetsOf
  <1>2. \E x \in T : \A y \in T : <<y, x>> \notin StrictSubsetOrdering(Nat)
    <2> HIDE DEF T
    <2> QED
      BY <1>1, FS_StrictSubsetOrderingWellFounded, WFMin
  <1>3. PICK m \in N : \A n \in N : <<0..n, 0..m>> \notin StrictSubsetOrdering(Nat)
    BY <1>2
  <1>4. ASSUME NEW n \in N, n < m PROVE FALSE
    <2>1. 0..n \subseteq 0..m /\ 0..n \subseteq Nat /\ 0..m \subseteq Nat
      BY <1>4
    <2>2. m \in 0..m /\ m \notin 0..n
      BY <1>4
    <2> QED
      BY <2>1, <2>2, <1>3 DEF StrictSubsetOrdering
  <1> QED
    BY <1>3, <1>4

\* ... so what holds at 0 and from one number to the next holds up to any.
LEMMA IntervalInduction ==
  ASSUME NEW n \in Nat, NEW I,
         0 \in I, \A i \in 1..n : i - 1 \in I => i \in I
  PROVE  0..n \subseteq I
  <1> DEFINE Out == {i \in 0..n : i \notin I}
  <1> SUFFICES ASSUME Out # {} PROVE FALSE
    OBVIOUS
  <1>1. PICK m \in Out : \A i \in Out : m <= i
    <2>1. Out \in SUBSET Nat
      OBVIOUS
    <2> HIDE DEF Out
    <2> QED
      BY <2>1, LeastOf
  <1>2. m \in 1..n /\ m - 1 \notin Out
    BY <1>1
  <1> QED
    BY <1>2

\* f is the loop that starts with `first` and takes these steps.
Loop(f, n, first, step) == f[0] = first /\ \A i \in 1..n : f[i] = step[i][f[i - 1]]

\* There is one, for any steps.
LEMMA LoopRuns ==
  ASSUME NEW n \in Nat, NEW S, NEW first \in S, NEW step \in [1..n -> [S -> S]]
  PROVE  \E f \in [0..n -> S] : Loop(f, n, first, step)
  <1> DEFINE I == {m \in 0..n : \E f \in [0..m -> S] : Loop(f, m, first, step)}
  <1>1. 0 \in I
    <2> DEFINE f == [i \in 0..0 |-> first]
    <2>1. f \in [0..0 -> S] /\ f[0] = first
      OBVIOUS
    <2> HIDE DEF f
    <2>2. Loop(f, 0, first, step)
      BY <2>1 DEF Loop
    <2> QED
      BY <2>1, <2>2
  <1>2. ASSUME NEW m \in 1..n, m - 1 \in I PROVE m \in I
    <2>1. PICK f \in [0..(m - 1) -> S] : Loop(f, m - 1, first, step)
      BY <1>2
    <2> DEFINE g == [i \in 0..m |-> IF i = m THEN step[m][f[m - 1]] ELSE f[i]]
    <2>2. \A i \in 0..m : g[i] = IF i = m THEN step[m][f[m - 1]] ELSE f[i]
      OBVIOUS
    <2>3. g \in [0..m -> S]
      <3>1. step[m][f[m - 1]] \in S
        OBVIOUS
      <3>2. \A i \in 0..m : i # m => f[i] \in S
        OBVIOUS
      <3> QED
        BY <3>1, <3>2
    <2> HIDE DEF g
    <2>4. g[0] = first
      BY <2>1, <2>2 DEF Loop
    <2>5. ASSUME NEW i \in 1..m PROVE g[i] = step[i][g[i - 1]]
      <3>1. g[i - 1] = f[i - 1]
        BY <2>2
      <3>2. CASE i = m
        BY <3>1, <3>2, <2>2
      <3>3. CASE i # m
        <4>1. i \in 1..(m - 1)
          BY <3>3
        <4> QED
          BY <3>1, <3>3, <4>1, <2>1, <2>2 DEF Loop
      <3> QED
        BY <3>2, <3>3
    <2>6. Loop(g, m, first, step)
      BY <2>4, <2>5 DEF Loop
    <2> QED
      BY <2>3, <2>6
  <1> HIDE DEF I
  <1>3. 0..n \subseteq I
    BY <1>1, <1>2, IntervalInduction
  <1> QED
    BY <1>3 DEF I

\* A function on 1..n is a sequence of n things.
LEMMA FunctionIsSequence ==
  ASSUME NEW S, NEW n \in Nat, NEW r \in [1..n -> S]
  PROVE  r \in Seq(S) /\ Len(r) = n
  OBVIOUS

\* A length is a number.
LEMMA LenIsNat == ASSUME NEW S, NEW r \in Seq(S) PROVE Len(r) \in Nat
  OBVIOUS

-----------------------------------------------------------------------------
(* The sequences of a sequence, one after the other. *)

\* What is in a sequence.
LEMMA RangeIs ==
  ASSUME NEW S, NEW r \in Seq(S)
  PROVE  /\ Range(r) \subseteq S
         /\ \A k \in 1..Len(r) : r[k] \in Range(r)
         /\ \A x \in Range(r) : \E k \in 1..Len(r) : r[k] = x
  BY DEF Range

\* Two sequences, one after the other, have what each of them has.
LEMMA JoinedRange ==
  ASSUME NEW S, NEW r \in Seq(S), NEW t \in Seq(S)
  PROVE  r \o t \in Seq(S) /\ Range(r \o t) = Range(r) \cup Range(t)
  <1>1. r \o t \in Seq(S) /\ Len(r \o t) = Len(r) + Len(t)
    OBVIOUS
  <1>2. \A k \in 1..Len(r) : k \in 1..Len(r \o t) /\ (r \o t)[k] = r[k]
    OBVIOUS
  <1>3. \A k \in 1..Len(t) : Len(r) + k \in 1..Len(r \o t) /\ (r \o t)[Len(r) + k] = t[k]
    OBVIOUS
  <1>4. ASSUME NEW k \in 1..Len(r \o t)
        PROVE  \/ k \in 1..Len(r) /\ (r \o t)[k] = r[k]
               \/ k - Len(r) \in 1..Len(t) /\ (r \o t)[k] = t[k - Len(r)]
    BY <1>1
  <1>5. ASSUME NEW x \in Range(r \o t) PROVE x \in Range(r) \cup Range(t)
    <2>1. PICK k \in 1..Len(r \o t) : (r \o t)[k] = x
      BY <1>1, RangeIs
    <2> QED
      BY <1>4, <2>1, RangeIs
  <1>6. ASSUME NEW x \in Range(r) PROVE x \in Range(r \o t)
    <2>1. PICK k \in 1..Len(r) : r[k] = x
      BY RangeIs
    <2> QED
      BY <1>1, <1>2, <2>1, RangeIs
  <1>7. ASSUME NEW x \in Range(t) PROVE x \in Range(r \o t)
    <2>1. PICK k \in 1..Len(t) : t[k] = x
      BY RangeIs
    <2> QED
      BY <1>1, <1>3, <2>1, RangeIs
  <1> QED
    BY <1>1, <1>5, <1>6, <1>7

\* FlattenSeq is a loop ...
LEMMA FlattenLoops ==
  ASSUME NEW S, NEW seqs \in Seq(Seq(S))
  PROVE  \E f \in [0..Len(seqs) -> Seq(S)] :
            /\ f[0] = <<>>
            /\ \A i \in 1..Len(seqs) : f[i] = f[i - 1] \o seqs[i]
            /\ FlattenSeq(seqs) = f[Len(seqs)]
  <1> DEFINE N == Len(seqs)
             step == [i \in 1..N |-> [r \in Seq(S) |-> r \o seqs[i]]]
             Flattens(h) == h = [i \in 1..N |-> IF i = 1 THEN seqs[i] ELSE h[i - 1] \o seqs[i]]
  <1>0. N \in Nat
    OBVIOUS
  <1>1. step \in [1..N -> [Seq(S) -> Seq(S)]]
    OBVIOUS
  <1>2. PICK f \in [0..N -> Seq(S)] : Loop(f, N, <<>>, step)
    <2>1. <<>> \in Seq(S)
      OBVIOUS
    <2> HIDE DEF step, N
    <2> QED
      BY <1>0, <1>1, <2>1, LoopRuns
  <1>3. f[0] = <<>> /\ \A i \in 1..N : f[i] = f[i - 1] \o seqs[i]
    <2>1. f[0] = <<>> /\ \A i \in 1..N : f[i] = step[i][f[i - 1]]
      <3> HIDE DEF step
      <3> QED
        BY <1>2 DEF Loop
    <2>2. \A i \in 1..N : f[i - 1] \in Seq(S)
      OBVIOUS
    <2> QED
      BY <2>1, <2>2
  <1>4. CASE N = 0
    BY <1>3, <1>4 DEF FlattenSeq
  <1>6. ASSUME 1 \in 1..N PROVE f[1] = seqs[1]
    <2>1. seqs[1] \in Seq(S)
      BY <1>6
    <2>2. f[1] = f[1 - 1] \o seqs[1]
      BY <1>3, <1>6, Zenon
    <2>3. f[1 - 1] = <<>>
      BY <1>3
    <2>4. <<>> \o seqs[1] = seqs[1]
      BY <2>1
    <2> QED
      BY <2>2, <2>3, <2>4, Zenon
  <1>5. CASE N # 0
    <2> DEFINE g == [i \in 1..N |-> f[i]]
               h == CHOOSE x : Flattens(x)
    <2>1. g = [i \in 1..N |-> IF i = 1 THEN seqs[i] ELSE g[i - 1] \o seqs[i]]
      <3>1. ASSUME NEW i \in 1..N
            PROVE  g[i] = IF i = 1 THEN seqs[i] ELSE g[i - 1] \o seqs[i]
        <4>1. CASE i = 1
          BY <1>6, <4>1
        <4>2. CASE i # 1
          <5>1. i - 1 \in 1..N
            BY <4>2
          <5> QED
            BY <1>3, <4>2, <5>1
        <4> QED
          BY <4>1, <4>2
      <3> QED
        BY <3>1
    <2>2. Flattens(h)
      <3>1. Flattens(g)
        BY <2>1
      <3> QED
        BY <3>1
    <2>3. FlattenSeq(seqs) = h[N]
      BY <1>5 DEF FlattenSeq
    <2>4. \A i \in 1..N : h[i] = IF i = 1 THEN seqs[i] ELSE h[i - 1] \o seqs[i]
      <3> HIDE DEF h
      <3> QED
        BY <2>2
    <2> HIDE DEF h, g
    <2> DEFINE J == {i \in 0..N : i = 0 \/ h[i] = f[i]}
    <2>5. ASSUME NEW i \in 1..N, i - 1 \in J PROVE i \in J
      <3>1. CASE i = 1
        BY <1>6, <2>4, <3>1
      <3>2. CASE i # 1
        <4>1. h[i - 1] = f[i - 1]
          BY <2>5, <3>2
        <4>2. h[i] = h[i - 1] \o seqs[i]
          BY <2>4, <3>2
        <4>3. f[i] = f[i - 1] \o seqs[i]
          BY <1>3
        <4>4. h[i] = f[i]
          BY <4>1, <4>2, <4>3, Zenon
        <4> QED
          BY <4>4
      <3> QED
        BY <3>1, <3>2
    <2>6. 0 \in J
      BY <1>0
    <2>7. 0..N \subseteq J
      <3> HIDE DEF J, N
      <3> QED
        BY <1>0, <2>5, <2>6, IntervalInduction
    <2>8. h[N] = f[N]
      <3>1. N \in 0..N
        BY <1>0
      <3>2. N \in J
        BY <2>7, <3>1, Zenon
      <3> QED
        BY <1>5, <3>2
    <2> QED
      BY <1>3, <2>3, <2>8
  <1> QED
    BY <1>4, <1>5

\* ... and has what the sequences have.
LEMMA Flattened ==
  ASSUME NEW S, NEW seqs \in Seq(Seq(S))
  PROVE  /\ FlattenSeq(seqs) \in Seq(S)
         /\ Range(FlattenSeq(seqs)) = UNION {Range(seqs[i]) : i \in 1..Len(seqs)}
  <1> DEFINE N == Len(seqs)
             All(n) == UNION {Range(seqs[i]) : i \in 1..n}
  <1>0. N \in Nat
    OBVIOUS
  <1>1. PICK f \in [0..N -> Seq(S)] :
            /\ f[0] = <<>>
            /\ \A i \in 1..N : f[i] = f[i - 1] \o seqs[i]
            /\ FlattenSeq(seqs) = f[N]
    BY FlattenLoops
  <1> DEFINE J == {n \in 0..N : Range(f[n]) = All(n)}
  <1>2. 0 \in J
    <2>1. Range(f[0]) = {}
      BY <1>1 DEF Range
    <2>2. All(0) = {}
      OBVIOUS
    <2> QED
      BY <1>0, <2>1, <2>2
  <1>3. ASSUME NEW n \in 1..N, n - 1 \in J PROVE n \in J
    <2>1. Range(f[n]) = Range(f[n - 1]) \cup Range(seqs[n])
      <3>1. f[n] = f[n - 1] \o seqs[n]
        BY <1>1
      <3>2. f[n - 1] \in Seq(S)
        OBVIOUS
      <3>3. seqs[n] \in Seq(S)
        OBVIOUS
      <3> QED
        BY <3>1, <3>2, <3>3, JoinedRange
    <2>2. All(n) = All(n - 1) \cup Range(seqs[n])
      <3>1. \A i : i \in 1..n <=> i = n \/ i \in 1..(n - 1)
        OBVIOUS
      <3> QED
        BY <3>1
    <2> HIDE DEF All
    <2>3. Range(f[n - 1]) = All(n - 1)
      BY <1>3
    <2>4. Range(f[n]) = All(n)
      BY <2>1, <2>2, <2>3, Zenon
    <2> QED
      BY <2>4
  <1> HIDE DEF J, N
  <1>4. 0..N \subseteq J
    BY <1>0, <1>2, <1>3, IntervalInduction
  <1>5. Range(f[N]) = All(N)
    BY <1>0, <1>4 DEF J
  <1> QED
    BY <1>0, <1>1, <1>5 DEF N

-----------------------------------------------------------------------------
(* The map of the lines, and the search for a way on it.                     *)

EdgesOn(T) == [from : T, to : T, line : Range(Real)]
PathEdges == EdgesOn(Stations)
SearchStates == [queue : Seq(Stations), came : Seq(PathEdges)]
StationLists == [Lines -> Seq(Stations)]

\* The lines are numbered, and each has its real name.
LEMMA LinesAre ==
  /\ Len(Real) \in Nat /\ Lines = 1..Len(Real) /\ LoopLine \in Lines
  /\ \A l \in Lines : Real[l] \in Range(Real)
  BY LineMapAssumption DEF Lines, Range

\* An edge between two of these stations is one of their edges.
LEMMA EdgeTyped ==
  ASSUME NEW T, NEW s \in T, NEW t \in T, NEW line \in Range(Real)
  PROVE  Edge(s, t, line) \in EdgesOn(T)
  BY DEF Edge, EdgesOn

\* Edges, along the lines and the one that closes the loop, join stations.
LEMMA EdgesTyped ==
  ASSUME NEW T, NEW ls \in [Lines -> Seq(T)]
  PROVE  Edges(ls) \in Seq(EdgesOn(T))
  <1> DEFINE along(l) == IF ls[l] = <<>> THEN <<>>
                         ELSE [i \in 1..(Len(ls[l]) - 1) |->
                                 Edge(ls[l][i], ls[l][i + 1], Real[l])]
             loop == ls[LoopLine]
             all == [l \in Lines |-> along(l)]
             last == IF Len(loop) > 1 THEN <<Edge(Last(loop), Head(loop), Real[LoopLine])>>
                     ELSE <<>>
  <1>1. ASSUME NEW l \in Lines PROVE along(l) \in Seq(EdgesOn(T))
    <2>1. ls[l] \in Seq(T)
      OBVIOUS
    <2>2. CASE ls[l] = <<>>
      BY <2>2
    <2>3. CASE ls[l] # <<>>
      <3>1. Len(ls[l]) - 1 \in Nat
        BY <2>1, <2>3
      <3>2. ASSUME NEW i \in 1..(Len(ls[l]) - 1)
            PROVE  Edge(ls[l][i], ls[l][i + 1], Real[l]) \in EdgesOn(T)
        <4>1. ls[l][i] \in T /\ ls[l][i + 1] \in T
          BY <2>1
        <4> QED
          BY <4>1, LinesAre, EdgeTyped
      <3>3. along(l) \in [1..(Len(ls[l]) - 1) -> EdgesOn(T)]
        BY <2>3, <3>2
      <3> HIDE DEF along
      <3> QED
        BY <3>1, <3>3, FunctionIsSequence
    <2> QED
      BY <2>2, <2>3
  <1>2. all \in Seq(Seq(EdgesOn(T)))
    <2>1. all \in [1..Len(Real) -> Seq(EdgesOn(T))]
      BY <1>1, LinesAre
    <2> HIDE DEF all
    <2> QED
      BY <2>1, LinesAre
  <1>3. last \in Seq(EdgesOn(T))
    <2>1. loop \in Seq(T)
      BY LinesAre
    <2>2. CASE Len(loop) > 1
      <3>1. Last(loop) \in T /\ Head(loop) \in T
        BY <2>1, <2>2 DEF Last
      <3>2. Edge(Last(loop), Head(loop), Real[LoopLine]) \in EdgesOn(T)
        BY <3>1, LinesAre, EdgeTyped
      <3> QED
        BY <2>2, <3>2
    <2>3. CASE ~(Len(loop) > 1)
      BY <2>3
    <2> QED
      BY <2>2, <2>3
  <1>4. Edges(ls) = FlattenSeq(all) \o last
    BY DEF Edges
  <1> HIDE DEF all, last
  <1>5. FlattenSeq(all) \in Seq(EdgesOn(T))
    BY <1>2, Flattened
  <1> QED
    BY <1>3, <1>4, <1>5

\* A way is an edge or an edge ridden back, and each of them is a way.
Back(e) == Edge(e.to, e.from, e.line)

LEMMA WaysTyped ==
  ASSUME NEW ls \in StationLists
  PROVE  /\ Ways(ls) \in Seq(PathEdges)
         /\ Range(Ways(ls)) = Range(Edges(ls)) \cup {Back(e) : e \in Range(Edges(ls))}
  <1> DEFINE edges == Edges(ls)
             both == [i \in DOMAIN edges |->
                        <<edges[i], Edge(edges[i].to, edges[i].from, edges[i].line)>>]
  <1>1. edges \in Seq(PathEdges)
    BY EdgesTyped DEF PathEdges, StationLists
  <1>2. Ways(ls) = FlattenSeq(both)
    BY DEF Ways
  <1> HIDE DEF edges
  <1>3. \A i \in 1..Len(edges) : edges[i] \in PathEdges /\ Back(edges[i]) \in PathEdges
    <2>1. ASSUME NEW e \in PathEdges PROVE Back(e) \in PathEdges
      BY EdgeTyped DEF Back, PathEdges, EdgesOn
    <2>2. \A i \in 1..Len(edges) : edges[i] \in PathEdges
      BY <1>1
    <2> QED
      BY <2>1, <2>2
  <1>4. both \in [1..Len(edges) -> Seq(PathEdges)]
    <2>1. \A i \in 1..Len(edges) : <<edges[i], Back(edges[i])>> \in Seq(PathEdges)
      BY <1>3
    <2> QED
      BY <1>1, <2>1 DEF Back
  <1>5. both \in Seq(Seq(PathEdges)) /\ Len(both) = Len(edges)
    <2>1. Len(edges) \in Nat
      BY <1>1
    <2> HIDE DEF both
    <2> QED
      BY <1>4, <2>1
  <1>6. \A i \in 1..Len(edges) : Range(both[i]) = {edges[i], Back(edges[i])}
    <2>1. \A i \in 1..Len(edges) : both[i] = <<edges[i], Back(edges[i])>>
      BY <1>1 DEF Back
    <2>2. \A x, y : Range(<<x, y>>) = {x, y}
      BY DEF Range
    <2> QED
      BY <2>1, <2>2
  <1> HIDE DEF both
  <1>7. Ways(ls) \in Seq(PathEdges)
    BY <1>2, <1>5, Flattened
  <1>8. Range(Ways(ls)) = UNION {Range(both[i]) : i \in 1..Len(edges)}
    BY <1>2, <1>5, Flattened
  <1>9. \A e \in Range(edges) : \E i \in 1..Len(edges) : edges[i] = e
    BY <1>1, RangeIs
  <1>10. \A i \in 1..Len(edges) : edges[i] \in Range(edges)
    BY <1>1, RangeIs
  <1>11. Range(Ways(ls)) = Range(edges) \cup {Back(e) : e \in Range(edges)}
    <2>1. ASSUME NEW x \in Range(Ways(ls))
          PROVE  x \in Range(edges) \cup {Back(e) : e \in Range(edges)}
      <3>1. PICK i \in 1..Len(edges) : x \in Range(both[i])
        BY <1>8
      <3>2. x = edges[i] \/ x = Back(edges[i])
        BY <1>6, <3>1
      <3> QED
        BY <1>10, <3>2
    <2>2. ASSUME NEW e \in Range(edges)
          PROVE  e \in Range(Ways(ls)) /\ Back(e) \in Range(Ways(ls))
      <3>1. PICK i \in 1..Len(edges) : edges[i] = e
        BY <1>9
      <3>2. e \in Range(both[i]) /\ Back(e) \in Range(both[i])
        BY <1>6, <3>1
      <3> QED
        BY <1>8, <3>2
    <2> QED
      BY <2>1, <2>2
  <1> QED
    BY <1>7, <1>11 DEF edges

-----------------------------------------------------------------------------
(* One pass of the search.                                                   *)

\* v[i] is the search when the first i ways have been looked at.
LooksAt(v, ways, from, search) ==
    v = [n \in 0..Len(ways) |->
            IF n = 0 THEN [queue |-> Tail(search.queue), came |-> search.came]
            ELSE LET before == v[n - 1]
                 IN  IF ways[n].from = Head(search.queue)
                     THEN Visit(from, before, ways[n]) ELSE before]

\* The same step by step.
Visits(v, ways, from, search) ==
    /\ v[0] = [queue |-> Tail(search.queue), came |-> search.came]
    /\ \A n \in 1..Len(ways) :
          v[n] = IF ways[n].from = Head(search.queue)
                 THEN Visit(from, v[n - 1], ways[n]) ELSE v[n - 1]

\* The search is not over.
Goes(search, to) == search.queue # <<>> /\ Head(search.queue) # to

\* A visit keeps the types of a search.
LEMMA VisitTyped ==
  ASSUME NEW from \in Stations, NEW s \in SearchStates, NEW e \in PathEdges
  PROVE  Visit(from, s, e) \in SearchStates
  <1>1. e.to \in Stations
    BY DEF PathEdges, EdgesOn
  <1> QED
    BY <1>1 DEF Visit, SearchStates

\* One pass is a loop over the ways.
LEMMA LookLoops ==
  ASSUME NEW ways \in Seq(PathEdges), NEW from \in Stations, NEW to,
         NEW search \in SearchStates, Goes(search, to)
  PROVE  \E v \in [0..Len(ways) -> SearchStates] :
            Visits(v, ways, from, search) /\ Look(ways, from, to, search) = v[Len(ways)]
  <1> DEFINE N == Len(ways)
             first == [queue |-> Tail(search.queue), came |-> search.came]
             next(n, s) == IF ways[n].from = Head(search.queue)
                           THEN Visit(from, s, ways[n]) ELSE s
             step == [n \in 1..N |-> [s \in SearchStates |-> next(n, s)]]
             v == CHOOSE x : LooksAt(x, ways, from, search)
  <1>0. N \in Nat
    OBVIOUS
  <1>1. first \in SearchStates
    BY DEF SearchStates, Goes
  <1>2. ASSUME NEW n \in 1..N, NEW s \in SearchStates PROVE next(n, s) \in SearchStates
    <2>1. ways[n] \in PathEdges
      OBVIOUS
    <2> QED
      BY <2>1, VisitTyped
  <1>3. step \in [1..N -> [SearchStates -> SearchStates]]
    BY <1>2
  <1>4. PICK f \in [0..N -> SearchStates] : Loop(f, N, first, step)
    <2> HIDE DEF N, step, first
    <2> QED
      BY <1>0, <1>1, <1>3, LoopRuns
  <1>5. f[0] = first /\ \A n \in 1..N : f[n] = next(n, f[n - 1])
    <2>1. f[0] = first /\ \A n \in 1..N : f[n] = step[n][f[n - 1]]
      <3> HIDE DEF step, first
      <3> QED
        BY <1>4 DEF Loop
    <2>2. \A n \in 1..N : f[n - 1] \in SearchStates
      OBVIOUS
    <2>3. \A n \in 1..N : \A s \in SearchStates : step[n][s] = next(n, s)
      OBVIOUS
    <2> HIDE DEF step, next, N, first
    <2> QED
      BY <2>1, <2>2, <2>3
  <1>6. LooksAt(f, ways, from, search)
    <2>1. f = [n \in 0..N |-> f[n]]
      OBVIOUS
    <2>2. \A n \in 0..N : f[n] = IF n = 0 THEN first ELSE next(n, f[n - 1])
      <3> HIDE DEF first, next
      <3> QED
        BY <1>0, <1>5
    <2> QED
      BY <2>1, <2>2 DEF LooksAt
  <1>7. LooksAt(v, ways, from, search)
    BY <1>6
  <1>8. Look(ways, from, to, search) = v[N]
    BY DEF Look, LooksAt, Goes
  <1> HIDE DEF v
  <1>9. v[0] = first /\ \A n \in 1..N : v[n] = next(n, v[n - 1])
    <2>1. \A n \in 0..N : v[n] = IF n = 0 THEN first ELSE next(n, v[n - 1])
      BY <1>7 DEF LooksAt
    <2> HIDE DEF first, next
    <2> QED
      BY <1>0, <2>1
  <1>10. DOMAIN v = 0..N
    BY <1>7 DEF LooksAt
  <1>11. \A n \in 0..N : v[n] \in SearchStates
    <2> DEFINE J == {n \in 0..N : v[n] \in SearchStates}
    <2>1. 0 \in J
      BY <1>0, <1>1, <1>9
    <2>2. ASSUME NEW n \in 1..N, n - 1 \in J PROVE n \in J
      <3> HIDE DEF next
      <3> QED
        BY <1>2, <1>9, <2>2
    <2> HIDE DEF J, N
    <2>3. 0..N \subseteq J
      BY <1>0, <2>1, <2>2, IntervalInduction
    <2> QED
      BY <2>3 DEF J
  <1>12. v = [n \in 0..N |-> v[n]]
    BY <1>7 DEF LooksAt
  <1>13. v \in [0..N -> SearchStates]
    <2> HIDE DEF N
    <2> QED
      BY <1>11, <1>12
  <1>14. Visits(v, ways, from, search)
    BY <1>9 DEF Visits
  <1> QED
    BY <1>8, <1>13, <1>14

\* The stations a search has come to, in the order it has.
Place(from, search, k) == IF k = 0 THEN from ELSE search.came[k].to

Distinct(from, search) ==
    \A k \in 1..Len(search.came) :
        /\ search.came[k].to # from
        /\ \A j \in 1..(k - 1) : search.came[j].to # search.came[k].to

\* Those it has not looked at are its queue.
Queued(from, search) ==
    /\ Len(search.queue) <= Len(search.came) + 1
    /\ \A i \in 1..Len(search.queue) :
          search.queue[i] = Place(from, search, Len(search.came) - Len(search.queue) + i)

\* What is so when the ways from one station, up to the n-th, are looked at.
Looked(ways, from, search, after, n) ==
    /\ Len(search.came) <= Len(after.came)
    /\ \A k \in 1..Len(search.came) : after.came[k] = search.came[k]
    /\ \A k \in (Len(search.came) + 1)..Len(after.came) :
          /\ after.came[k] \in Range(ways) /\ after.came[k].from = Head(search.queue)
          /\ after.came[k].to \notin Reached(search, from)
    /\ \A i \in 1..n : ways[i].from = Head(search.queue) =>
                          ways[i].to \in Reached(after, from)
    /\ Distinct(from, after)
    /\ Queued(from, after)
    /\ Len(after.came) - Len(after.queue) = Len(search.came) - Len(search.queue) + 1

\* What a search consists of.
LEMMA SearchTyped ==
  ASSUME NEW s \in SearchStates
  PROVE  /\ s.came \in Seq(PathEdges) /\ s.queue \in Seq(Stations)
         /\ Len(s.came) \in Nat /\ Len(s.queue) \in Nat
         /\ \A k \in 1..Len(s.came) : /\ s.came[k].from \in Stations /\ s.came[k].to \in Stations
                                      /\ s.came[k] \in PathEdges
  <1>1. s.came \in Seq(PathEdges) /\ s.queue \in Seq(Stations)
    BY DEF SearchStates
  <1>2. \A k \in 1..Len(s.came) : s.came[k] \in PathEdges
    BY <1>1
  <1> QED
    BY <1>1, <1>2 DEF PathEdges, EdgesOn

\* A station is reached if it is the start or the search has come to it.
LEMMA ReachedIs ==
  ASSUME NEW from, NEW s \in SearchStates
  PROVE  \A x : x \in Reached(s, from)
                <=> x = from \/ \E k \in 1..Len(s.came) : s.came[k].to = x
  <1>1. \A e \in Range(s.came) : \E k \in 1..Len(s.came) : s.came[k] = e
    BY SearchTyped, RangeIs
  <1>2. \A k \in 1..Len(s.came) : s.came[k] \in Range(s.came)
    BY SearchTyped, RangeIs
  <1> QED
    BY <1>1, <1>2 DEF Reached

\* A way that leads on is added to the search ...
LEMMA Visited ==
  ASSUME NEW ways \in Seq(PathEdges), NEW from \in Stations, NEW search \in SearchStates,
         NEW s \in SearchStates, NEW n \in 1..Len(ways), Looked(ways, from, search, s, n - 1),
         ways[n].from = Head(search.queue), ways[n].to \notin Reached(s, from)
  PROVE  Looked(ways, from, search, Visit(from, s, ways[n]), n)
  <1> DEFINE w == ways[n]
             c == Len(s.came)
             q == Len(s.queue)
  <1>1. PICK e : e = w
    OBVIOUS
  <1>2. e \in PathEdges /\ e.to \in Stations /\ e \in Range(ways)
    <2>1. w \in PathEdges /\ w \in Range(ways)
      BY RangeIs
    <2> HIDE DEF w
    <2> QED
      BY <1>1, <2>1 DEF PathEdges, EdgesOn
  <1>3. PICK a : a = Visit(from, s, e)
    OBVIOUS
  <1>4. a.came = Append(s.came, e) /\ a.queue = Append(s.queue, e.to) /\ a \in SearchStates
    <2>1. e.to \notin Reached(s, from)
      BY <1>1
    <2> QED
      BY <1>2, <1>3, <2>1, VisitTyped DEF Visit
  <1>5. /\ c \in Nat /\ q \in Nat /\ Len(a.came) = c + 1 /\ Len(a.queue) = q + 1
        /\ \A k \in 1..c : a.came[k] = s.came[k]
        /\ \A k \in 1..q : a.queue[k] = s.queue[k]
        /\ a.came[c + 1] = e /\ a.queue[q + 1] = e.to
    BY <1>2, <1>4, SearchTyped
  <1>6. \A x : x \in Reached(a, from) <=> x \in Reached(s, from) \/ x = e.to
    <2>1. \A x : x \in Reached(a, from)
                 <=> x = from \/ \E k \in 1..(c + 1) : a.came[k].to = x
      <3>1. \A x : x \in Reached(a, from)
                   <=> x = from \/ \E k \in 1..Len(a.came) : a.came[k].to = x
        BY <1>4, ReachedIs
      <3>2. Len(a.came) = c + 1
        BY <1>5
      <3> QED
        BY <3>1, <3>2
    <2>2. \A x : x \in Reached(s, from) <=> x = from \/ \E k \in 1..c : s.came[k].to = x
      BY ReachedIs
    <2>3. ASSUME NEW x
          PROVE  (\E k \in 1..(c + 1) : a.came[k].to = x)
                 <=> (\E k \in 1..c : s.came[k].to = x) \/ x = e.to
      <3>1. \A k : k \in 1..(c + 1) <=> k \in 1..c \/ k = c + 1
        BY <1>5
      <3> QED
        BY <3>1, <1>5
    <2> QED
      BY <2>1, <2>2, <2>3
  <1>7. e.to \notin Reached(s, from) /\ e.from = Head(search.queue)
    BY <1>1
  <1> HIDE DEF w
  <1>8. Len(search.came) \in Nat /\ Len(search.queue) \in Nat
    BY SearchTyped
  <1> HIDE DEF c, q
  <1>9. /\ Len(search.came) <= Len(a.came)
        /\ \A k \in 1..Len(search.came) : a.came[k] = search.came[k]
    <2>1. /\ Len(search.came) <= c
          /\ \A k \in 1..Len(search.came) : s.came[k] = search.came[k]
      BY DEF Looked, c
    <2> QED
      BY <1>5, <1>8, <2>1
  <1>10. ASSUME NEW k \in (Len(search.came) + 1)..Len(a.came)
         PROVE  /\ a.came[k] \in Range(ways) /\ a.came[k].from = Head(search.queue)
                /\ a.came[k].to \notin Reached(search, from)
    <2>1. CASE k = c + 1
      <3>1. e.to \notin Reached(search, from)
        <4>1. ASSUME NEW x \in Reached(search, from) PROVE x \in Reached(s, from)
          <5>1. x = from \/ \E j \in 1..Len(search.came) : search.came[j].to = x
            BY ReachedIs
          <5>2. \A j \in 1..Len(search.came) : j \in 1..Len(s.came) /\ s.came[j] = search.came[j]
            BY <1>8, SearchTyped DEF Looked
          <5>3. x = from \/ \E j \in 1..Len(s.came) : s.came[j].to = x
            BY <5>1, <5>2
          <5> QED
            BY <5>3, ReachedIs
        <4> QED
          BY <4>1, <1>7
      <3> QED
        BY <1>2, <1>5, <1>7, <2>1, <3>1
    <2>2. CASE k # c + 1
      <3>1. k \in (Len(search.came) + 1)..c
        BY <1>5, <1>8, <2>2
      <3>2. /\ s.came[k] \in Range(ways) /\ s.came[k].from = Head(search.queue)
            /\ s.came[k].to \notin Reached(search, from)
        BY <3>1 DEF Looked, c
      <3>3. k \in 1..c
        <4>1. c \in Nat
          BY <1>5
        <4> QED
          BY <1>8, <3>1, <4>1
      <3>4. a.came[k] = s.came[k]
        BY <1>5, <3>3
      <3> QED
        BY <3>2, <3>4
    <2> QED
      BY <2>1, <2>2
  <1>11. ASSUME NEW i \in 1..n, ways[i].from = Head(search.queue)
         PROVE  ways[i].to \in Reached(a, from)
    <2>1. CASE i = n
      BY <1>1, <1>6, <2>1 DEF w
    <2>2. CASE i # n
      <3>1. i \in 1..(n - 1)
        BY <2>2
      <3>2. ways[i].to \in Reached(s, from)
        BY <1>11, <3>1 DEF Looked
      <3> QED
        BY <1>6, <3>2
    <2> QED
      BY <2>1, <2>2
  <1>12. Distinct(from, a)
    <2>1. /\ e.to # from /\ \A j \in 1..c : s.came[j].to # e.to
      BY <1>7, ReachedIs DEF c
    <2>2. \A k \in 1..c : s.came[k].to # from /\ \A j \in 1..(k - 1) : s.came[j].to # s.came[k].to
      BY DEF Looked, Distinct, c
    <2>3. ASSUME NEW k \in 1..Len(a.came)
          PROVE  a.came[k].to # from /\ \A j \in 1..(k - 1) : a.came[j].to # a.came[k].to
      <3>1. CASE k = c + 1
        <4>1. \A j \in 1..(k - 1) : j \in 1..c
          BY <1>5, <3>1
        <4> QED
          BY <1>5, <2>1, <3>1, <4>1
      <3>2. CASE k # c + 1
        <4>1. k \in 1..c /\ \A j \in 1..(k - 1) : j \in 1..c
          BY <1>5, <3>2
        <4> QED
          BY <1>5, <2>2, <4>1
      <3> QED
        BY <3>1, <3>2
    <2> QED
      BY <2>3 DEF Distinct
  <1>13. Queued(from, a)
    <2>1. /\ q <= c + 1
          /\ \A i \in 1..q : s.queue[i] = Place(from, s, c - q + i)
      BY DEF Looked, Queued, c, q
    <2>2. ASSUME NEW i \in 1..Len(a.queue)
          PROVE  a.queue[i] = Place(from, a, Len(a.came) - Len(a.queue) + i)
      <3>1. Len(a.came) - Len(a.queue) + i = c - q + i
        BY <1>5
      <3>2. CASE i = q + 1
        <4>1. c - q + i = c + 1 /\ c + 1 # 0
          BY <1>5, <3>2
        <4> QED
          BY <1>5, <3>1, <3>2, <4>1 DEF Place
      <3>3. CASE i # q + 1
        <4>1. i \in 1..q
          BY <1>5, <3>3
        <4>2. c - q + i = 0 \/ c - q + i \in 1..c
          BY <1>5, <2>1, <4>1
        <4>3. s.queue[i] = Place(from, s, c - q + i) /\ a.queue[i] = s.queue[i]
          BY <1>5, <2>1, <4>1
        <4> QED
          BY <1>5, <3>1, <4>2, <4>3 DEF Place
      <3> QED
        BY <3>2, <3>3
    <2>3. Len(a.queue) <= Len(a.came) + 1
      BY <1>5, <2>1
    <2> QED
      BY <2>2, <2>3 DEF Queued
  <1>14. Len(a.came) - Len(a.queue) = Len(search.came) - Len(search.queue) + 1
    <2>1. c - q = Len(search.came) - Len(search.queue) + 1
      BY DEF Looked, c, q
    <2>2. c \in Nat /\ q \in Nat /\ Len(a.came) = c + 1 /\ Len(a.queue) = q + 1
      BY <1>5
    <2>3. (c + 1) - (q + 1) = c - q
      BY <2>2
    <2> QED
      BY <2>1, <2>2, <2>3
  <1>15. Looked(ways, from, search, a, n)
    BY <1>9, <1>10, <1>11, <1>12, <1>13, <1>14 DEF Looked
  <1> QED
    BY <1>1, <1>3, <1>15 DEF w

\* ... and any other changes nothing.
LEMMA PassedBy ==
  ASSUME NEW ways, NEW from, NEW search, NEW s, NEW n \in Nat \ {0},
         Looked(ways, from, search, s, n - 1),
         ways[n].from # Head(search.queue) \/ ways[n].to \in Reached(s, from)
  PROVE  Looked(ways, from, search, s, n)
  <1>1. ASSUME NEW i \in 1..n, ways[i].from = Head(search.queue)
        PROVE  ways[i].to \in Reached(s, from)
    <2>1. CASE i = n
      BY <1>1, <2>1
    <2>2. CASE i # n
      <3>1. i \in 1..(n - 1)
        BY <2>2
      <3> QED
        BY <1>1, <3>1 DEF Looked
    <2> QED
      BY <2>1, <2>2
  <1> QED
    BY <1>1 DEF Looked

\* A pass takes one station from the queue and looks at all its ways.
LEMMA LookDoes ==
  ASSUME NEW ways \in Seq(PathEdges), NEW from \in Stations, NEW to,
         NEW search \in SearchStates, Goes(search, to),
         Distinct(from, search), Queued(from, search)
  PROVE  /\ Look(ways, from, to, search) \in SearchStates
         /\ Looked(ways, from, search, Look(ways, from, to, search), Len(ways))
  <1>1. PICK v \in [0..Len(ways) -> SearchStates] :
            Visits(v, ways, from, search) /\ Look(ways, from, to, search) = v[Len(ways)]
    BY LookLoops
  <1> DEFINE N == Len(ways)
  <1>0. N \in Nat
    OBVIOUS
  <1> DEFINE J == {n \in 0..N : Looked(ways, from, search, v[n], n)}
  <1>2. 0 \in J
    <2>1. PICK s : s = v[0]
      OBVIOUS
    <2>2. s.came = search.came /\ s.queue = Tail(search.queue)
      BY <1>1, <2>1 DEF Visits
    <2>3. /\ Len(search.came) \in Nat /\ Len(search.queue) \in Nat /\ Len(search.queue) >= 1
          /\ Len(s.queue) = Len(search.queue) - 1
          /\ \A i \in 1..Len(s.queue) : s.queue[i] = search.queue[i + 1]
      BY <2>2, SearchTyped DEF Goes
    <2>8. PICK c \in Nat, q \in Nat : /\ c = Len(search.came) /\ q = Len(search.queue)
                                      /\ c = Len(s.came) /\ q - 1 = Len(s.queue)
      <3>1. Len(s.came) = Len(search.came)
        BY <2>2
      <3> QED
        BY <2>3, <3>1
    <2>4. Queued(from, s)
      <3>1. ASSUME NEW i \in 1..Len(s.queue)
            PROVE  s.queue[i] = Place(from, s, Len(s.came) - Len(s.queue) + i)
        <4>1. i + 1 \in 1..Len(search.queue)
          BY <2>3
        <4>2. s.queue[i] = Place(from, search, Len(search.came) - Len(search.queue) + (i + 1))
          BY <2>3, <4>1 DEF Queued
        <4>3. Len(s.came) - Len(s.queue) + i = Len(search.came) - Len(search.queue) + (i + 1)
          BY <2>8
        <4> QED
          BY <2>2, <4>2, <4>3 DEF Place
      <3>2. Len(s.queue) <= Len(s.came) + 1
        BY <2>2, <2>3 DEF Queued
      <3> QED
        BY <3>1, <3>2 DEF Queued
    <2>5. Distinct(from, s)
      BY <2>2 DEF Distinct
    <2>6. Len(s.came) - Len(s.queue) = Len(search.came) - Len(search.queue) + 1
      <3>1. c - (q - 1) = c - q + 1
        OBVIOUS
      <3> QED
        BY <2>8, <3>1, Zenon
    <2>7. Looked(ways, from, search, s, 0)
      <3>1. Len(search.came) <= Len(s.came) /\ (Len(search.came) + 1)..Len(s.came) = {}
        BY <2>2, <2>3
      <3>2. \A k \in 1..Len(search.came) : s.came[k] = search.came[k]
        BY <2>2
      <3>3. \A k \in (Len(search.came) + 1)..Len(s.came) : FALSE
        BY <3>1
      <3>4. \A i \in 1..0 : FALSE
        OBVIOUS
      <3> QED
        BY <2>4, <2>5, <2>6, <3>1, <3>2, <3>3, <3>4, Zenon DEF Looked
    <2> QED
      BY <1>0, <2>1, <2>7
  <1>3. ASSUME NEW n \in 1..N, n - 1 \in J PROVE n \in J
    <2>1. PICK s \in SearchStates : s = v[n - 1]
      OBVIOUS
    <2>2. Looked(ways, from, search, s, n - 1)
      BY <1>3, <2>1
    <2>3. v[n] = IF ways[n].from = Head(search.queue) THEN Visit(from, s, ways[n]) ELSE s
      BY <1>1, <2>1 DEF Visits
    <2>4. CASE ways[n].from = Head(search.queue) /\ ways[n].to \notin Reached(s, from)
      <3>1. Looked(ways, from, search, Visit(from, s, ways[n]), n)
        BY <2>2, <2>4, Visited
      <3> QED
        BY <2>3, <2>4, <3>1
    <2>5. CASE ~(ways[n].from = Head(search.queue) /\ ways[n].to \notin Reached(s, from))
      <3>1. Looked(ways, from, search, s, n)
        BY <2>2, <2>5, PassedBy
      <3>2. v[n] = s
        BY <2>3, <2>5 DEF Visit
      <3> QED
        BY <3>1, <3>2
    <2> QED
      BY <2>4, <2>5
  <1> HIDE DEF J, N
  <1>4. 0..N \subseteq J
    BY <1>0, <1>2, <1>3, IntervalInduction
  <1>5. N \in J
    BY <1>0, <1>4
  <1>6. v[N] \in SearchStates
    BY <1>0 DEF N
  <1>7. Looked(ways, from, search, v[N], N)
    BY <1>5 DEF J
  <1> QED
    BY <1>1, <1>6, <1>7 DEF N

-----------------------------------------------------------------------------
(* The passes of the search.                                                 *)

\* The search is a tree: the edges it has come by lead on from one another.
Tree(ways, from, search) ==
    /\ Distinct(from, search) /\ Queued(from, search)
    /\ \A k \in 1..Len(search.came) :
          /\ search.came[k] \in Range(ways)
          /\ \E j \in 0..(k - 1) : search.came[k].from = Place(from, search, j)

\* The head of the queue is the first station not looked at.
LEMMA HeadIsPlace ==
  ASSUME NEW from, NEW search \in SearchStates, Queued(from, search), search.queue # <<>>
  PROVE  /\ Len(search.came) - Len(search.queue) + 1 \in 0..Len(search.came)
         /\ Head(search.queue)
              = Place(from, search, Len(search.came) - Len(search.queue) + 1)
  <1>1. /\ Len(search.came) \in Nat /\ Len(search.queue) \in Nat /\ Len(search.queue) >= 1
        /\ Head(search.queue) = search.queue[1]
    BY SearchTyped
  <1>2. Len(search.queue) <= Len(search.came) + 1
    BY DEF Queued
  <1>3. search.queue[1] = Place(from, search, Len(search.came) - Len(search.queue) + 1)
    <2>1. 1 \in 1..Len(search.queue)
      BY <1>1
    <2> QED
      BY <2>1, Zenon DEF Queued
  <1>4. \A c, q \in Nat : q >= 1 /\ q <= c + 1 => c - q + 1 \in 0..c
    OBVIOUS
  <1>5. Len(search.came) - Len(search.queue) + 1 \in 0..Len(search.came)
    BY <1>1, <1>2, <1>4, Zenon
  <1> QED
    BY <1>1, <1>3, <1>5, Zenon

\* A station keeps its place.
LEMMA PlacesKept ==
  ASSUME NEW ways, NEW from, NEW search \in SearchStates, NEW after \in SearchStates, NEW n,
         Looked(ways, from, search, after, n)
  PROVE  /\ \A k \in 0..Len(search.came) : /\ k \in 0..Len(after.came)
                                           /\ Place(from, after, k) = Place(from, search, k)
         /\ Reached(search, from) \subseteq Reached(after, from)
  <1>1. ASSUME NEW k \in 0..Len(search.came)
        PROVE  k \in 0..Len(after.came) /\ Place(from, after, k) = Place(from, search, k)
    <2>1. k \in 0..Len(after.came)
      BY SearchTyped DEF Looked
    <2>2. CASE k = 0
      BY <2>2 DEF Place
    <2>3. CASE k # 0
      <3>1. k \in 1..Len(search.came)
        BY <2>3
      <3> QED
        BY <2>3, <3>1 DEF Place, Looked
    <2> QED
      BY <2>1, <2>2, <2>3
  <1>2. ASSUME NEW x \in Reached(search, from) PROVE x \in Reached(after, from)
    <2>1. CASE x = from
      BY <2>1 DEF Reached
    <2>2. CASE \E k \in 1..Len(search.came) : search.came[k].to = x
      <3>1. PICK k \in 1..Len(search.came) : search.came[k].to = x
        BY <2>2
      <3>2. k \in 1..Len(after.came) /\ after.came[k] = search.came[k]
        BY SearchTyped DEF Looked
      <3> QED
        BY <3>1, <3>2, ReachedIs
    <2> QED
      BY <2>1, <2>2, ReachedIs
  <1> QED
    BY <1>1, <1>2

\* A pass keeps the tree.
LEMMA LookKeepsTree ==
  ASSUME NEW ways \in Seq(PathEdges), NEW from \in Stations, NEW to,
         NEW search \in SearchStates, Tree(ways, from, search)
  PROVE  /\ Look(ways, from, to, search) \in SearchStates
         /\ Tree(ways, from, Look(ways, from, to, search))
  <1>1. CASE ~Goes(search, to)
    BY <1>1 DEF Look, Goes
  <1>2. CASE Goes(search, to)
    <2>1. PICK after : after = Look(ways, from, to, search)
      OBVIOUS
    <2>2. after \in SearchStates /\ Looked(ways, from, search, after, Len(ways))
      <3>1. Distinct(from, search) /\ Queued(from, search)
        BY DEF Tree
      <3> QED
        BY <1>2, <2>1, <3>1, LookDoes
    <2> DEFINE h == Len(search.came) - Len(search.queue) + 1
    <2>3. h \in 0..Len(search.came) /\ Head(search.queue) = Place(from, search, h)
      <3>1. Queued(from, search) /\ search.queue # <<>>
        BY <1>2 DEF Tree, Goes
      <3> QED
        BY <3>1, HeadIsPlace
    <2> HIDE DEF h
    <2>4. \A k \in 0..Len(search.came) : Place(from, after, k) = Place(from, search, k)
      <3>1. PICK n : n = Len(ways)
        OBVIOUS
      <3>2. Looked(ways, from, search, after, n)
        BY <2>2, <3>1
      <3>3. /\ \A k \in 0..Len(search.came) : /\ k \in 0..Len(after.came)
                                               /\ Place(from, after, k) = Place(from, search, k)
            /\ Reached(search, from) \subseteq Reached(after, from)
        BY <2>2, <3>2, PlacesKept, Zenon
      <3> QED
        BY <3>3
    <2>5. ASSUME NEW k \in 1..Len(after.came)
          PROVE  /\ after.came[k] \in Range(ways)
                 /\ \E j \in 0..(k - 1) : after.came[k].from = Place(from, after, j)
      <3>0. Len(search.came) \in Nat /\ Len(after.came) \in Nat
        BY <2>2, SearchTyped
      <3>1. CASE k \in 1..Len(search.came)
        <4>1. after.came[k] = search.came[k]
          BY <2>2, <3>1 DEF Looked
        <4>2. search.came[k] \in Range(ways)
          BY <3>1 DEF Tree
        <4>3. PICK j \in 0..(k - 1) : search.came[k].from = Place(from, search, j)
          BY <3>1 DEF Tree
        <4>4. j \in 0..Len(search.came)
          BY <3>0, <3>1
        <4> QED
          BY <2>4, <4>1, <4>2, <4>3, <4>4
      <3>2. CASE k \notin 1..Len(search.came)
        <4>1. k \in (Len(search.came) + 1)..Len(after.came)
          BY <3>0, <3>2
        <4>2. after.came[k] \in Range(ways) /\ after.came[k].from = Head(search.queue)
          BY <2>2, <4>1 DEF Looked
        <4>3. h \in 0..(k - 1)
          BY <2>3, <3>0, <4>1
        <4>4. after.came[k].from = Place(from, after, h)
          BY <2>3, <2>4, <4>2
        <4> QED
          BY <4>2, <4>3, <4>4
      <3> QED
        BY <3>1, <3>2
    <2>6. Tree(ways, from, after)
      BY <2>2, <2>5 DEF Tree, Looked
    <2> QED
      BY <2>1, <2>2, <2>6
  <1> QED
    BY <1>1, <1>2

\* p[n] is the search after n passes.
FirstSearch(from) == [queue |-> <<from>>, came |-> <<>>]
Passes(p, n, ways, from, to) ==
    p[0] = FirstSearch(from) /\ \A i \in 1..n : p[i] = Look(ways, from, to, p[i - 1])

\* The search starts with the tree of one station.
LEMMA FirstIsTree ==
  ASSUME NEW ways, NEW from \in Stations
  PROVE  FirstSearch(from) \in SearchStates /\ Tree(ways, from, FirstSearch(from))
  <1>1. PICK s : s = FirstSearch(from)
    OBVIOUS
  <1>2. s.queue = <<from>> /\ s.came = <<>> /\ s \in SearchStates
    BY <1>1 DEF FirstSearch, SearchStates
  <1>3. Len(s.came) = 0 /\ Len(s.queue) = 1 /\ s.queue[1] = from
    BY <1>2
  <1>4. Queued(from, s)
    BY <1>3 DEF Queued, Place
  <1>5. Distinct(from, s)
    BY <1>3 DEF Distinct
  <1>6. Tree(ways, from, s)
    BY <1>3, <1>4, <1>5 DEF Tree
  <1> QED
    BY <1>1, <1>2, <1>6

\* The bound on the passes is a number.
LEMMA CountIsNat == Cardinality(Stations) \in Nat
  BY LineMapAssumption, FS_CardinalityType

Trees(ways, from) == {s \in SearchStates : Tree(ways, from, s)}
PassesAt(p, n, ways, from, to) ==
    p = [i \in 0..n |-> IF i = 0 THEN [queue |-> <<from>>, came |-> <<>>]
                        ELSE LET before == p[i - 1] IN Look(ways, from, to, before)]

\* The search is a loop of passes, each of which yields a tree.
LEMMA SearchRuns ==
  ASSUME NEW ls \in StationLists, NEW from \in Stations, NEW to
  PROVE  \E p \in [0..Cardinality(Stations) -> Trees(Ways(ls), from)] :
            /\ Passes(p, Cardinality(Stations), Ways(ls), from, to)
            /\ Search(ls, from, to) = p[Cardinality(Stations)]
  <1> DEFINE N == Cardinality(Stations)
             ways == Ways(ls)
             T == Trees(ways, from)
             first == FirstSearch(from)
             step == [n \in 1..N |-> [s \in T |-> Look(ways, from, to, s)]]
             p == CHOOSE x : PassesAt(x, N, ways, from, to)
  <1>0. N \in Nat /\ ways \in Seq(PathEdges)
    BY CountIsNat, WaysTyped
  <1>1. first \in T
    BY FirstIsTree DEF Trees
  <1>2. ASSUME NEW s \in T PROVE Look(ways, from, to, s) \in T
    BY <1>0, LookKeepsTree DEF Trees
  <1>8. Search(ls, from, to) = p[N]
    BY DEF Search, PassesAt
  <1> HIDE DEF N, T, ways
  <1>3. step \in [1..N -> [T -> T]]
    BY <1>2
  <1>4. PICK f \in [0..N -> T] : Loop(f, N, first, step)
    <2> HIDE DEF step, first
    <2> QED
      BY <1>0, <1>1, <1>3, LoopRuns
  <1>5. f[0] = first /\ \A n \in 1..N : f[n] = Look(ways, from, to, f[n - 1])
    <2>1. f[0] = first /\ \A n \in 1..N : f[n] = step[n][f[n - 1]]
      <3> HIDE DEF step, first
      <3> QED
        BY <1>4 DEF Loop
    <2>2. \A n \in 1..N : f[n - 1] \in T
      BY <1>0
    <2>3. \A n \in 1..N : \A s \in T : step[n][s] = Look(ways, from, to, s)
      OBVIOUS
    <2> HIDE DEF step, first
    <2> QED
      BY <2>1, <2>2, <2>3
  <1>6. PassesAt(f, N, ways, from, to)
    <2>1. f = [n \in 0..N |-> f[n]]
      OBVIOUS
    <2>2. \A n \in 0..N : f[n] = IF n = 0 THEN first ELSE Look(ways, from, to, f[n - 1])
      <3> HIDE DEF first
      <3> QED
        BY <1>0, <1>5
    <2> QED
      BY <2>1, <2>2 DEF PassesAt, FirstSearch
  <1>7. PassesAt(p, N, ways, from, to)
    BY <1>6
  <1> HIDE DEF p
  <1>9. p[0] = first /\ \A n \in 1..N : p[n] = Look(ways, from, to, p[n - 1])
    <2>1. \A n \in 0..N : p[n] = IF n = 0 THEN first ELSE Look(ways, from, to, p[n - 1])
      BY <1>7 DEF PassesAt, FirstSearch
    <2> HIDE DEF first
    <2> QED
      BY <1>0, <2>1
  <1>10. \A n \in 0..N : p[n] \in T
    <2> DEFINE J == {n \in 0..N : p[n] \in T}
    <2>1. 0 \in J
      BY <1>0, <1>1, <1>9
    <2>2. ASSUME NEW n \in 1..N, n - 1 \in J PROVE n \in J
      BY <1>2, <1>9, <2>2
    <2> HIDE DEF J
    <2>3. 0..N \subseteq J
      BY <1>0, <2>1, <2>2, IntervalInduction
    <2> QED
      BY <2>3 DEF J
  <1>11. p \in [0..N -> T]
    <2>1. p = [n \in 0..N |-> p[n]]
      BY <1>7 DEF PassesAt
    <2> QED
      BY <1>10, <2>1
  <1>12. Passes(p, N, ways, from, to)
    BY <1>9 DEF Passes
  <1> QED
    BY <1>8, <1>11, <1>12 DEF N, T, ways

\* The edges the search for a way has come by.
LEMMA SearchIsTree ==
  ASSUME NEW ls \in StationLists, NEW from \in Stations, NEW to
  PROVE  Search(ls, from, to) \in SearchStates /\ Tree(Ways(ls), from, Search(ls, from, to))
  <1>1. PICK p \in [0..Cardinality(Stations) -> Trees(Ways(ls), from)] :
            Search(ls, from, to) = p[Cardinality(Stations)]
    BY SearchRuns
  <1>2. Cardinality(Stations) \in 0..Cardinality(Stations)
    BY CountIsNat
  <1>3. Search(ls, from, to) \in Trees(Ways(ls), from)
    BY <1>1, <1>2
  <1> QED
    BY <1>3 DEF Trees

-----------------------------------------------------------------------------
(* The path back.                                                            *)

\* Where the path so far begins, and what a path to `to` is.
Cursor(path, to) == IF path = <<>> THEN to ELSE Head(path).from
Joined(path) == \A i \in 1..(Len(path) - 1) : path[i].to = path[i + 1].from
EndsAt(path, to) == path = <<>> \/ path[Len(path)].to = to
BackAt(b, search, from, to) ==
    b = [n \in 0..Len(search.came) |->
            IF n = 0 THEN <<>>
            ELSE LET path == b[n - 1]
                     cursor == IF path = <<>> THEN to ELSE Head(path).from
                 IN  IF cursor = from THEN path
                     ELSE <<CameTo(search, cursor)>> \o path]

\* A path of the search, of no more than n edges, that begins at one of the
\* first places.
PathTo(path, search, from, to, n) ==
    /\ path \in Seq(PathEdges)
    /\ \A i \in 1..Len(path) : \E k \in 1..Len(search.came) : path[i] = search.came[k]
    /\ Joined(path) /\ EndsAt(path, to) /\ Len(path) <= n
    /\ \E k \in 0..(Len(search.came) - n) : Cursor(path, to) = Place(from, search, k)

\* The edge by which the search has come to a place.
LEMMA CameToPlace ==
  ASSUME NEW from, NEW search \in SearchStates, Distinct(from, search),
         NEW k \in 1..Len(search.came)
  PROVE  CameTo(search, search.came[k].to) = search.came[k]
  <1> DEFINE e == CameTo(search, search.came[k].to)
  <1>1. e \in Range(search.came) /\ e.to = search.came[k].to
    <2>1. search.came[k] \in Range(search.came)
      BY SearchTyped, RangeIs
    <2> QED
      BY <2>1 DEF CameTo
  <1> HIDE DEF e
  <1>2. PICK j \in 1..Len(search.came) : search.came[j] = e
    BY <1>1, SearchTyped, RangeIs
  <1>3. j = k
    <2>0. Len(search.came) \in Nat
      BY SearchTyped
    <2>1. j < k => j \in 1..(k - 1)
      BY <2>0
    <2>2. k < j => k \in 1..(j - 1)
      BY <2>0
    <2>3. ~(j < k) /\ ~(k < j)
      BY <1>1, <1>2, <2>1, <2>2 DEF Distinct
    <2> QED
      BY <2>0, <2>3
  <1> QED
    BY <1>2, <1>3 DEF e

Longer(path, search, to) == <<CameTo(search, Cursor(path, to))>> \o path
LongerBack(longer, path, search, from, to, k) ==
    /\ k \in 1..Len(search.came)
    /\ longer \in Seq(PathEdges) /\ Len(longer) = Len(path) + 1
    /\ longer[1] = search.came[k]
    /\ \A i \in 2..Len(longer) : longer[i] = path[i - 1]
    /\ \E j \in 0..(k - 1) : Cursor(longer, to) = Place(from, search, j)
    /\ longer[1].to = Cursor(path, to)

\* A path that begins at a place is made longer by the edge to that place.
LEMMA OneBack ==
  ASSUME NEW ways, NEW from \in Stations, NEW to, NEW search \in SearchStates,
         Tree(ways, from, search), NEW path \in Seq(PathEdges),
         NEW k \in 0..Len(search.came), Cursor(path, to) = Place(from, search, k),
         Cursor(path, to) # from
  PROVE  LongerBack(Longer(path, search, to), path, search, from, to, k)
  <1>1. k \in 1..Len(search.came) /\ Cursor(path, to) = search.came[k].to
    <2>1. k # 0
      BY DEF Place
    <2> QED
      BY <2>1 DEF Place
  <1>2. Distinct(from, search)
    BY DEF Tree
  <1>3. CameTo(search, Cursor(path, to)) = search.came[k]
    BY <1>1, <1>2, CameToPlace
  <1>4. PICK e \in PathEdges : e = search.came[k]
    BY <1>1, SearchTyped
  <1>5. PICK longer : longer = Longer(path, search, to)
    OBVIOUS
  <1>6. longer = <<e>> \o path
    BY <1>3, <1>4, <1>5 DEF Longer
  <1>7. /\ longer \in Seq(PathEdges) /\ Len(longer) = Len(path) + 1 /\ longer[1] = e
        /\ longer # <<>> /\ Head(longer) = e
        /\ \A i \in 2..Len(longer) : longer[i] = path[i - 1]
    BY <1>6
  <1>8. PICK j \in 0..(k - 1) : e.from = Place(from, search, j)
    BY <1>1, <1>4 DEF Tree
  <1>9. Cursor(longer, to) = Place(from, search, j)
    BY <1>7, <1>8 DEF Cursor
  <1>10. longer[1].to = Cursor(path, to)
    BY <1>1, <1>4, <1>7
  <1> QED
    BY <1>1, <1>4, <1>5, <1>7, <1>9, <1>10 DEF LongerBack

\* Each step back along the tree makes the path longer by an edge, and joins it.
LEMMA PathGrows ==
  ASSUME NEW ways, NEW from \in Stations, NEW to, NEW search \in SearchStates,
         Tree(ways, from, search), NEW n \in 1..Len(search.came),
         NEW path, PathTo(path, search, from, to, n - 1)
  PROVE  LET longer == IF Cursor(path, to) = from THEN path
                       ELSE <<CameTo(search, Cursor(path, to))>> \o path
         IN  PathTo(longer, search, from, to, n)
  <1>0. Len(search.came) \in Nat
    BY SearchTyped
  <1>1. path \in Seq(PathEdges) /\ Len(path) \in Nat
    BY DEF PathTo
  <1>2. PICK k \in 0..(Len(search.came) - (n - 1)) : Cursor(path, to) = Place(from, search, k)
    BY DEF PathTo
  <1>3. k \in 0..Len(search.came)
    BY <1>0
  <1>4. CASE Cursor(path, to) = from
    <2>1. 0 \in 0..(Len(search.came) - n) /\ Cursor(path, to) = Place(from, search, 0)
      BY <1>0, <1>4 DEF Place
    <2>2. Len(path) <= n
      BY <1>1 DEF PathTo
    <2> QED
      BY <1>4, <2>1, <2>2 DEF PathTo
  <1>5. CASE Cursor(path, to) # from
    <2>1. PICK longer : longer = Longer(path, search, to)
      OBVIOUS
    <2>0. LongerBack(longer, path, search, from, to, k)
      BY <1>1, <1>2, <1>3, <1>5, <2>1, OneBack
    <2>2. /\ k \in 1..Len(search.came)
          /\ longer \in Seq(PathEdges) /\ Len(longer) = Len(path) + 1
          /\ longer[1] = search.came[k]
          /\ \A i \in 2..Len(longer) : longer[i] = path[i - 1]
          /\ \E j \in 0..(k - 1) : Cursor(longer, to) = Place(from, search, j)
          /\ longer[1].to = Cursor(path, to)
      BY <2>0 DEF LongerBack
    <2>3. \A i \in 1..Len(longer) : i = 1 \/ (i \in 2..Len(longer) /\ i - 1 \in 1..Len(path))
      BY <1>1, <2>2
    <2>4. \A i \in 1..Len(longer) : \E m \in 1..Len(search.came) : longer[i] = search.came[m]
      BY <2>2, <2>3 DEF PathTo
    <2>5. ASSUME NEW i \in 1..(Len(longer) - 1) PROVE longer[i].to = longer[i + 1].from
      <3>0. longer[i + 1] = path[i] /\ i \in 1..Len(path)
        BY <1>1, <2>2
      <3>1. CASE i = 1
        <4>1. path # <<>> /\ Head(path) = path[1]
          BY <1>1, <3>0
        <4>2. Cursor(path, to) = path[1].from
          BY <4>1 DEF Cursor
        <4> QED
          BY <2>2, <3>0, <3>1, <4>2
      <3>2. CASE i # 1
        <4>1. i - 1 \in 1..(Len(path) - 1) /\ i \in 2..Len(longer)
          BY <1>1, <2>2, <3>0, <3>2
        <4>2. path[i - 1].to = path[(i - 1) + 1].from /\ (i - 1) + 1 = i
          BY <4>1 DEF PathTo, Joined
        <4> QED
          BY <2>2, <3>0, <4>1, <4>2
      <3> QED
        BY <3>1, <3>2
    <2>6. longer[Len(longer)].to = to
      <3>1. CASE path = <<>>
        <4>1. Len(longer) = 1
          BY <2>2, <3>1
        <4> QED
          BY <2>2, <3>1, <4>1 DEF Cursor
      <3>2. CASE path # <<>>
        <4>1. Len(longer) \in 2..Len(longer) /\ Len(longer) - 1 = Len(path)
          BY <1>1, <2>2, <3>2
        <4>2. longer[Len(longer)] = path[Len(path)]
          BY <2>2, <4>1
        <4> QED
          BY <3>2, <4>2 DEF PathTo, EndsAt
      <3> QED
        BY <3>1, <3>2
    <2>7. Len(longer) <= n
      BY <1>1, <2>2 DEF PathTo
    <2>8. \E j \in 0..(Len(search.came) - n) : Cursor(longer, to) = Place(from, search, j)
      <3>1. PICK j \in 0..(k - 1) : Cursor(longer, to) = Place(from, search, j)
        BY <2>2
      <3>2. j \in 0..(Len(search.came) - n)
        BY <1>0, <1>2
      <3> QED
        BY <3>1, <3>2
    <2>9. PathTo(longer, search, from, to, n)
      BY <2>2, <2>4, <2>5, <2>6, <2>7, <2>8 DEF PathTo, Joined, EndsAt
    <2> QED
      BY <1>5, <2>1, <2>9 DEF Longer
  <1> QED
    BY <1>4, <1>5

\* The path back comes from where the search began.
LEMMA BackRuns ==
  ASSUME NEW ways, NEW from \in Stations, NEW to \in Stations, NEW search \in SearchStates,
         Tree(ways, from, search), to \in Reached(search, from),
         NEW b, b = CHOOSE x : BackAt(x, search, from, to)
  PROVE  PathTo(b[Len(search.came)], search, from, to, Len(search.came))
  <1> DEFINE N == Len(search.came)
             P == {path \in Seq(PathEdges) :
                     \E k \in 0..N : Cursor(path, to) = Place(from, search, k)}
             next(path) == IF Cursor(path, to) = from THEN path
                           ELSE <<CameTo(search, Cursor(path, to))>> \o path
             step == [n \in 1..N |-> [path \in P |-> next(path)]]
  <1>0. N \in Nat
    BY SearchTyped
  <1>1. PICK k0 \in 0..N : to = Place(from, search, k0)
    <2>1. CASE to = from
      BY <1>0, <2>1 DEF Place
    <2>2. CASE to # from
      <3>1. PICK k \in 1..N : search.came[k].to = to
        BY <2>2, ReachedIs
      <3> QED
        BY <1>0, <3>1 DEF Place
    <2> QED
      BY <2>1, <2>2
  <1>2. <<>> \in P
    <2>1. <<>> \in Seq(PathEdges) /\ Cursor(<<>>, to) = to
      BY DEF Cursor
    <2> QED
      BY <1>1, <2>1
  <1>3. ASSUME NEW path \in P PROVE next(path) \in P
    <2>1. CASE Cursor(path, to) = from
      BY <2>1
    <2>2. CASE Cursor(path, to) # from
      <3>1. PICK k \in 0..N : Cursor(path, to) = Place(from, search, k)
        OBVIOUS
      <3>2. PICK longer : longer = Longer(path, search, to)
        OBVIOUS
      <3>0. LongerBack(longer, path, search, from, to, k)
        BY <2>2, <3>1, <3>2, OneBack
      <3>3. /\ k \in 1..N /\ longer \in Seq(PathEdges)
            /\ \E j \in 0..(k - 1) : Cursor(longer, to) = Place(from, search, j)
        BY <3>0 DEF LongerBack
      <3>4. \A j \in 0..(k - 1) : j \in 0..N
        BY <1>0
      <3>5. longer \in P
        BY <3>3, <3>4
      <3> QED
        BY <2>2, <3>2, <3>5 DEF Longer
    <2> QED
      BY <2>1, <2>2
  <1>4. step \in [1..N -> [P -> P]]
    <2> HIDE DEF P, next, N
    <2> QED
      BY <1>3
  <1>5. PICK f \in [0..N -> P] : Loop(f, N, <<>>, step)
    <2> HIDE DEF step, P, N
    <2> QED
      BY <1>0, <1>2, <1>4, LoopRuns
  <1>6. f[0] = <<>> /\ \A n \in 1..N : f[n] = next(f[n - 1])
    <2>1. f[0] = <<>> /\ \A n \in 1..N : f[n] = step[n][f[n - 1]]
      <3> HIDE DEF step, P
      <3> QED
        BY <1>5 DEF Loop
    <2> HIDE DEF P, next, N
    <2>2. \A n \in 1..N : f[n - 1] \in P
      BY <1>0
    <2>3. \A n \in 1..N : \A path \in P : step[n][path] = next(path)
      OBVIOUS
    <2> HIDE DEF step
    <2> QED
      BY <2>1, <2>2, <2>3
  <1>7. BackAt(f, search, from, to)
    <2>1. f = [n \in 0..N |-> f[n]]
      OBVIOUS
    <2>2. \A n \in 0..N : f[n] = IF n = 0 THEN <<>> ELSE next(f[n - 1])
      <3> HIDE DEF next
      <3> QED
        BY <1>0, <1>6
    <2> QED
      BY <2>1, <2>2 DEF BackAt, Cursor
  <1>8. BackAt(b, search, from, to)
    BY <1>7
  <1>9. b[0] = <<>> /\ \A n \in 1..N : b[n] = next(b[n - 1])
    <2>1. \A n \in 0..N : b[n] = IF n = 0 THEN <<>> ELSE next(b[n - 1])
      BY <1>8 DEF BackAt, Cursor
    <2> HIDE DEF next
    <2> QED
      BY <1>0, <2>1
  <1> DEFINE J == {n \in 0..N : PathTo(b[n], search, from, to, n)}
  <1>10. 0 \in J
    <2>1. PathTo(<<>>, search, from, to, 0)
      <3>1. k0 \in 0..(N - 0) /\ Cursor(<<>>, to) = Place(from, search, k0)
        BY <1>0, <1>1 DEF Cursor
      <3>2. <<>> \in Seq(PathEdges) /\ Joined(<<>>) /\ EndsAt(<<>>, to) /\ Len(<<>>) = 0
        BY DEF Joined, EndsAt
      <3> QED
        BY <3>1, <3>2 DEF PathTo
    <2> QED
      BY <1>0, <1>9, <2>1
  <1>11. ASSUME NEW n \in 1..N, n - 1 \in J PROVE n \in J
    <2>1. PathTo(b[n - 1], search, from, to, n - 1)
      BY <1>11
    <2>2. PathTo(next(b[n - 1]), search, from, to, n)
      BY <2>1, PathGrows
    <2>3. b[n] = next(b[n - 1])
      BY <1>9
    <2> QED
      BY <2>2, <2>3
  <1> HIDE DEF J, N
  <1>12. 0..N \subseteq J
    BY <1>0, <1>10, <1>11, IntervalInduction
  <1>13. N \in J
    BY <1>0, <1>12
  <1> QED
    BY <1>13 DEF J, N

\* A way that is found joins the two stations, edge by edge.
LEMMA FoundPath ==
  ASSUME NEW ls \in StationLists, NEW from \in Stations, NEW to \in Stations,
         to \in Reached(Search(ls, from, to), from)
  PROVE  /\ PathTo(FindPath(ls, from, to), Search(ls, from, to), from, to,
                   Len(Search(ls, from, to).came))
         /\ Cursor(FindPath(ls, from, to), to) = from
  <1>1. PICK search : search = Search(ls, from, to)
    OBVIOUS
  <1> DEFINE b == CHOOSE x : BackAt(x, search, from, to)
  <1>2. search \in SearchStates /\ Tree(Ways(ls), from, search)
    BY <1>1, SearchIsTree
  <1>3. FindPath(ls, from, to) = b[Len(search.came)]
    BY <1>1 DEF FindPath, BackAt
  <1>4. PICK c : c = b
    OBVIOUS
  <1> HIDE DEF b
  <1>5. PathTo(c[Len(search.came)], search, from, to, Len(search.came))
    BY <1>1, <1>2, <1>4, BackRuns DEF b
  <1>6. PICK path : path = FindPath(ls, from, to)
    OBVIOUS
  <1>7. PathTo(path, search, from, to, Len(search.came))
    BY <1>3, <1>4, <1>5, <1>6
  <1>8. Cursor(path, to) = from
    <2>1. PICK k \in 0..(Len(search.came) - Len(search.came)) :
              Cursor(path, to) = Place(from, search, k)
      BY <1>7 DEF PathTo
    <2>2. k = 0
      BY <1>2, <2>1, SearchTyped
    <2> QED
      BY <2>1, <2>2 DEF Place
  <1> QED
    BY <1>1, <1>6, <1>7, <1>8

\* A path that is found leads from one station to the other.
LEMMA PathTravels ==
  ASSUME NEW ls \in StationLists, NEW from \in Stations, NEW to \in Stations,
         FindPath(ls, from, to) # <<>>
  PROVE  /\ FindPath(ls, from, to) \in Seq(PathEdges)
         /\ Joined(FindPath(ls, from, to))
         /\ FindPath(ls, from, to)[1].from = from
         /\ FindPath(ls, from, to)[Len(FindPath(ls, from, to))].to = to
  <1>1. to \in Reached(Search(ls, from, to), from)
    BY DEF FindPath
  <1>2. PICK path : path = FindPath(ls, from, to)
    OBVIOUS
  <1>3. PathTo(path, Search(ls, from, to), from, to, Len(Search(ls, from, to).came))
        /\ Cursor(path, to) = from
    BY <1>1, <1>2, FoundPath
  <1>4. path \in Seq(PathEdges) /\ Joined(path) /\ EndsAt(path, to)
    BY <1>3 DEF PathTo
  <1>5. path # <<>> /\ Head(path) = path[1]
    BY <1>2, <1>4
  <1> QED
    BY <1>2, <1>3, <1>4, <1>5 DEF Cursor, EndsAt

-----------------------------------------------------------------------------
(* The stops of a way.                                                       *)

Stops == [id : Stations, minute : Minute]
Turn(path, n) == n = Len(path) \/ path[n + 1].line # path[n].line
StopsTo(st, path) ==
    st = [n \in 0..Len(path) |->
            IF n = 0 THEN <<>>
            ELSE LET before == st[n - 1]
                 IN  IF n = Len(path) \/ path[n + 1].line # path[n].line
                     THEN Append(before, Stop(path[n].to, NoTime)) ELSE before]

\* Every turn up to the n-th edge is a stop.
TurnsStop(q, path, n) ==
    /\ q \in Seq(Stops)
    /\ \A i \in 1..n : Turn(path, i) => \E j \in 1..Len(q) : q[j].id = path[i].to

\* A stop consists of a station and a minute.
LEMMA StopTyped ==
  ASSUME NEW s \in Stations, NEW m \in Minute PROVE Stop(s, m) \in Stops
  BY DEF Stop, Stops

\* A step of the loop shows the turn, if there is one.
LEMMA OneStopMore ==
  ASSUME NEW path \in Seq(PathEdges), NEW n \in 1..Len(path), NEW q,
         TurnsStop(q, path, n - 1)
  PROVE  /\ Turn(path, n) => /\ TurnsStop(Append(q, Stop(path[n].to, NoTime)), path, n)
         /\ ~Turn(path, n) => TurnsStop(q, path, n)
  <1>0. q \in Seq(Stops) /\ Len(q) \in Nat
    BY DEF TurnsStop
  <1>1. \A i \in 1..n : i = n \/ i \in 1..(n - 1)
    OBVIOUS
  <1>2. ASSUME Turn(path, n) PROVE TurnsStop(Append(q, Stop(path[n].to, NoTime)), path, n)
    <2>1. PICK e : e = Stop(path[n].to, NoTime)
      OBVIOUS
    <2>2. e \in Stops /\ e.id = path[n].to
      <3>1. path[n] \in PathEdges
        OBVIOUS
      <3>2. path[n].to \in Stations /\ NoTime \in Minute
        BY <3>1 DEF PathEdges, EdgesOn, Minute
      <3> QED
        BY <2>1, <3>2, StopTyped DEF Stop
    <2>3. PICK a : a = Append(q, e)
      OBVIOUS
    <2>4. /\ a \in Seq(Stops) /\ Len(a) = Len(q) + 1 /\ a[Len(q) + 1] = e
          /\ \A j \in 1..Len(q) : a[j] = q[j]
      BY <1>0, <2>2, <2>3
    <2>5. ASSUME NEW i \in 1..n, Turn(path, i)
          PROVE  \E j \in 1..Len(a) : a[j].id = path[i].to
      <3>1. CASE i = n
        <4>1. Len(q) + 1 \in 1..Len(a)
          BY <1>0, <2>4
        <4> QED
          BY <2>2, <2>4, <3>1, <4>1
      <3>2. CASE i # n
        <4>1. PICK j \in 1..Len(q) : q[j].id = path[i].to
          BY <1>1, <2>5, <3>2 DEF TurnsStop
        <4>2. j \in 1..Len(a) /\ a[j] = q[j]
          BY <1>0, <2>4
        <4> QED
          BY <4>1, <4>2
      <3> QED
        BY <3>1, <3>2
    <2>6. TurnsStop(a, path, n)
      BY <2>4, <2>5 DEF TurnsStop
    <2> QED
      BY <2>1, <2>3, <2>6
  <1>3. ASSUME ~Turn(path, n) PROVE TurnsStop(q, path, n)
    BY <1>0, <1>1, <1>3 DEF TurnsStop
  <1> QED
    BY <1>2, <1>3

\* The stops of a path are collected by a loop over its edges.
LEMMA StopsLoop ==
  ASSUME NEW path \in Seq(PathEdges)
  PROVE  \E st : /\ st[0] = <<>>
                 /\ \A n \in 1..Len(path) :
                      st[n] = IF Turn(path, n)
                              THEN Append(st[n - 1], Stop(path[n].to, NoTime)) ELSE st[n - 1]
                 /\ \A n \in 0..Len(path) : TurnsStop(st[n], path, n)
                 /\ PathStops(path) = st[Len(path)]
  <1> DEFINE N == Len(path)
             S == Seq(Stops)
             next(n, q) == IF Turn(path, n) THEN Append(q, Stop(path[n].to, NoTime)) ELSE q
             step == [n \in 1..N |-> [q \in S |-> next(n, q)]]
             st == CHOOSE x : StopsTo(x, path)
  <1>0. N \in Nat
    OBVIOUS
  <1>1. <<>> \in S
    OBVIOUS
  <1>2. ASSUME NEW n \in 1..N, NEW q \in S PROVE next(n, q) \in S
    <2>1. Stop(path[n].to, NoTime) \in Stops
      <3>1. path[n] \in PathEdges
        OBVIOUS
      <3>2. path[n].to \in Stations /\ NoTime \in Minute
        BY <3>1 DEF PathEdges, EdgesOn, Minute
      <3> QED
        BY <3>2, StopTyped
    <2> QED
      BY <2>1
  <1>8. PathStops(path) = st[N]
    BY DEF PathStops, StopsTo
  <1>3. step \in [1..N -> [S -> S]]
    <2> HIDE DEF S, next, N
    <2> QED
      BY <1>2
  <1>4. PICK f \in [0..N -> S] : Loop(f, N, <<>>, step)
    <2> HIDE DEF step, S, N
    <2> QED
      BY <1>0, <1>1, <1>3, LoopRuns
  <1>5. f[0] = <<>> /\ \A n \in 1..N : f[n] = next(n, f[n - 1])
    <2>1. f[0] = <<>> /\ \A n \in 1..N : f[n] = step[n][f[n - 1]]
      <3> HIDE DEF step, S
      <3> QED
        BY <1>4 DEF Loop
    <2> HIDE DEF S, next, N
    <2>2. \A n \in 1..N : f[n - 1] \in S
      BY <1>0
    <2>3. \A n \in 1..N : \A q \in S : step[n][q] = next(n, q)
      OBVIOUS
    <2> HIDE DEF step
    <2> QED
      BY <2>1, <2>2, <2>3
  <1>6. StopsTo(f, path)
    <2>1. f = [n \in 0..N |-> f[n]]
      OBVIOUS
    <2>2. \A n \in 0..N : f[n] = IF n = 0 THEN <<>> ELSE next(n, f[n - 1])
      <3> HIDE DEF next
      <3> QED
        BY <1>0, <1>5
    <2> QED
      BY <2>1, <2>2 DEF StopsTo, Turn
  <1>7. StopsTo(st, path)
    BY <1>6
  <1> HIDE DEF st
  <1>9. st[0] = <<>> /\ \A n \in 1..N : st[n] = next(n, st[n - 1])
    <2>1. \A n \in 0..N : st[n] = IF n = 0 THEN <<>> ELSE next(n, st[n - 1])
      BY <1>7 DEF StopsTo, Turn
    <2> HIDE DEF next
    <2> QED
      BY <1>0, <2>1
  <1>10. \A n \in 0..N : TurnsStop(st[n], path, n)
    <2> DEFINE J == {n \in 0..N : TurnsStop(st[n], path, n)}
    <2>1. 0 \in J
      <3>1. TurnsStop(<<>>, path, 0)
        BY DEF TurnsStop
      <3> QED
        BY <1>0, <1>9, <3>1
    <2>2. ASSUME NEW n \in 1..N, n - 1 \in J PROVE n \in J
      <3>1. TurnsStop(st[n - 1], path, n - 1)
        BY <2>2
      <3>2. TurnsStop(next(n, st[n - 1]), path, n)
        BY <3>1, OneStopMore
      <3>3. TurnsStop(st[n], path, n)
        BY <1>9, <3>2
      <3> QED
        BY <3>3
    <2> HIDE DEF J, N
    <2>3. 0..N \subseteq J
      BY <1>0, <2>1, <2>2, IntervalInduction
    <2> QED
      BY <2>3 DEF J
  <1> QED
    BY <1>8, <1>9, <1>10

\* The last stop is the end of the way, and every turn is a stop.
LEMMA PathStopsTurns ==
  ASSUME NEW path \in Seq(PathEdges), path # <<>>
  PROVE  /\ PathStops(path) \in Seq(Stops) /\ Len(PathStops(path)) >= 1
         /\ PathStops(path)[Len(PathStops(path))].id = path[Len(path)].to
         /\ \A i \in 1..Len(path) : Turn(path, i) =>
               \E j \in 1..Len(PathStops(path)) : PathStops(path)[j].id = path[i].to
  <1>1. PICK st : /\ st[0] = <<>>
                  /\ \A n \in 1..Len(path) :
                       st[n] = IF Turn(path, n)
                               THEN Append(st[n - 1], Stop(path[n].to, NoTime)) ELSE st[n - 1]
                  /\ \A n \in 0..Len(path) : TurnsStop(st[n], path, n)
                  /\ PathStops(path) = st[Len(path)]
    BY StopsLoop
  <1>2. PICK n \in 1..Len(path) : n = Len(path) /\ n - 1 \in 0..Len(path) /\ n \in 0..Len(path)
    OBVIOUS
  <1>3. TurnsStop(st[n - 1], path, n - 1) /\ TurnsStop(st[n], path, n)
    BY <1>1, <1>2
  <1>4. PICK q : q = st[n - 1]
    OBVIOUS
  <1>5. q \in Seq(Stops) /\ st[n] = Append(q, Stop(path[n].to, NoTime))
    BY <1>1, <1>2, <1>3, <1>4 DEF TurnsStop, Turn
  <1>6. PICK a : a = PathStops(path)
    OBVIOUS
  <1>7. a = Append(q, Stop(path[n].to, NoTime)) /\ TurnsStop(a, path, n)
    BY <1>1, <1>2, <1>3, <1>5, <1>6
  <1>8. Len(a) = Len(q) + 1 /\ a[Len(q) + 1] = Stop(path[n].to, NoTime) /\ Len(q) \in Nat
    BY <1>5, <1>7
  <1>9. Len(a) >= 1 /\ a[Len(a)].id = path[n].to
    BY <1>8 DEF Stop
  <1> QED
    BY <1>2, <1>6, <1>7, <1>9 DEF TurnsStop

-----------------------------------------------------------------------------
(* The trains of a hop.                                                      *)

TrainNos == {NoTrain} \cup {r.train : r \in UNION Timetables}
Legs == [from : Stations, to : Stations, line : Range(Real), train : TrainNos,
         dep : Minute, arr : Minute]
InputsTyped ==
    /\ lists \in StationLists /\ rows \in Timetables
    /\ route \in Seq(Stations) /\ Len(route) >= 2 /\ asked \in Nat

\* A train from one station to another that is not too early.
TrainOf(t, from, to, after) ==
    /\ t.from = from /\ t.to = to /\ t.line \in Lines /\ t.train \in TrainNos
    /\ t.dep \in Nat /\ t.arr \in Nat /\ after <= t.dep /\ t.dep < t.arr
    /\ DOMAIN t = {"from", "to", "line", "train", "dep", "arr"}

\* A train arrives after it leaves, on a later day if need be.
LEMMA DayAfter ==
  ASSUME NEW minute \in Nat, NEW dep \in Nat
  PROVE  AfterDeparture(minute, dep) \in Nat /\ dep < AfterDeparture(minute, dep)
  <1>1. Day \in Nat \ {0}
    BY ScheduleAssumption
  <1>2. \A d \in Nat \ {0}, x \in Nat :
           x \div d \in Nat /\ d * (x \div d + 1) \in Nat /\ d * (x \div d + 1) > x
    OBVIOUS
  <1>3. CASE minute > dep
    BY <1>3 DEF AfterDeparture
  <1>4. CASE ~(minute > dep)
    <2>1. PICK x \in Nat : x = dep - minute
      BY <1>4
    <2>2. PICK y : y = Day * (x \div Day + 1)
      OBVIOUS
    <2>3. y \in Nat /\ y > x
      BY <1>1, <1>2, <2>2
    <2>4. AfterDeparture(minute, dep) = minute + y
      BY <1>4, <2>1, <2>2 DEF AfterDeparture
    <2> QED
      BY <2>1, <2>3, <2>4
  <1> QED
    BY <1>3, <1>4

\* The times and the train of a row.
LEMMA RowTyped ==
  ASSUME InputsTyped, NEW r \in rows
  PROVE  r.dep \in Minute /\ r.arr \in Minute /\ r.train \in TrainNos
  <1>1. \A x \in rows : {x.dep, x.arr} \subseteq Nat \cup {NoTime}
    BY ScheduleAssumption DEF InputsTyped
  <1>2. r \in UNION Timetables
    BY DEF InputsTyped
  <1> QED
    BY <1>1, <1>2 DEF Minute, TrainNos

\* The trains of a line are trains from there to there.
LEMMA TrainsTyped ==
  ASSUME InputsTyped, NEW from, NEW to, NEW l \in Lines, NEW after \in Nat,
         NEW t \in Trains(from, to, l, after)
  PROVE  TrainOf(t, from, to, after)
  <1>1. PICK p \in RowsAt(from, l) \X RowsAt(to, l) :
           /\ Departs(p[1]) >= after
           /\ t = Leg(from, to, l, p[1].train, Departs(p[1]),
                      AfterDeparture(Arrives(p[2]), Departs(p[1])))
    BY DEF Trains
  <1>2. p[1] \in rows /\ p[2] \in rows /\ Departs(p[1]) # NoTime /\ Departs(p[2]) # NoTime
    BY DEF RowsAt
  <1>3. Departs(p[1]) \in Nat
    BY <1>2, RowTyped DEF Departs, Minute
  <1>4. Arrives(p[2]) \in Nat
    BY <1>2, RowTyped DEF Departs, Arrives, Minute
  <1>5. p[1].train \in TrainNos
    BY <1>2, RowTyped
  <1>6. PICK dep, arr : /\ dep = Departs(p[1])
                        /\ arr = AfterDeparture(Arrives(p[2]), Departs(p[1]))
    OBVIOUS
  <1>7. dep \in Nat /\ arr \in Nat /\ dep < arr /\ dep >= after
    BY <1>1, <1>3, <1>4, <1>6, DayAfter
  <1>8. t = [from |-> from, to |-> to, line |-> l, train |-> p[1].train,
             dep |-> dep, arr |-> arr]
    BY <1>1, <1>6 DEF Leg
  <1> QED
    BY <1>5, <1>7, <1>8 DEF TrainOf

\* So is the first to arrive.
LEMMA FirstIsTrain ==
  ASSUME InputsTyped, NEW from, NEW to, NEW after \in Nat,
         NEW t \in FirstToArrive(from, to, after)
  PROVE  TrainOf(t, from, to, after)
  <1>1. PICK l \in Shared(from, to) : t \in NextTrains(from, to, l, after)
    BY DEF FirstToArrive
  <1>2. l \in Lines /\ t \in Trains(from, to, l, after)
    BY <1>1 DEF Shared, LinesAt, NextTrains
  <1> QED
    BY <1>2, TrainsTyped

\* The map knows stations only.
LEMMA KnownAreStations == InputsTyped => Known(lists) \subseteq Stations
  <1>1. ASSUME InputsTyped, NEW l \in Lines PROVE Range(lists[l]) \subseteq Stations
    <2>1. lists[l] \in Seq(Stations)
      BY <1>1 DEF InputsTyped, StationLists
    <2> QED
      BY <2>1, RangeIs
  <1> QED
    BY <1>1 DEF Known

\* A hop by train is a train, or two with the time to change.
OneTrain(h, from, to, after) == \E t : h = <<t>> /\ TrainOf(t, from, to, after)
TwoTrains(h, from, to, after) ==
    \E t, u : \E s \in Stations : /\ h = <<t, u>> /\ TrainOf(t, from, s, after)
                                  /\ TrainOf(u, s, to, t.arr + ChangeTime)

LEMMA RidesAreTrains ==
  ASSUME InputsTyped, NEW from, NEW to, NEW after \in Nat,
         NEW h \in TimedHops(from, to, after)
  PROVE  OneTrain(h, from, to, after) \/ TwoTrains(h, from, to, after)
  <1>1. CASE Shared(from, to) # {}
    <2>1. PICK t \in FirstToArrive(from, to, after) : h = <<t>>
      BY <1>1 DEF TimedHops
    <2> QED
      BY <2>1, FirstIsTrain DEF OneTrain
  <1>2. CASE Shared(from, to) = {}
    <2>1. PICK s \in Changes(from, to) : h \in Via(from, s, to, after)
      BY <1>2 DEF TimedHops
    <2>2. s \in Stations
      BY KnownAreStations DEF Changes
    <2>3. PICK t \in FirstToArrive(from, s, after) :
              h \in {<<t, u>> : u \in FirstToArrive(s, to, t.arr + ChangeTime)}
      BY <2>1 DEF Via
    <2>4. PICK u \in FirstToArrive(s, to, t.arr + ChangeTime) : h = <<t, u>>
      BY <2>3
    <2>5. TrainOf(t, from, s, after)
      BY FirstIsTrain
    <2>6. t.arr + ChangeTime \in Nat
      BY <2>5, ScheduleAssumption DEF TrainOf
    <2>7. TrainOf(u, s, to, t.arr + ChangeTime)
      BY <2>6, FirstIsTrain
    <2> QED
      BY <2>2, <2>4, <2>5, <2>7 DEF TwoTrains
  <1> QED
    BY <1>1, <1>2

-----------------------------------------------------------------------------
(* What a hop adds to the legs and the stops.                                *)

\* The legs join the first n + 1 stations of the route, and the stops end there.
Way(ls, ss, r, n) ==
    /\ ls \in Seq(Legs) /\ ss \in Seq(Stops)
    /\ Len(ss) >= 1 /\ ss[Len(ss)].id = r[n + 1]
    /\ n > 0 => Len(ls) >= 1
    /\ Len(ls) >= 1 => ls[1].from = r[1] /\ ls[Len(ls)].to = r[n + 1]
    /\ \A i \in 1..(Len(ls) - 1) : ls[i].to = ls[i + 1].from

\* A leg has both times or none, and they are within these.
Times(ls, begin, end) ==
    \A i \in 1..Len(ls) : /\ ls[i].dep = NoTime <=> ls[i].arr = NoTime
                          /\ ls[i].dep # NoTime => /\ begin <= ls[i].dep
                                                   /\ ls[i].dep < ls[i].arr
                                                   /\ ls[i].arr <= end

Pause(ls, r, i, j) == IF j = i + 1 /\ ls[i].to \notin Range(r) THEN ChangeTime ELSE 0

Caught(ls, r) ==
    \A i, j \in 1..Len(ls) :
        i < j /\ ls[i].arr # NoTime /\ ls[j].dep # NoTime =>
            ls[j].dep >= ls[i].arr + Pause(ls, r, i, j)

\* The chosen stations are stops, in their order.
Chosen(ss, r, n) ==
    \E f \in [1..(n + 1) -> 1..Len(ss)] :
        /\ \A i \in 1..(n + 1) : ss[f[i]].id = r[i]
        /\ \A i, j \in 1..(n + 1) : i < j => f[i] < f[j]

TurnsShown(ls, ss) ==
    \A i \in 1..(Len(ls) - 1) : ls[i].line # ls[i + 1].line =>
        \E j \in 1..Len(ss) : ss[j].id = ls[i].to

Badges(ls, ss) ==
    /\ Len(ss) = Len(ls) + 1
    /\ \A i \in 1..Len(ls) : ss[i].id = ls[i].from

\* The legs and the stops of a hop.
HopJoins(nl, ns, from, to) ==
    /\ nl \in Seq(Legs) /\ Len(nl) >= 1 /\ ns \in Seq(Stops) /\ Len(ns) >= 1
    /\ \A i \in 1..(Len(nl) - 1) : nl[i].to = nl[i + 1].from
    /\ nl[1].from = from /\ nl[Len(nl)].to = to /\ ns[Len(ns)].id = to
    /\ TurnsShown(nl, ns)

HopCaught(nl) ==
    \A i, j \in 1..Len(nl) :
        i < j /\ nl[i].arr # NoTime /\ nl[j].dep # NoTime =>
            nl[j].dep >= nl[i].arr + ChangeTime

HopBadges(nl, ns) == Len(ns) = Len(nl) /\ \A i \in 1..Len(nl) : ns[i].id = nl[i].to

\* Where the things of two joined sequences are.
LEMMA JoinedParts ==
  ASSUME NEW S, NEW r \in Seq(S), NEW t \in Seq(S)
  PROVE  /\ r \o t \in Seq(S) /\ Len(r \o t) = Len(r) + Len(t)
         /\ Len(r) \in Nat /\ Len(t) \in Nat
         /\ \A k \in 1..Len(r) : (r \o t)[k] = r[k]
         /\ \A k \in 1..Len(t) : (r \o t)[Len(r) + k] = t[k]
         /\ \A k \in 1..Len(r \o t) : k \in 1..Len(r) \/ k - Len(r) \in 1..Len(t)
  OBVIOUS

\* A hop leads on from where the legs end.
LEMMA HopKeepsWay ==
  ASSUME NEW ls, NEW ss, NEW r, NEW n \in Nat, NEW nl, NEW ns,
         Way(ls, ss, r, n), HopJoins(nl, ns, r[n + 1], r[n + 2])
  PROVE  Way(ls \o nl, ss \o ns, r, n + 1)
  <1>1. ls \in Seq(Legs) /\ nl \in Seq(Legs) /\ ss \in Seq(Stops) /\ ns \in Seq(Stops)
    BY DEF Way, HopJoins
  <1>2. PICK a, b : a = ls \o nl /\ b = ss \o ns
    OBVIOUS
  <1>3. PICK p \in Nat, q \in Nat : p = Len(ls) /\ q = Len(nl) /\ q >= 1
    BY <1>1 DEF HopJoins
  <1>4. /\ a \in Seq(Legs) /\ Len(a) = p + q
        /\ \A k \in 1..p : a[k] = ls[k]
        /\ \A k \in 1..q : a[p + k] = nl[k]
    <2>1. /\ ls \o nl \in Seq(Legs) /\ Len(ls \o nl) = Len(ls) + Len(nl)
          /\ \A k \in 1..Len(ls) : (ls \o nl)[k] = ls[k]
          /\ \A k \in 1..Len(nl) : (ls \o nl)[Len(ls) + k] = nl[k]
      BY <1>1, JoinedParts
    <2> QED
      BY <1>2, <1>3, <2>1
  <1>5. /\ b \in Seq(Stops) /\ Len(b) >= 1 /\ b[Len(b)].id = r[(n + 1) + 1]
    <2>1. PICK x \in Nat, y \in Nat : x = Len(ss) /\ y = Len(ns) /\ y >= 1
      BY <1>1 DEF HopJoins
    <2>2. /\ b \in Seq(Stops) /\ Len(b) = x + y /\ \A k \in 1..y : b[x + k] = ns[k]
      BY <1>1, <1>2, <2>1, JoinedParts
    <2>3. b[Len(b)] = ns[y] /\ Len(b) >= 1
      BY <2>1, <2>2
    <2>4. (n + 1) + 1 = n + 2
      OBVIOUS
    <2> QED
      BY <2>1, <2>2, <2>3, <2>4 DEF HopJoins
  <1>6. a[p + 1] = nl[1] /\ a[p + q] = nl[q]
    BY <1>3, <1>4
  <1>7. a[p + q].to = r[(n + 1) + 1]
    <2>1. (n + 1) + 1 = n + 2
      OBVIOUS
    <2> QED
      BY <1>3, <1>6, <2>1 DEF HopJoins
  <1>8. a[1].from = r[1]
    <2>1. CASE p = 0
      <3>1. n = 0
        BY <1>3, <2>1 DEF Way
      <3>2. a[1] = nl[1]
        BY <1>3, <1>6, <2>1
      <3> QED
        BY <3>1, <3>2 DEF HopJoins
    <2>2. CASE p # 0
      <3>1. a[1] = ls[1] /\ p >= 1
        BY <1>3, <1>4, <2>2
      <3> QED
        BY <1>3, <3>1 DEF Way
    <2> QED
      BY <2>1, <2>2
  <1>9. ASSUME NEW i \in 1..((p + q) - 1) PROVE a[i].to = a[i + 1].from
    <2>1. CASE i < p
      <3>1. i \in 1..(p - 1) /\ i \in 1..p /\ i + 1 \in 1..p
        BY <1>3, <2>1
      <3>2. ls[i].to = ls[i + 1].from
        BY <1>3, <3>1 DEF Way
      <3> QED
        BY <1>4, <3>1, <3>2
    <2>2. CASE i = p
      <3>1. p >= 1 /\ p \in 1..p
        BY <1>3, <2>2
      <3>2. ls[p].to = r[n + 1] /\ nl[1].from = r[n + 1]
        BY <1>3, <3>1 DEF Way, HopJoins
      <3> QED
        BY <1>4, <1>6, <2>2, <3>1, <3>2
    <2>3. CASE i > p
      <3>1. i - p \in 1..(q - 1) /\ i - p \in 1..q /\ (i - p) + 1 \in 1..q
            /\ p + (i - p) = i /\ p + ((i - p) + 1) = i + 1
        BY <1>3, <2>3
      <3>2. nl[i - p].to = nl[(i - p) + 1].from
        BY <1>3, <3>1 DEF HopJoins
      <3>3. a[i] = nl[i - p] /\ a[i + 1] = nl[(i - p) + 1]
        BY <1>4, <3>1
      <3> QED
        BY <3>2, <3>3
    <2> QED
      BY <1>3, <2>1, <2>2, <2>3
  <1>10. Len(a) >= 1
    BY <1>3, <1>4
  <1>11. Way(a, b, r, n + 1)
    BY <1>4, <1>5, <1>7, <1>8, <1>9, <1>10 DEF Way
  <1> QED
    BY <1>2, <1>11

\* Its times are after those of the legs before.
LEMMA HopKeepsTimes ==
  ASSUME NEW ls \in Seq(Legs), NEW nl \in Seq(Legs), NEW begin \in Nat,
         NEW end \in Nat, NEW end2 \in Nat, begin <= end, end <= end2,
         Times(ls, begin, end), Times(nl, end, end2)
  PROVE  Times(ls \o nl, begin, end2)
  <1>1. PICK a : a = ls \o nl
    OBVIOUS
  <1>2. ASSUME NEW i \in 1..Len(a)
        PROVE  /\ a[i].dep = NoTime <=> a[i].arr = NoTime
               /\ a[i].dep # NoTime => begin <= a[i].dep /\ a[i].dep < a[i].arr /\ a[i].arr <= end2
    <2>1. CASE i \in 1..Len(ls)
      <3>1. a[i] = ls[i]
        BY <1>1, <2>1, JoinedParts
      <3>2. ls[i].dep \in Minute /\ ls[i].arr \in Minute
        <4>1. ls[i] \in Legs
          BY <2>1
        <4> QED
          BY <4>1 DEF Legs
      <3> QED
        BY <2>1, <3>1, <3>2 DEF Times, Minute
    <2>2. CASE i \notin 1..Len(ls)
      <3>1. PICK k \in 1..Len(nl) : a[i] = nl[k]
        <4>1. i - Len(ls) \in 1..Len(nl)
          BY <1>1, <2>2, JoinedParts
        <4>2. Len(ls) + (i - Len(ls)) = i
          BY LenIsNat
        <4> QED
          BY <1>1, <4>1, <4>2, JoinedParts
      <3>2. nl[k].dep \in Minute /\ nl[k].arr \in Minute
        <4>1. nl[k] \in Legs
          OBVIOUS
        <4> QED
          BY <4>1 DEF Legs
      <3> QED
        BY <3>1, <3>2 DEF Times, Minute
    <2> QED
      BY <2>1, <2>2
  <1> QED
    BY <1>1, <1>2 DEF Times

\* So its trains are caught.
LEMMA HopKeepsCaught ==
  ASSUME NEW ls \in Seq(Legs), NEW nl \in Seq(Legs), NEW begin \in Nat,
         NEW end \in Nat, NEW end2 \in Nat, NEW r, NEW n \in Nat,
         Times(ls, begin, end), Times(nl, end, end2),
         Caught(ls, r), HopCaught(nl),
         Len(ls) >= 1 => ls[Len(ls)].to \in Range(r)
  PROVE  Caught(ls \o nl, r)
  <1>1. PICK a : a = ls \o nl
    OBVIOUS
  <1>2. PICK p \in Nat, q \in Nat : p = Len(ls) /\ q = Len(nl)
    BY LenIsNat
  <1>3. /\ \A k \in 1..p : a[k] = ls[k]
        /\ \A k \in 1..q : a[p + k] = nl[k]
        /\ Len(a) = p + q
    <2>1. /\ Len(a) = Len(ls) + Len(nl) /\ \A k \in 1..Len(ls) : a[k] = ls[k]
          /\ \A k \in 1..Len(nl) : a[Len(ls) + k] = nl[k]
      BY <1>1
    <2> QED
      BY <1>2, <2>1
  <1>4. /\ \A k \in 1..p : ls[k].dep \in Minute /\ ls[k].arr \in Minute
        /\ \A k \in 1..q : nl[k].dep \in Minute /\ nl[k].arr \in Minute
    <2>1. \A k \in 1..p : ls[k] \in Legs
      BY <1>2
    <2>2. \A k \in 1..q : nl[k] \in Legs
      BY <1>2
    <2> QED
      BY <2>1, <2>2 DEF Legs
  <1>5. ChangeTime \in Nat
    BY ScheduleAssumption
  <1>6. ASSUME NEW i \in 1..Len(a), NEW j \in 1..Len(a), i < j,
               a[i].arr # NoTime, a[j].dep # NoTime
        PROVE  a[j].dep >= a[i].arr + Pause(a, r, i, j)
    <2>1. CASE j \in 1..p
      <3>1. i \in 1..p
        BY <1>2, <1>6, <2>1
      <3>2. a[i] = ls[i] /\ a[j] = ls[j]
        BY <1>3, <2>1, <3>1
      <3>3. ls[j].dep >= ls[i].arr + Pause(ls, r, i, j)
        BY <1>2, <1>6, <2>1, <3>1, <3>2 DEF Caught
      <3>4. Pause(a, r, i, j) = Pause(ls, r, i, j)
        BY <3>2 DEF Pause
      <3> QED
        BY <3>2, <3>3, <3>4
    <2>2. CASE j \notin 1..p
      <3>1. PICK m \in 1..q : j = p + m
        <4>1. j - p \in 1..q /\ j = p + (j - p)
          BY <1>2, <1>3, <2>2
        <4> QED
          BY <4>1
      <3>2. a[j] = nl[m]
        BY <1>3, <3>1
      <3>3. nl[m].dep \in Nat /\ end <= nl[m].dep
        BY <1>2, <1>4, <1>6, <3>2 DEF Times, Minute
      <3>4. CASE i \in 1..p
        <4>1. a[i] = ls[i]
          BY <1>3, <3>4
        <4>2. ls[i].arr \in Nat /\ ls[i].arr <= end
          <5>1. ls[i].dep # NoTime
            BY <1>2, <1>6, <3>4, <4>1 DEF Times
          <5> QED
            BY <1>2, <1>4, <1>6, <3>4, <4>1, <5>1 DEF Times, Minute
        <4>3. Pause(a, r, i, j) = 0
          <5>1. CASE j = i + 1
            <6>1. i = p /\ p >= 1
              BY <1>2, <3>1, <3>4, <5>1
            <6> QED
              BY <1>2, <4>1, <6>1 DEF Pause
          <5>2. CASE j # i + 1
            BY <5>2 DEF Pause
          <5> QED
            BY <5>1, <5>2
        <4>4. \A d, t, e \in Nat : t <= e /\ e <= d => d >= t + 0
          OBVIOUS
        <4>5. nl[m].dep >= ls[i].arr + 0
          BY <3>3, <4>2, <4>4
        <4>6. a[j].dep >= a[i].arr + 0
          BY <3>2, <4>1, <4>5
        <4> QED
          BY <4>3, <4>6
      <3>5. CASE i \notin 1..p
        <4>1. PICK k \in 1..q : i = p + k
          <5>1. i - p \in 1..q /\ i = p + (i - p)
            BY <1>2, <1>3, <3>5
          <5> QED
            BY <5>1
        <4>2. a[i] = nl[k] /\ k < m
          BY <1>2, <1>3, <1>6, <3>1, <4>1
        <4>3. nl[m].dep >= nl[k].arr + ChangeTime
          BY <1>2, <1>6, <3>2, <4>2 DEF HopCaught
        <4>4. nl[k].arr \in Nat
          BY <1>4, <1>6, <4>2 DEF Minute
        <4>5. Pause(a, r, i, j) = 0 \/ Pause(a, r, i, j) = ChangeTime
          BY DEF Pause
        <4>6. Pause(a, r, i, j) <= ChangeTime /\ Pause(a, r, i, j) \in Nat
          BY <1>5, <4>5
        <4>7. \A d, t, c, z \in Nat : d >= t + c /\ z <= c => d >= t + z
          OBVIOUS
        <4>8. nl[m].dep >= nl[k].arr + Pause(a, r, i, j)
          BY <1>5, <3>3, <4>3, <4>4, <4>6, <4>7
        <4> QED
          BY <3>2, <4>2, <4>8
      <3> QED
        BY <3>4, <3>5
    <2> QED
      BY <2>1, <2>2
  <1> QED
    BY <1>1, <1>6 DEF Caught

\* The next chosen station is a stop, after those before it.
LEMMA HopKeepsChosen ==
  ASSUME NEW ss \in Seq(Stops), NEW ns \in Seq(Stops), NEW r, NEW n \in Nat,
         Chosen(ss, r, n), Len(ns) >= 1, ns[Len(ns)].id = r[n + 2]
  PROVE  Chosen(ss \o ns, r, n + 1)
  <1>1. PICK b : b = ss \o ns
    OBVIOUS
  <1>2. PICK x \in Nat, y \in Nat : x = Len(ss) /\ y = Len(ns) /\ y >= 1
    BY LenIsNat
  <1>3. /\ Len(b) = x + y /\ \A k \in 1..x : b[k] = ss[k]
        /\ \A k \in 1..y : b[x + k] = ns[k]
    BY <1>1, <1>2, JoinedParts
  <1>4. PICK f \in [1..(n + 1) -> 1..x] :
           /\ \A i \in 1..(n + 1) : ss[f[i]].id = r[i]
           /\ \A i, j \in 1..(n + 1) : i < j => f[i] < f[j]
    BY <1>2 DEF Chosen
  <1> DEFINE g == [i \in 1..((n + 1) + 1) |-> IF i = n + 2 THEN x + y ELSE f[i]]
  <1>5. \A i \in 1..((n + 1) + 1) : i = n + 2 \/ i \in 1..(n + 1)
    OBVIOUS
  <1>6. /\ \A i \in 1..((n + 1) + 1) : g[i] = IF i = n + 2 THEN x + y ELSE f[i]
        /\ g \in [1..((n + 1) + 1) -> 1..(x + y)]
    <2>1. x + y \in 1..(x + y)
      BY <1>2
    <2>2. \A i \in 1..(n + 1) : f[i] \in 1..(x + y)
      BY <1>2
    <2> QED
      BY <1>5, <2>1, <2>2
  <1> HIDE DEF g
  <1>7. ASSUME NEW i \in 1..((n + 1) + 1) PROVE b[g[i]].id = r[i]
    <2>1. CASE i = n + 2
      <3>1. g[i] = x + y /\ b[x + y] = ns[y]
        BY <1>2, <1>3, <1>6, <2>1
      <3> QED
        BY <1>2, <2>1, <3>1
    <2>2. CASE i # n + 2
      <3>1. i \in 1..(n + 1) /\ g[i] = f[i]
        BY <1>5, <1>6, <2>2
      <3>2. b[f[i]] = ss[f[i]]
        BY <1>3, <3>1
      <3> QED
        BY <1>4, <3>1, <3>2
    <2> QED
      BY <2>1, <2>2
  <1>8. ASSUME NEW i \in 1..((n + 1) + 1), NEW j \in 1..((n + 1) + 1), i < j
        PROVE  g[i] < g[j]
    <2>1. i \in 1..(n + 1) /\ g[i] = f[i] /\ f[i] \in 1..x
      <3>1. i \in 1..(n + 1) /\ i # n + 2
        BY <1>8
      <3> QED
        BY <1>6, <3>1
    <2>2. CASE j = n + 2
      BY <1>2, <1>6, <2>1, <2>2
    <2>3. CASE j # n + 2
      <3>1. j \in 1..(n + 1) /\ g[j] = f[j]
        BY <1>5, <1>6, <2>3
      <3> QED
        BY <1>4, <1>8, <2>1, <3>1
    <2> QED
      BY <2>2, <2>3
  <1>9. Chosen(b, r, n + 1)
    BY <1>3, <1>6, <1>7, <1>8 DEF Chosen
  <1> QED
    BY <1>1, <1>9

\* A turn within the hop or at its start is a stop.
LEMMA HopKeepsTurns ==
  ASSUME NEW ls, NEW ss, NEW r, NEW n \in Nat, NEW nl, NEW ns,
         Way(ls, ss, r, n), HopJoins(nl, ns, r[n + 1], r[n + 2]), TurnsShown(ls, ss)
  PROVE  TurnsShown(ls \o nl, ss \o ns)
  <1>1. ls \in Seq(Legs) /\ nl \in Seq(Legs) /\ ss \in Seq(Stops) /\ ns \in Seq(Stops)
    BY DEF Way, HopJoins
  <1>2. PICK a, b : a = ls \o nl /\ b = ss \o ns
    OBVIOUS
  <1>3. PICK p \in Nat, q \in Nat : p = Len(ls) /\ q = Len(nl) /\ q >= 1
    BY <1>1 DEF HopJoins
  <1>4. /\ Len(a) = p + q /\ \A k \in 1..p : a[k] = ls[k]
        /\ \A k \in 1..q : a[p + k] = nl[k]
    BY <1>1, <1>2, <1>3, JoinedParts
  <1>5. PICK x \in Nat, y \in Nat : x = Len(ss) /\ y = Len(ns) /\ x >= 1
    BY <1>1 DEF Way
  <1>6. /\ Len(b) = x + y /\ \A k \in 1..x : b[k] = ss[k]
        /\ \A k \in 1..y : b[x + k] = ns[k]
    BY <1>1, <1>2, <1>5, JoinedParts
  <1>7. ASSUME NEW i \in 1..((p + q) - 1), a[i].line # a[i + 1].line
        PROVE  \E j \in 1..Len(b) : b[j].id = a[i].to
    <2>1. CASE i < p
      <3>1. i \in 1..(p - 1) /\ i \in 1..p /\ i + 1 \in 1..p
        BY <1>3, <2>1
      <3>2. a[i] = ls[i] /\ a[i + 1] = ls[i + 1]
        BY <1>4, <3>1
      <3>3. PICK j \in 1..x : ss[j].id = ls[i].to
        BY <1>3, <1>5, <1>7, <3>1, <3>2 DEF TurnsShown
      <3>4. j \in 1..Len(b) /\ b[j] = ss[j]
        BY <1>5, <1>6
      <3> QED
        BY <3>2, <3>3, <3>4
    <2>2. CASE i = p
      <3>1. p >= 1 /\ a[i] = ls[p]
        BY <1>3, <1>4, <2>2
      <3>2. ls[p].to = r[n + 1] /\ ss[x].id = r[n + 1]
        BY <1>3, <1>5, <3>1 DEF Way
      <3>3. x \in 1..Len(b) /\ b[x] = ss[x]
        BY <1>5, <1>6
      <3> QED
        BY <3>1, <3>2, <3>3
    <2>3. CASE i > p
      <3>1. i - p \in 1..(q - 1) /\ i - p \in 1..q /\ (i - p) + 1 \in 1..q
            /\ p + (i - p) = i /\ p + ((i - p) + 1) = i + 1
        BY <1>3, <2>3
      <3>2. a[i] = nl[i - p] /\ a[i + 1] = nl[(i - p) + 1]
        BY <1>4, <3>1
      <3>3. PICK j \in 1..y : ns[j].id = nl[i - p].to
        BY <1>3, <1>5, <1>7, <3>1, <3>2 DEF HopJoins, TurnsShown
      <3>4. x + j \in 1..Len(b) /\ b[x + j] = ns[j]
        BY <1>5, <1>6
      <3> QED
        BY <3>2, <3>3, <3>4
    <2> QED
      BY <1>3, <2>1, <2>2, <2>3
  <1>8. TurnsShown(a, b)
    BY <1>4, <1>7 DEF TurnsShown
  <1> QED
    BY <1>2, <1>8

\* With all times known, a leg still leaves the stop of its number.
LEMMA HopKeepsBadges ==
  ASSUME NEW ls, NEW ss, NEW r, NEW n \in Nat, NEW nl, NEW ns,
         Way(ls, ss, r, n), HopJoins(nl, ns, r[n + 1], r[n + 2]),
         Badges(ls, ss), HopBadges(nl, ns)
  PROVE  Badges(ls \o nl, ss \o ns)
  <1>1. ls \in Seq(Legs) /\ nl \in Seq(Legs) /\ ss \in Seq(Stops) /\ ns \in Seq(Stops)
    BY DEF Way, HopJoins
  <1>2. PICK a, b : a = ls \o nl /\ b = ss \o ns
    OBVIOUS
  <1>3. PICK p \in Nat, q \in Nat : p = Len(ls) /\ q = Len(nl) /\ q >= 1
    BY <1>1 DEF HopJoins
  <1>4. /\ Len(a) = p + q /\ \A k \in 1..p : a[k] = ls[k]
        /\ \A k \in 1..q : a[p + k] = nl[k]
    BY <1>1, <1>2, <1>3, JoinedParts
  <1>5. /\ Len(ss) = p + 1 /\ Len(b) = (p + 1) + q
        /\ \A k \in 1..(p + 1) : b[k] = ss[k]
        /\ \A k \in 1..q : b[(p + 1) + k] = ns[k]
    <2>1. Len(ss) = p + 1 /\ Len(ns) = q
      BY <1>3 DEF Badges, HopBadges
    <2>2. /\ Len(b) = Len(ss) + Len(ns) /\ \A k \in 1..Len(ss) : b[k] = ss[k]
          /\ \A k \in 1..Len(ns) : b[Len(ss) + k] = ns[k]
      BY <1>1, <1>2
    <2> QED
      BY <2>1, <2>2
  <1>6. ASSUME NEW i \in 1..(p + q) PROVE b[i].id = a[i].from
    <2>1. CASE i <= p
      <3>1. i \in 1..p /\ i \in 1..(p + 1)
        BY <1>3, <2>1
      <3>2. ss[i].id = ls[i].from
        BY <1>3, <3>1 DEF Badges
      <3> QED
        BY <1>4, <1>5, <3>1, <3>2
    <2>2. CASE i = p + 1
      <3>1. b[i] = ss[p + 1] /\ a[i] = nl[1]
        BY <1>3, <1>4, <1>5, <2>2
      <3>2. ss[p + 1].id = r[n + 1] /\ nl[1].from = r[n + 1]
        BY <1>5 DEF Way, HopJoins
      <3> QED
        BY <3>1, <3>2
    <2>3. CASE i > p + 1
      <3>1. PICK k \in 1..(q - 1) : i = (p + 1) + k /\ i = p + (k + 1)
        <4>1. i - (p + 1) \in 1..(q - 1) /\ i = (p + 1) + (i - (p + 1))
              /\ i = p + ((i - (p + 1)) + 1)
          BY <1>3, <2>3
        <4> QED
          BY <4>1
      <3>2. k \in 1..q /\ k + 1 \in 1..q
        BY <1>3
      <3>3. b[i] = ns[k] /\ a[i] = nl[k + 1]
        BY <1>4, <1>5, <3>1, <3>2
      <3>4. ns[k].id = nl[k].to
        BY <1>3, <3>2 DEF HopBadges
      <3>5. nl[k].to = nl[k + 1].from
        BY <1>3, <3>1 DEF HopJoins
      <3> QED
        BY <3>3, <3>4, <3>5
    <2> QED
      BY <1>3, <2>1, <2>2, <2>3
  <1>7. Len(b) = Len(a) + 1
    BY <1>3, <1>4, <1>5
  <1>8. Badges(a, b)
    BY <1>4, <1>6, <1>7 DEF Badges
  <1> QED
    BY <1>2, <1>8

-----------------------------------------------------------------------------
(* The hops.                                                                 *)

RealLeg(t) == [t EXCEPT !.line = Real[t.line]]

\* The real name of the line is all that changes in a leg.
LEMMA RealLegIs ==
  ASSUME NEW from \in Stations, NEW to \in Stations, NEW after \in Nat, NEW t,
         TrainOf(t, from, to, after)
  PROVE  /\ RealLeg(t) \in Legs
         /\ RealLeg(t).from = from /\ RealLeg(t).to = to
         /\ RealLeg(t).dep = t.dep /\ RealLeg(t).arr = t.arr
         /\ t.dep # NoTime /\ t.arr # NoTime
  <1>1. PICK r : r = RealLeg(t)
    OBVIOUS
  <1>2. /\ r.from = from /\ r.to = to /\ r.line = Real[t.line] /\ r.train = t.train
        /\ r.dep = t.dep /\ r.arr = t.arr
    BY <1>1 DEF RealLeg, TrainOf
  <1>3. r = [x \in {"from", "to", "line", "train", "dep", "arr"} |-> r[x]]
    BY <1>1 DEF RealLeg, TrainOf
  <1>4. r = [from |-> r.from, to |-> r.to, line |-> r.line, train |-> r.train,
             dep |-> r.dep, arr |-> r.arr]
    BY <1>3
  <1>5. Real[t.line] \in Range(Real) /\ t.dep \in Minute /\ t.arr \in Minute
    BY LinesAre DEF TrainOf, Minute
  <1>6. r \in Legs
    BY <1>2, <1>4, <1>5 DEF Legs, TrainOf
  <1>7. t.dep # NoTime /\ t.arr # NoTime
    BY ScheduleAssumption DEF TrainOf
  <1> QED
    BY <1>1, <1>2, <1>6, <1>7

\* What a hop that is ridden adds.
RideFits(h, from, to, after) ==
    /\ HopJoins(RealLegs(h), TimedStops(h), from, to)
    /\ Times(RealLegs(h), after, Last(h).arr) /\ HopCaught(RealLegs(h))
    /\ HopBadges(RealLegs(h), TimedStops(h))
    /\ Last(h).arr \in Nat /\ after <= Last(h).arr

\* A hop by one train.
LEMMA OneTrainFits ==
  ASSUME NEW from \in Stations, NEW to \in Stations, NEW after \in Nat, NEW h,
         OneTrain(h, from, to, after)
  PROVE  RideFits(h, from, to, after)
  <1>1. PICK t : h = <<t>> /\ TrainOf(t, from, to, after)
    BY DEF OneTrain
  <1>2. PICK r \in Legs : r = RealLeg(t)
    BY <1>1, RealLegIs
  <1>3. /\ r.from = from /\ r.to = to /\ r.dep = t.dep /\ r.arr = t.arr
        /\ r.dep # NoTime /\ r.arr # NoTime /\ t.dep \in Nat /\ t.arr \in Nat
        /\ after <= t.dep /\ t.dep < t.arr
    BY <1>1, <1>2, RealLegIs DEF TrainOf
  <1>4. PICK nl : nl = RealLegs(h)
    OBVIOUS
  <1>5. PICK ns : ns = TimedStops(h)
    OBVIOUS
  <1>6. nl = <<r>>
    BY <1>1, <1>2, <1>4 DEF RealLegs, RealLeg
  <1>7. ns = <<Stop(to, t.arr)>>
    BY <1>1, <1>5 DEF TimedStops, TrainOf
  <1>8. Stop(to, t.arr) \in Stops /\ Stop(to, t.arr).id = to
    BY <1>3, StopTyped DEF Stop, Minute
  <1>9. Last(h) = t
    BY <1>1 DEF Last
  <1>10. nl \in Seq(Legs) /\ Len(nl) = 1 /\ nl[1] = r
    BY <1>6
  <1>11. ns \in Seq(Stops) /\ Len(ns) = 1 /\ ns[1].id = to
    BY <1>7, <1>8
  <1>12. HopJoins(nl, ns, from, to)
    BY <1>3, <1>10, <1>11 DEF HopJoins, TurnsShown
  <1>13. Times(nl, after, t.arr)
    BY <1>3, <1>10 DEF Times
  <1>14. HopCaught(nl) /\ HopBadges(nl, ns)
    BY <1>3, <1>10, <1>11 DEF HopCaught, HopBadges
  <1> QED
    BY <1>3, <1>4, <1>5, <1>9, <1>12, <1>13, <1>14 DEF RideFits

\* A hop by two trains, with the time to change.
LEMMA TwoTrainsFit ==
  ASSUME NEW from \in Stations, NEW to \in Stations, NEW after \in Nat, NEW h,
         TwoTrains(h, from, to, after)
  PROVE  RideFits(h, from, to, after)
  <1>0. ChangeTime \in Nat
    BY ScheduleAssumption
  <1>1. PICK t, u : \E s \in Stations : /\ h = <<t, u>> /\ TrainOf(t, from, s, after)
                                        /\ TrainOf(u, s, to, t.arr + ChangeTime)
    BY DEF TwoTrains
  <1>2. PICK s \in Stations : /\ h = <<t, u>> /\ TrainOf(t, from, s, after)
                              /\ TrainOf(u, s, to, t.arr + ChangeTime)
    BY <1>1
  <1>3. PICK r \in Legs : r = RealLeg(t)
    BY <1>2, RealLegIs
  <1>4. /\ r.from = from /\ r.to = s /\ r.dep = t.dep /\ r.arr = t.arr
        /\ r.dep # NoTime /\ r.arr # NoTime /\ t.dep \in Nat /\ t.arr \in Nat
        /\ after <= t.dep /\ t.dep < t.arr
    BY <1>2, <1>3, RealLegIs DEF TrainOf
  <1>5. t.arr + ChangeTime \in Nat
    BY <1>0, <1>4
  <1>6. PICK v \in Legs : v = RealLeg(u)
    BY <1>2, <1>5, RealLegIs
  <1>7. /\ v.from = s /\ v.to = to /\ v.dep = u.dep /\ v.arr = u.arr
        /\ v.dep # NoTime /\ v.arr # NoTime /\ u.dep \in Nat /\ u.arr \in Nat
        /\ t.arr + ChangeTime <= u.dep /\ u.dep < u.arr
    BY <1>2, <1>5, <1>6, RealLegIs DEF TrainOf
  <1>8. PICK nl : nl = RealLegs(h)
    OBVIOUS
  <1>9. PICK ns : ns = TimedStops(h)
    OBVIOUS
  <1>10. nl \in Seq(Legs) /\ Len(nl) = 2 /\ nl[1] = r /\ nl[2] = v
    <2>1. nl = <<r, v>>
      BY <1>2, <1>3, <1>6, <1>8 DEF RealLegs, RealLeg
    <2> QED
      BY <2>1
  <1>11. ns \in Seq(Stops) /\ Len(ns) = 2 /\ ns[1].id = s /\ ns[2].id = to
    <2>1. PICK x, y : x = Stop(s, t.arr) /\ y = Stop(to, u.arr)
      OBVIOUS
    <2>2. x \in Stops /\ y \in Stops /\ x.id = s /\ y.id = to
      BY <1>4, <1>7, <2>1, StopTyped DEF Stop, Minute
    <2>3. ns = <<x, y>>
      BY <1>2, <1>9, <2>1 DEF TimedStops, TrainOf
    <2> QED
      BY <2>2, <2>3
  <1>12. Last(h) = u
    BY <1>2 DEF Last
  <1>13. \A i \in 1..2 : i = 1 \/ i = 2
    OBVIOUS
  <1>14. HopJoins(nl, ns, from, to)
    <2>1. \A i \in 1..(Len(nl) - 1) : i = 1
      BY <1>10
    <2> QED
      BY <1>4, <1>7, <1>10, <1>11, <2>1 DEF HopJoins, TurnsShown
  <1>15. t.arr <= u.arr /\ after <= u.arr /\ after <= u.dep
    BY <1>0, <1>4, <1>7
  <1>16. Times(nl, after, u.arr)
    BY <1>4, <1>7, <1>10, <1>13, <1>15 DEF Times
  <1>17. HopCaught(nl)
    <2>1. ASSUME NEW i \in 1..2, NEW j \in 1..2, i < j PROVE i = 1 /\ j = 2
      BY <2>1
    <2> QED
      BY <1>4, <1>7, <1>10, <2>1 DEF HopCaught
  <1>18. HopBadges(nl, ns)
    BY <1>4, <1>7, <1>10, <1>11, <1>13 DEF HopBadges
  <1> QED
    BY <1>7, <1>8, <1>9, <1>12, <1>14, <1>15, <1>16, <1>17, <1>18 DEF RideFits

\* What a hop along the map adds.
LEMMA PathFits ==
  ASSUME NEW path \in Seq(PathEdges), path # <<>>, Joined(path)
  PROVE  /\ HopJoins(PathLegs(path), PathStops(path), path[1].from, path[Len(path)].to)
         /\ \A begin, end : Times(PathLegs(path), begin, end)
         /\ HopCaught(PathLegs(path))
         /\ Len(PathLegs(path)) = Len(path)
         /\ \A i \in 1..Len(path) : PathLegs(path)[i].dep = NoTime
  <1>1. PICK n \in Nat : n = Len(path) /\ n >= 1
    OBVIOUS
  <1>2. PICK nl : nl = PathLegs(path)
    OBVIOUS
  <1>3. PICK ns : ns = PathStops(path)
    OBVIOUS
  <1>4. \A i \in 1..n : path[i] \in PathEdges
    BY <1>1
  <1>5. \A i \in 1..n : nl[i] = Leg(path[i].from, path[i].to, path[i].line,
                                   NoTrain, NoTime, NoTime)
    BY <1>1, <1>2 DEF PathLegs
  <1>6. \A i \in 1..n : /\ nl[i].from = path[i].from /\ nl[i].to = path[i].to
                        /\ nl[i].line = path[i].line
                        /\ nl[i].dep = NoTime /\ nl[i].arr = NoTime
    <2>1. ASSUME NEW f, NEW t, NEW l, NEW x, x = Leg(f, t, l, NoTrain, NoTime, NoTime)
          PROVE  /\ x.from = f /\ x.to = t /\ x.line = l
                 /\ x.dep = NoTime /\ x.arr = NoTime
      BY <2>1 DEF Leg
    <2> QED
      BY <1>5, <2>1
  <1>7. ASSUME NEW e \in PathEdges
        PROVE  Leg(e.from, e.to, e.line, NoTrain, NoTime, NoTime) \in Legs
    BY DEF PathEdges, EdgesOn, Leg, Legs, Minute, TrainNos
  <1>8. nl \in [1..n -> Legs]
    <2>1. \A i \in 1..n : nl[i] \in Legs
      BY <1>4, <1>5, <1>7
    <2>2. nl = [i \in 1..n |-> nl[i]]
      BY <1>1, <1>2 DEF PathLegs
    <2> QED
      BY <2>1, <2>2
  <1>9. nl \in Seq(Legs) /\ Len(nl) = n
    BY <1>8, FunctionIsSequence
  <1>10. /\ ns \in Seq(Stops) /\ Len(ns) >= 1 /\ ns[Len(ns)].id = path[n].to
         /\ \A i \in 1..n : Turn(path, i) => \E j \in 1..Len(ns) : ns[j].id = path[i].to
    BY <1>1, <1>3, PathStopsTurns
  <1>11. ASSUME NEW i \in 1..(n - 1)
         PROVE  /\ nl[i].to = nl[i + 1].from
                /\ nl[i].line # nl[i + 1].line => \E j \in 1..Len(ns) : ns[j].id = nl[i].to
    <2>1. i \in 1..n /\ i + 1 \in 1..n
      BY <1>1
    <2>2. nl[i].to = nl[i + 1].from
      BY <1>1, <1>6, <2>1 DEF Joined
    <2>3. nl[i].line # nl[i + 1].line => Turn(path, i)
      BY <1>6, <2>1 DEF Turn
    <2> QED
      BY <1>6, <1>10, <2>1, <2>2, <2>3
  <1>12. 1 \in 1..n /\ n \in 1..n
    BY <1>1
  <1>13. HopJoins(nl, ns, path[1].from, path[n].to)
    BY <1>1, <1>6, <1>9, <1>10, <1>11, <1>12 DEF HopJoins, TurnsShown
  <1>14. HopCaught(nl) /\ \A begin, end : Times(nl, begin, end)
    BY <1>6, <1>9 DEF HopCaught, Times
  <1> QED
    BY <1>1, <1>2, <1>3, <1>6, <1>9, <1>13, <1>14

-----------------------------------------------------------------------------
(* The invariant.                                                            *)

\* The legs and the stops of the first n hops of a route.
Travelled(ls, ss, r, n, begin, end) ==
    /\ Way(ls, ss, r, n) /\ Times(ls, begin, end) /\ Caught(ls, r)
    /\ Chosen(ss, r, n) /\ TurnsShown(ls, ss)

ScheduleInv ==
    /\ InputsTyped /\ hop \in 0..(Len(route) - 1)
    /\ earliest \in Nat /\ asked <= earliest /\ timed \in BOOLEAN
    /\ outcome \in {"running", "done", "no way", "no rows"}
    /\ Travelled(legs, stops, route, hop, asked, earliest)
    /\ timed => Badges(legs, stops)

\* One hop more.
LEMMA HopKeeps ==
  ASSUME NEW ls, NEW ss, NEW r \in Seq(Stations), NEW n \in 0..(Len(r) - 2),
         NEW nl, NEW ns, NEW begin \in Nat, NEW end \in Nat, NEW end2 \in Nat,
         begin <= end, end <= end2, Travelled(ls, ss, r, n, begin, end),
         HopJoins(nl, ns, r[n + 1], r[n + 2]), Times(nl, end, end2), HopCaught(nl)
  PROVE  Travelled(ls \o nl, ss \o ns, r, n + 1, begin, end2)
  <1>0. n \in Nat /\ n + 1 \in 1..Len(r)
    BY LenIsNat
  <1>1. /\ Way(ls, ss, r, n) /\ Times(ls, begin, end) /\ Caught(ls, r)
        /\ Chosen(ss, r, n) /\ TurnsShown(ls, ss)
    BY DEF Travelled
  <1>2. ls \in Seq(Legs) /\ nl \in Seq(Legs) /\ ss \in Seq(Stops) /\ ns \in Seq(Stops)
        /\ Len(ns) >= 1 /\ ns[Len(ns)].id = r[n + 2]
    BY <1>1 DEF Way, HopJoins
  <1>3. Len(ls) >= 1 => ls[Len(ls)].to \in Range(r)
    <2>1. r[n + 1] \in Range(r)
      BY <1>0, RangeIs
    <2> QED
      BY <1>1, <2>1 DEF Way
  <1>4. Way(ls \o nl, ss \o ns, r, n + 1)
    BY <1>0, <1>1, HopKeepsWay
  <1>5. Times(ls \o nl, begin, end2)
    BY <1>1, <1>2, HopKeepsTimes
  <1>6. Caught(ls \o nl, r)
    BY <1>0, <1>1, <1>2, <1>3, HopKeepsCaught
  <1>7. Chosen(ss \o ns, r, n + 1)
    BY <1>0, <1>1, <1>2, HopKeepsChosen
  <1>8. TurnsShown(ls \o nl, ss \o ns)
    BY <1>0, <1>1, HopKeepsTurns
  <1> QED
    BY <1>4, <1>5, <1>6, <1>7, <1>8 DEF Travelled

\* The stations of the next hop.
LEMMA HopTo ==
  ASSUME ScheduleInv, hop < Len(route) - 1
  PROVE  /\ hop \in 0..(Len(route) - 2) /\ hop \in Nat
         /\ From \in Stations /\ To \in Stations
         /\ From = route[hop + 1] /\ To = route[hop + 2]
  <1>1. route \in Seq(Stations) /\ hop \in 0..(Len(route) - 1) /\ Len(route) \in Nat
    BY LenIsNat DEF ScheduleInv, InputsTyped
  <1>2. hop \in 0..(Len(route) - 2) /\ hop \in Nat /\ hop + 1 \in 1..Len(route)
        /\ hop + 2 \in 1..Len(route)
    BY <1>1
  <1>3. route[hop + 1] \in Stations /\ route[hop + 2] \in Stations
    BY <1>1, <1>2
  <1> QED
    BY <1>2, <1>3 DEF From, To

\* The start of a calculation.
LEMMA ScheduleInit == Init => ScheduleInv
  <1> SUFFICES ASSUME Init PROVE ScheduleInv
    OBVIOUS
  <1>1. InputsTyped
    BY ScheduleAssumption DEF Init, InputsTyped, StationLists
  <1>2. hop = 0 /\ legs = <<>> /\ earliest = asked /\ timed = TRUE /\ outcome = "running"
    BY DEF Init
  <1>3. route[1] \in Stations /\ Head(route) = route[1] /\ Len(route) \in Nat /\ Len(route) >= 2
    BY <1>1 DEF InputsTyped
  <1>4. PICK s \in Stops : s = Stop(Head(route), asked) /\ s.id = route[1]
    <2>1. Stop(route[1], asked) \in Stops
      BY <1>1, <1>3, StopTyped DEF Minute, InputsTyped
    <2> QED
      BY <1>3, <2>1 DEF Stop
  <1>5. stops = <<s>>
    BY <1>4 DEF Init
  <1>6. stops \in Seq(Stops) /\ Len(stops) = 1 /\ stops[1].id = route[1]
    BY <1>4, <1>5
  <1>7. legs \in Seq(Legs) /\ Len(legs) = 0
    BY <1>2
  <1>8. Way(legs, stops, route, hop)
    BY <1>2, <1>6, <1>7 DEF Way
  <1>9. Times(legs, asked, earliest) /\ Caught(legs, route) /\ TurnsShown(legs, stops)
    BY <1>7 DEF Times, Caught, TurnsShown
  <1>10. Chosen(stops, route, hop)
    <2>1. PICK f : f = [i \in 1..1 |-> 1]
      OBVIOUS
    <2>2. f \in [1..(hop + 1) -> 1..Len(stops)]
      BY <1>2, <1>6, <2>1
    <2>3. \A i \in 1..(hop + 1) : i = 1
      BY <1>2
    <2>4. f[1] = 1
      BY <2>1
    <2> QED
      BY <1>6, <2>2, <2>3, <2>4 DEF Chosen
  <1>11. Badges(legs, stops)
    BY <1>6, <1>7 DEF Badges
  <1>12. asked \in Nat
    BY <1>1 DEF InputsTyped
  <1>13. hop \in 0..(Len(route) - 1)
    BY <1>2, <1>3
  <1> QED
    BY <1>1, <1>2, <1>8, <1>9, <1>10, <1>11, <1>12, <1>13 DEF ScheduleInv, Travelled

\* The calculation leaves its inputs alone.
LEMMA ScheduleKeepsInputs ==
  ASSUME InputsTyped, UNCHANGED inputs
  PROVE  InputsTyped' /\ route' = route /\ asked' = asked
  BY DEF InputsTyped, inputs

\* A hop by train.
LEMMA ScheduleRide == ScheduleInv /\ Ride => ScheduleInv'
  <1> SUFFICES ASSUME ScheduleInv, Ride PROVE ScheduleInv'
    OBVIOUS
  <1>1. PICK h \in TimedHops(From, To, earliest) :
           /\ legs' = legs \o RealLegs(h) /\ stops' = stops \o TimedStops(h)
           /\ earliest' = Last(h).arr
    BY DEF Ride
  <1>2. /\ hop < Len(route) - 1 /\ hop' = hop + 1 /\ UNCHANGED inputs
        /\ UNCHANGED <<timed, outcome>>
    BY DEF Ride
  <1>3. /\ InputsTyped /\ earliest \in Nat /\ asked <= earliest /\ timed \in BOOLEAN
        /\ Travelled(legs, stops, route, hop, asked, earliest)
        /\ route \in Seq(Stations) /\ asked \in Nat /\ Len(route) \in Nat
        /\ timed => Badges(legs, stops)
    BY LenIsNat DEF ScheduleInv, InputsTyped
  <1>4. /\ hop \in 0..(Len(route) - 2) /\ hop \in Nat /\ From \in Stations /\ To \in Stations
        /\ From = route[hop + 1] /\ To = route[hop + 2]
    BY <1>2, HopTo
  <1>5. OneTrain(h, From, To, earliest) \/ TwoTrains(h, From, To, earliest)
    BY <1>3, RidesAreTrains
  <1>6. RideFits(h, From, To, earliest)
    BY <1>3, <1>4, <1>5, OneTrainFits, TwoTrainsFit
  <1>7. PICK nl, ns, end : nl = RealLegs(h) /\ ns = TimedStops(h) /\ end = Last(h).arr
    OBVIOUS
  <1>8. /\ HopJoins(nl, ns, route[hop + 1], route[hop + 2])
        /\ Times(nl, earliest, end) /\ HopCaught(nl) /\ HopBadges(nl, ns)
        /\ end \in Nat /\ earliest <= end
    BY <1>4, <1>6, <1>7 DEF RideFits
  <1>9. Travelled(legs \o nl, stops \o ns, route, hop + 1, asked, end)
    BY <1>3, <1>4, <1>8, HopKeeps
  <1>10. timed => Badges(legs \o nl, stops \o ns)
    <2>1. Way(legs, stops, route, hop)
      BY <1>3 DEF Travelled
    <2> QED
      BY <1>3, <1>4, <1>8, <2>1, HopKeepsBadges
  <1>11. InputsTyped' /\ route' = route /\ asked' = asked
    BY <1>2, <1>3, ScheduleKeepsInputs
  <1>12. legs' = legs \o nl /\ stops' = stops \o ns /\ earliest' = end
    BY <1>1, <1>7
  <1>13. Travelled(legs, stops, route, hop, asked, earliest)'
    BY <1>2, <1>9, <1>11, <1>12 DEF Travelled, Way, Times, Caught, Pause, Chosen, TurnsShown
  <1>14. timed' => Badges(legs', stops')
    BY <1>2, <1>10, <1>12
  <1>15. Badges(legs', stops') = Badges(legs, stops)'
    BY DEF Badges
  <1>16. hop' \in 0..(Len(route') - 1) /\ earliest' \in Nat /\ asked' <= earliest'
    BY <1>2, <1>3, <1>4, <1>8, <1>11, <1>12
  <1>17. timed' \in BOOLEAN /\ outcome' \in {"running", "done", "no way", "no rows"}
    BY <1>2 DEF ScheduleInv
  <1> QED
    BY <1>11, <1>13, <1>14, <1>15, <1>16, <1>17 DEF ScheduleInv

\* A hop along the map.
LEMMA ScheduleFollowMap == ScheduleInv /\ FollowMap => ScheduleInv'
  <1> SUFFICES ASSUME ScheduleInv, FollowMap PROVE ScheduleInv'
    OBVIOUS
  <1>1. PICK path : /\ path = FindPath(lists, From, To) /\ path # <<>>
                    /\ legs' = legs \o PathLegs(path) /\ stops' = stops \o PathStops(path)
    BY DEF FollowMap
  <1>2. /\ hop < Len(route) - 1 /\ hop' = hop + 1 /\ UNCHANGED inputs
        /\ UNCHANGED <<earliest, outcome>> /\ timed' = FALSE
    BY DEF FollowMap
  <1>3. /\ InputsTyped /\ earliest \in Nat /\ asked <= earliest
        /\ Travelled(legs, stops, route, hop, asked, earliest)
        /\ route \in Seq(Stations) /\ asked \in Nat /\ Len(route) \in Nat
        /\ lists \in StationLists
    BY LenIsNat DEF ScheduleInv, InputsTyped
  <1>4. /\ hop \in 0..(Len(route) - 2) /\ hop \in Nat /\ From \in Stations /\ To \in Stations
        /\ From = route[hop + 1] /\ To = route[hop + 2]
    BY <1>2, HopTo
  <1>5. path \in Seq(PathEdges) /\ Joined(path) /\ path[1].from = From /\ path[Len(path)].to = To
    BY <1>1, <1>3, <1>4, PathTravels
  <1>6. PICK nl, ns : nl = PathLegs(path) /\ ns = PathStops(path)
    OBVIOUS
  <1>7. /\ HopJoins(nl, ns, route[hop + 1], route[hop + 2])
        /\ Times(nl, earliest, earliest) /\ HopCaught(nl)
    BY <1>1, <1>4, <1>5, <1>6, PathFits
  <1>8. Travelled(legs \o nl, stops \o ns, route, hop + 1, asked, earliest)
    BY <1>3, <1>4, <1>7, HopKeeps
  <1>9. InputsTyped' /\ route' = route /\ asked' = asked
    BY <1>2, <1>3, ScheduleKeepsInputs
  <1>10. legs' = legs \o nl /\ stops' = stops \o ns /\ earliest' = earliest
    BY <1>1, <1>2, <1>6
  <1>11. Travelled(legs, stops, route, hop, asked, earliest)'
    BY <1>2, <1>8, <1>9, <1>10 DEF Travelled, Way, Times, Caught, Pause, Chosen, TurnsShown
  <1>12. hop' \in 0..(Len(route') - 1) /\ earliest' \in Nat /\ asked' <= earliest'
    BY <1>2, <1>3, <1>4, <1>9, <1>10
  <1>13. timed' = FALSE /\ outcome' \in {"running", "done", "no way", "no rows"}
    BY <1>2 DEF ScheduleInv
  <1> QED
    BY <1>9, <1>11, <1>12, <1>13 DEF ScheduleInv

\* An answer that is given, without a calculation.
LEMMA ScheduleGive ==
  ASSUME ScheduleInv, NEW result \in {"running", "done", "no way", "no rows"}, Give(result)
  PROVE  ScheduleInv'
  <1>1. /\ UNCHANGED inputs /\ UNCHANGED <<hop, legs, stops, earliest, timed>>
        /\ outcome' = result
    BY DEF Give
  <1>2. InputsTyped' /\ route' = route /\ asked' = asked
    BY <1>1, ScheduleKeepsInputs DEF ScheduleInv
  <1> QED
    BY <1>1, <1>2 DEF ScheduleInv, Travelled, Way, Times, Caught, Pause, Chosen,
                      TurnsShown, Badges

\* What the invariant says of legs, stops and route.
LEMMA PartsTyped ==
  ASSUME ScheduleInv
  PROVE  /\ legs \in Seq(Legs) /\ DOMAIN legs = 1..Len(legs) /\ Len(legs) \in Nat
         /\ stops \in Seq(Stops) /\ DOMAIN stops = 1..Len(stops)
         /\ route \in Seq(Stations) /\ hop \in 0..(Len(route) - 1) /\ hop \in Nat
         /\ Len(stops) >= 1
  <1>1. Way(legs, stops, route, hop)
    BY DEF ScheduleInv, Travelled
  <1>2. legs \in Seq(Legs) /\ stops \in Seq(Stops) /\ Len(stops) >= 1
    BY <1>1 DEF Way
  <1>3. route \in Seq(Stations) /\ hop \in 0..(Len(route) - 1)
    BY DEF ScheduleInv, InputsTyped
  <1> QED
    BY <1>2, <1>3

\* The first stop gets its time.
FirstTimed(ss, m) == [ss EXCEPT ![1].minute = m]

\* A time for the first stop leaves the stations of the stops.
LEMMA FirstStopTimed ==
  ASSUME NEW ss \in Seq(Stops), Len(ss) >= 1, NEW m \in Minute, NEW b,
         b = FirstTimed(ss, m)
  PROVE  b \in Seq(Stops) /\ Len(b) = Len(ss) /\ \A k \in 1..Len(ss) : b[k].id = ss[k].id
  <1>1. PICK n \in Nat : n = Len(ss) /\ n >= 1
    BY LenIsNat
  <1>2. ss[1] \in Stops /\ DOMAIN ss = 1..n
    BY <1>1
  <1>3. PICK s : s = [ss[1] EXCEPT !.minute = m]
    OBVIOUS
  <1>4. s \in Stops /\ s.id = ss[1].id
    BY <1>2, <1>3 DEF Stops
  <1>5. b = [ss EXCEPT ![1] = s]
    BY <1>3 DEF FirstTimed
  <1>6. b \in Seq(Stops) /\ Len(b) = n
    BY <1>1, <1>4, <1>5
  <1>7. \A k \in 1..n : b[k] = IF k = 1 THEN s ELSE ss[k]
    BY <1>1, <1>2, <1>5
  <1> QED
    BY <1>1, <1>4, <1>6, <1>7

\* With the same stations at the stops the route is travelled as before.
LEMMA StopsKept ==
  ASSUME NEW ls, NEW ss \in Seq(Stops), NEW r, NEW n \in Nat, NEW begin, NEW end,
         NEW b \in Seq(Stops), Len(b) = Len(ss), \A k \in 1..Len(ss) : b[k].id = ss[k].id,
         Travelled(ls, ss, r, n, begin, end)
  PROVE  Travelled(ls, b, r, n, begin, end) /\ (Badges(ls, ss) => Badges(ls, b))
  <1>1. PICK x \in Nat : x = Len(ss) /\ x = Len(b)
    BY LenIsNat
  <1>2. Way(ls, ss, r, n) /\ Chosen(ss, r, n) /\ TurnsShown(ls, ss)
    BY DEF Travelled
  <1>3. Way(ls, b, r, n)
    <2>1. x >= 1
      BY <1>1, <1>2 DEF Way
    <2>2. b[x].id = r[n + 1]
      BY <1>1, <1>2, <2>1 DEF Way
    <2> QED
      BY <1>1, <1>2, <2>1, <2>2 DEF Way
  <1>4. Chosen(b, r, n)
    <2>1. PICK f \in [1..(n + 1) -> 1..x] :
              /\ \A i \in 1..(n + 1) : ss[f[i]].id = r[i]
              /\ \A i, j \in 1..(n + 1) : i < j => f[i] < f[j]
      BY <1>1, <1>2 DEF Chosen
    <2>2. \A i \in 1..(n + 1) : b[f[i]].id = r[i]
      BY <1>1, <2>1
    <2> QED
      BY <1>1, <2>1, <2>2 DEF Chosen
  <1>5. TurnsShown(ls, b)
    <2>1. \A y : (\E j \in 1..x : ss[j].id = y) => \E j \in 1..x : b[j].id = y
      BY <1>1
    <2> QED
      BY <1>1, <1>2, <2>1 DEF TurnsShown
  <1>6. ASSUME Badges(ls, ss) PROVE Badges(ls, b)
    <2>1. \A i \in 1..Len(ls) : b[i].id = ss[i].id
      <3>1. Len(ls) \in Nat /\ x = Len(ls) + 1
        BY <1>1, <1>2, <1>6, LenIsNat DEF Way, Badges
      <3> QED
        BY <1>1, <3>1
    <2> QED
      BY <1>1, <1>6, <2>1 DEF Badges
  <1> QED
    BY <1>3, <1>4, <1>5, <1>6 DEF Travelled

\* The end of a calculation.
LEMMA ScheduleFinish == ScheduleInv /\ Finish => ScheduleInv'
  <1> SUFFICES ASSUME ScheduleInv, Finish PROVE ScheduleInv'
    OBVIOUS
  <1> DEFINE rides == {i \in DOMAIN legs : legs[i].dep # NoTime}
  <1>1. /\ UNCHANGED inputs /\ UNCHANGED <<hop, legs, earliest, timed>> /\ outcome' = "done"
        /\ stops' = IF rides = {} THEN stops
                    ELSE [stops EXCEPT ![1].minute = legs[Min(rides)].dep]
    BY DEF Finish
  <1>2. /\ Travelled(legs, stops, route, hop, asked, earliest) /\ hop \in Nat
        /\ stops \in Seq(Stops) /\ Len(stops) >= 1 /\ legs \in Seq(Legs)
        /\ DOMAIN legs = 1..Len(legs)
    BY PartsTyped DEF ScheduleInv
  <1>3. /\ stops' \in Seq(Stops) /\ Len(stops') = Len(stops)
        /\ \A k \in 1..Len(stops) : stops'[k].id = stops[k].id
    <2>0. PICK b : b = stops'
      OBVIOUS
    <2>1. CASE rides = {}
      BY <1>1, <1>2, <2>1
    <2>2. CASE rides # {}
      <3>1. rides \in SUBSET Nat
        BY <1>2
      <3>2. Min(rides) \in rides
        <4>1. PICK m \in rides : \A n \in rides : m <= n
          BY <2>2, <3>1, LeastOf
        <4> HIDE DEF rides
        <4> QED
          BY <4>1 DEF Min
      <3>3. PICK m : m = Min(rides) /\ m \in 1..Len(legs)
        BY <1>2, <3>2
      <3>4. legs[m] \in Legs
        BY <1>2, <3>3
      <3>5. PICK d : d = legs[m].dep /\ d \in Minute
        BY <3>4 DEF Legs
      <3>6. b = FirstTimed(stops, d)
        BY <1>1, <2>0, <2>2, <3>3, <3>5 DEF FirstTimed
      <3>7. b \in Seq(Stops) /\ Len(b) = Len(stops)
            /\ \A k \in 1..Len(stops) : b[k].id = stops[k].id
        BY <1>2, <3>5, <3>6, FirstStopTimed
      <3> QED
        BY <2>0, <3>7
    <2> QED
      BY <2>1, <2>2
  <1>4. PICK b \in Seq(Stops) : b = stops'
    BY <1>3
  <1>5. Travelled(legs, b, route, hop, asked, earliest) /\ (Badges(legs, stops) => Badges(legs, b))
    BY <1>2, <1>3, <1>4, StopsKept
  <1>6. InputsTyped' /\ route' = route /\ asked' = asked
    BY <1>1, ScheduleKeepsInputs DEF ScheduleInv
  <1>7. Travelled(legs, stops, route, hop, asked, earliest)'
    <2>1. Travelled(legs', stops', route', hop', asked', earliest')
      BY <1>1, <1>4, <1>5, <1>6
    <2> QED
      BY <2>1 DEF Travelled, Way, Times, Caught, Pause, Chosen, TurnsShown
  <1>8. timed' => Badges(legs, stops)'
    BY <1>1, <1>4, <1>5 DEF Badges, ScheduleInv
  <1> QED
    BY <1>1, <1>6, <1>7, <1>8 DEF ScheduleInv

\* Every step keeps the invariant.
LEMMA ScheduleStep == ScheduleInv /\ [Next]_vars => ScheduleInv'
  <1> SUFFICES ASSUME ScheduleInv, [Next]_vars PROVE ScheduleInv'
    OBVIOUS
  <1>1. CASE Ride
    BY <1>1, ScheduleRide
  <1>2. CASE FollowMap
    BY <1>2, ScheduleFollowMap
  <1>3. CASE NoWay
    BY <1>3, ScheduleGive DEF NoWay
  <1>4. CASE RequestFails
    BY <1>4, ScheduleGive DEF RequestFails
  <1>5. CASE Finish
    BY <1>5, ScheduleFinish
  <1>6. CASE UNCHANGED vars
    <2>1. UNCHANGED inputs /\ UNCHANGED <<hop, legs, stops, earliest, timed, outcome>>
      BY <1>6 DEF vars, inputs
    <2> QED
      BY <2>1 DEF ScheduleInv, InputsTyped, inputs, Travelled, Way, Times, Caught, Pause,
                  Chosen, TurnsShown, Badges
  <1> QED
    BY <1>1, <1>2, <1>3, <1>4, <1>5, <1>6 DEF Next

-----------------------------------------------------------------------------
(* What the invariant says of the route that is shown.                       *)

\* The invariant gives the types.
LEMMA ScheduleTyped == ScheduleInv => TypeOK
  <1> SUFFICES ASSUME ScheduleInv PROVE TypeOK
    OBVIOUS
  <1>1. legs \in Seq(Legs) /\ stops \in Seq(Stops)
    BY PartsTyped
  <1>2. ASSUME NEW i \in DOMAIN legs
        PROVE  /\ legs[i].from \in Stations /\ legs[i].to \in Stations
               /\ legs[i].line \in Range(Real)
               /\ legs[i].dep \in Minute /\ legs[i].arr \in Minute
    <2>1. legs[i] \in Legs
      BY <1>1
    <2> QED
      BY <2>1 DEF Legs
  <1>3. ASSUME NEW i \in DOMAIN stops PROVE stops[i].id \in Stations /\ stops[i].minute \in Minute
    <2>1. stops[i] \in Stops
      BY <1>1
    <2> QED
      BY <2>1 DEF Stops
  <1> QED
    BY <1>2, <1>3 DEF TypeOK, ScheduleInv

\* The legs join up.
LEMMA ScheduleJoins == ScheduleInv => LegsJoin
  <1> SUFFICES ASSUME ScheduleInv PROVE LegsJoin
    OBVIOUS
  <1>1. Way(legs, stops, route, hop)
    BY DEF ScheduleInv, Travelled
  <1>2. Last(legs) = legs[Len(legs)]
    BY DEF Last
  <1> QED
    BY <1>1, <1>2 DEF Way, LegsJoin

\* No train leaves too early.
LEMMA ScheduleCaught == ScheduleInv => TrainsCaught
  <1> SUFFICES ASSUME ScheduleInv PROVE TrainsCaught
    OBVIOUS
  <1>1. legs \in Seq(Legs) /\ DOMAIN legs = 1..Len(legs)
    BY PartsTyped
  <1>2. Times(legs, asked, earliest) /\ Caught(legs, route)
    BY DEF ScheduleInv, Travelled
  <1> QED
    BY <1>1, <1>2 DEF Times, Caught, Pause, TrainsCaught

\* No chosen station and no turn is missing from the stops.
LEMMA ScheduleComplete == ScheduleInv => StopsComplete
  <1> SUFFICES ASSUME ScheduleInv PROVE StopsComplete
    OBVIOUS
  <1>1. /\ legs \in Seq(Legs) /\ stops \in Seq(Stops) /\ DOMAIN stops = 1..Len(stops)
        /\ route \in Seq(Stations) /\ hop \in 0..(Len(route) - 1)
    BY PartsTyped
  <1>2. Chosen(stops, route, hop) /\ TurnsShown(legs, stops)
    BY DEF ScheduleInv, Travelled
  <1>3. PICK chosen : chosen = SubSeq(route, 1, hop + 1)
    OBVIOUS
  <1>4. DOMAIN chosen = 1..(hop + 1) /\ \A i \in 1..(hop + 1) : chosen[i] = route[i]
    BY <1>1, <1>3
  <1>5. \E f \in [DOMAIN chosen -> DOMAIN stops] :
            /\ \A i \in DOMAIN chosen : stops[f[i]].id = chosen[i]
            /\ \A i, j \in DOMAIN chosen : i < j => f[i] < f[j]
    BY <1>1, <1>2, <1>4 DEF Chosen
  <1> QED
    BY <1>1, <1>2, <1>3, <1>5 DEF TurnsShown, StopsComplete

\* A badge belongs to the train and the time of its stop.
LEMMA ScheduleBadges == ScheduleInv => TimedBadgesFit
  <1> SUFFICES ASSUME ScheduleInv, timed
               PROVE  /\ Len(stops) = Len(legs) + 1
                      /\ \A i \in DOMAIN legs : /\ stops[i].id = legs[i].from
                                                /\ Badge(i) = legs[i].line
    BY DEF TimedBadgesFit
  <1>1. legs \in Seq(Legs) /\ DOMAIN legs = 1..Len(legs) /\ Len(legs) \in Nat
    BY PartsTyped
  <1>2. Badges(legs, stops)
    BY DEF ScheduleInv
  <1>3. \A i \in 1..Len(legs) : Badge(i) = legs[i].line
    BY <1>1 DEF Badge
  <1> QED
    BY <1>1, <1>2, <1>3 DEF Badges

\* A calculation keeps the invariant.
THEOREM ScheduleInvariant == Spec => []ScheduleInv
  <1> QED
    BY ScheduleInit, ScheduleStep, PTL DEF Spec

\* The route can be travelled as it is shown (CanBeTravelled): its legs join
\* the stations, its trains are caught, with the time to change, and its stops
\* are the chosen ones and those where the line changes.
THEOREM RouteCanBeTravelled == Spec => []CanBeTravelled
  <1>1. ScheduleInv => CanBeTravelled
    BY ScheduleTyped, ScheduleJoins, ScheduleCaught, ScheduleComplete, ScheduleBadges
    DEF CanBeTravelled
  <1> QED
    BY <1>1, ScheduleInvariant, PTL

-----------------------------------------------------------------------------
(* The ways without times are shortest.                                      *)

\* W[i] are the stations within i ways of one.
Spreads(W, n, ways, from) ==
    /\ W \in [0..n -> SUBSET Stations] /\ W[0] = {from}
    /\ \A i \in 1..n : \A x \in Stations :
          x \in W[i] <=> \/ x \in W[i - 1]
                         \/ \E e \in Range(ways) : e.from \in W[i - 1] /\ e.to = x

Beside(ls, near) ==
    LET edges == Range(Edges(ls))
    IN  near \cup {e.to : e \in {e \in edges : e.from \in near}}
             \cup {e.from : e \in {e \in edges : e.to \in near}}
WithinAt(w, ls, s) ==
    w = [n \in 0..Cardinality(Stations) |->
            IF n = 0 THEN {s} ELSE LET near == w[n - 1] IN Beside(ls, near)]

\* The stations beside these are those a way leads to from them.
LEMMA BesideIs ==
  ASSUME NEW ls \in StationLists, NEW near \in SUBSET Stations
  PROVE  /\ Beside(ls, near) \in SUBSET Stations
         /\ \A x : x \in Beside(ls, near)
                   <=> \/ x \in near
                       \/ \E e \in Range(Ways(ls)) : e.from \in near /\ e.to = x
  <1>1. PICK edges : edges = Range(Edges(ls))
    OBVIOUS
  <1>2. \A e \in edges : e.from \in Stations /\ e.to \in Stations
    <2>1. edges \subseteq PathEdges
      BY <1>1, EdgesTyped, RangeIs DEF PathEdges, StationLists
    <2> QED
      BY <2>1 DEF PathEdges, EdgesOn
  <1>3. Range(Ways(ls)) = edges \cup {Back(e) : e \in edges}
    BY <1>1, WaysTyped
  <1>4. \A e : Back(e).from = e.to /\ Back(e).to = e.from
    BY DEF Back, Edge
  <1>5. \A x : x \in Beside(ls, near)
               <=> \/ x \in near
                   \/ \E e \in edges : e.from \in near /\ e.to = x
                   \/ \E e \in edges : e.to \in near /\ e.from = x
    BY <1>1 DEF Beside
  <1>6. ASSUME NEW x
        PROVE  (\E e \in Range(Ways(ls)) : e.from \in near /\ e.to = x)
               <=> \/ \E e \in edges : e.from \in near /\ e.to = x
                   \/ \E e \in edges : e.to \in near /\ e.from = x
    <2>1. ASSUME NEW e \in Range(Ways(ls)), e.from \in near, e.to = x
          PROVE  \/ \E f \in edges : f.from \in near /\ f.to = x
                 \/ \E f \in edges : f.to \in near /\ f.from = x
      <3>1. CASE e \in edges
        BY <2>1, <3>1
      <3>2. CASE \E f \in edges : e = Back(f)
        BY <1>4, <2>1, <3>2
      <3> QED
        BY <1>3, <3>1, <3>2
    <2>2. ASSUME NEW e \in edges, e.from \in near, e.to = x
          PROVE  \E f \in Range(Ways(ls)) : f.from \in near /\ f.to = x
      BY <1>3, <2>2
    <2>3. ASSUME NEW e \in edges, e.to \in near, e.from = x
          PROVE  \E f \in Range(Ways(ls)) : f.from \in near /\ f.to = x
      <3>1. Back(e) \in Range(Ways(ls))
        BY <1>3
      <3> QED
        BY <1>4, <2>3, <3>1
    <2> QED
      BY <2>1, <2>2, <2>3
  <1>7. \A x : x \in Beside(ls, near)
               <=> \/ x \in near
                   \/ \E e \in Range(Ways(ls)) : e.from \in near /\ e.to = x
    BY <1>5, <1>6
  <1>8. Beside(ls, near) \in SUBSET Stations
    BY <1>2, <1>5
  <1> QED
    BY <1>7, <1>8

\* The reference is one: there is a function as it says.
LEMMA WithinSpreads ==
  ASSUME lists \in StationLists, NEW s \in Stations
  PROVE  Spreads(Within(s), Cardinality(Stations), Ways(lists), s)
  <1> DEFINE N == Cardinality(Stations)
             T == SUBSET Stations
             first == {s}
             step == [n \in 1..N |-> [near \in T |-> Beside(lists, near)]]
             w == CHOOSE x : WithinAt(x, lists, s)
  <1>0. N \in Nat
    BY CountIsNat
  <1>1. first \in T
    OBVIOUS
  <1>2. ASSUME NEW near \in T PROVE Beside(lists, near) \in T
    BY BesideIs
  <1>8. Within(s) = w
    BY DEF Within, WithinAt, Beside
  <1> HIDE DEF N, T
  <1>3. step \in [1..N -> [T -> T]]
    BY <1>2
  <1>4. PICK f \in [0..N -> T] : Loop(f, N, first, step)
    <2> HIDE DEF step, first
    <2> QED
      BY <1>0, <1>1, <1>3, LoopRuns
  <1>5. f[0] = first /\ \A n \in 1..N : f[n] = Beside(lists, f[n - 1])
    <2>1. f[0] = first /\ \A n \in 1..N : f[n] = step[n][f[n - 1]]
      <3> HIDE DEF step, first
      <3> QED
        BY <1>4 DEF Loop
    <2>2. \A n \in 1..N : f[n - 1] \in T
      BY <1>0
    <2>3. \A n \in 1..N : \A x \in T : step[n][x] = Beside(lists, x)
      OBVIOUS
    <2> HIDE DEF step, first
    <2> QED
      BY <2>1, <2>2, <2>3
  <1>6. WithinAt(f, lists, s)
    <2>1. f = [n \in 0..N |-> f[n]]
      OBVIOUS
    <2>2. \A n \in 0..N : f[n] = IF n = 0 THEN first ELSE Beside(lists, f[n - 1])
      <3> HIDE DEF first
      <3> QED
        BY <1>0, <1>5
    <2> QED
      BY <2>1, <2>2 DEF WithinAt, N
  <1>7. WithinAt(w, lists, s)
    BY <1>6
  <1> HIDE DEF w
  <1>9. w[0] = first /\ \A n \in 1..N : w[n] = Beside(lists, w[n - 1])
    <2>1. \A n \in 0..N : w[n] = IF n = 0 THEN first ELSE Beside(lists, w[n - 1])
      BY <1>7 DEF WithinAt, N
    <2> HIDE DEF first
    <2> QED
      BY <1>0, <2>1
  <1>10. \A n \in 0..N : w[n] \in T
    <2> DEFINE J == {n \in 0..N : w[n] \in T}
    <2>1. 0 \in J
      <3>1. w[0] \in T
        BY <1>1, <1>9, Zenon
      <3> QED
        BY <1>0, <3>1
    <2>2. ASSUME NEW n \in 1..N, n - 1 \in J PROVE n \in J
      BY <1>2, <1>9, <2>2
    <2> HIDE DEF J
    <2>3. 0..N \subseteq J
      BY <1>0, <2>1, <2>2, IntervalInduction
    <2> QED
      BY <2>3 DEF J
  <1>11. w \in [0..N -> SUBSET Stations]
    <2>1. w = [n \in 0..N |-> w[n]]
      BY <1>7 DEF WithinAt, N
    <2> QED
      BY <1>10, <2>1 DEF T
  <1>12. ASSUME NEW i \in 1..N, NEW x \in Stations
         PROVE  x \in w[i] <=> \/ x \in w[i - 1]
                               \/ \E e \in Range(Ways(lists)) : e.from \in w[i - 1] /\ e.to = x
    <2>1. i - 1 \in 0..N
      BY <1>0
    <2>2. PICK near \in SUBSET Stations : near = w[i - 1]
      BY <1>10, <2>1 DEF T
    <2>3. w[i] = Beside(lists, near)
      BY <1>9, <2>2
    <2> QED
      BY <2>2, <2>3, BesideIs
  <1>13. Spreads(w, N, Ways(lists), s)
    BY <1>9, <1>11, <1>12 DEF Spreads
  <1> QED
    BY <1>8, <1>13 DEF N

\* What the ways do not lead out of holds all that is within reach.
LEMMA ClosedReach ==
  ASSUME NEW n \in Nat, NEW ways, NEW from \in Stations, NEW W, Spreads(W, n, ways, from),
         NEW S, from \in S, \A e \in Range(ways) : e.from \in S => e.to \in S
  PROVE  \A i \in 0..n : W[i] \subseteq S
  <1> DEFINE J == {i \in 0..n : W[i] \subseteq S}
  <1>1. 0 \in J
    BY DEF Spreads
  <1>2. ASSUME NEW i \in 1..n, i - 1 \in J PROVE i \in J
    <2>1. W[i - 1] \subseteq S
      BY <1>2
    <2>2. W[i] \subseteq Stations
      BY DEF Spreads
    <2>3. ASSUME NEW x \in W[i] PROVE x \in S
      <3>1. x \in W[i - 1] \/ \E e \in Range(ways) : e.from \in W[i - 1] /\ e.to = x
        BY <2>2 DEF Spreads
      <3> QED
        BY <2>1, <3>1
    <2> QED
      BY <2>3
  <1> HIDE DEF J
  <1>3. 0..n \subseteq J
    BY <1>1, <1>2, IntervalInduction
  <1> QED
    BY <1>3 DEF J

-----------------------------------------------------------------------------
(* The search goes by the number of ways.                                    *)

\* The last place looked at.
Done(search) == Len(search.came) - Len(search.queue)

\* An edge the search has come by leads one way further ...
Further(W, n, search) ==
    \A k \in 1..Len(search.came) : \A i \in 1..n :
        search.came[k].from \in W[i - 1] <=> search.came[k].to \in W[i]

\* ... the nearer places come first ...
NearFirst(W, n, from, search) ==
    \A j, k \in 0..Len(search.came) : \A i \in 0..n :
        j <= k /\ Place(from, search, k) \in W[i] => Place(from, search, j) \in W[i]

\* ... and of a place looked at, all ways have been taken.
AllTaken(ways, from, to, search) ==
    \A j \in 0..Done(search) :
        /\ Place(from, search, j) # to
        /\ \A e \in Range(ways) :
              e.from = Place(from, search, j) => e.to \in Reached(search, from)

FromTaken(from, search) ==
    \A k \in 1..Len(search.came) :
        \E j \in 0..Done(search) : search.came[k].from = Place(from, search, j)

Breadth(W, n, ways, from, to, search) ==
    /\ Tree(ways, from, search) /\ Further(W, n, search) /\ NearFirst(W, n, from, search)
    /\ AllTaken(ways, from, to, search) /\ FromTaken(from, search)

\* The reached stations are the places of the search.
LEMMA ReachedPlaces ==
  ASSUME NEW from, NEW s \in SearchStates
  PROVE  \A x : x \in Reached(s, from) <=> \E j \in 0..Len(s.came) : x = Place(from, s, j)
  <1>1. Len(s.came) \in Nat
    BY SearchTyped
  <1>2. ASSUME NEW x, x \in Reached(s, from) PROVE \E j \in 0..Len(s.came) : x = Place(from, s, j)
    <2>1. CASE x = from
      <3>1. 0 \in 0..Len(s.came) /\ x = Place(from, s, 0)
        BY <1>1, <2>1 DEF Place
      <3> QED
        BY <3>1
    <2>2. CASE \E k \in 1..Len(s.came) : s.came[k].to = x
      <3>1. PICK k \in 1..Len(s.came) : s.came[k].to = x
        BY <2>2
      <3>2. k \in 0..Len(s.came) /\ x = Place(from, s, k)
        BY <1>1, <3>1 DEF Place
      <3> QED
        BY <3>2
    <2> QED
      BY <1>2, <2>1, <2>2, ReachedIs
  <1>3. ASSUME NEW x, NEW j \in 0..Len(s.came), x = Place(from, s, j) PROVE x \in Reached(s, from)
    <2>1. CASE j = 0
      BY <1>3, <2>1, ReachedIs DEF Place
    <2>2. CASE j # 0
      <3>1. j \in 1..Len(s.came) /\ s.came[j].to = x
        BY <1>1, <1>3, <2>2 DEF Place
      <3> QED
        BY <3>1, ReachedIs
    <2> QED
      BY <2>1, <2>2
  <1> QED
    BY <1>2, <1>3

\* What is nearer than the head of the queue has been looked at, ...
LEMMA NearerReached ==
  ASSUME NEW n \in Nat, NEW ways, NEW from \in Stations, NEW to, NEW W,
         Spreads(W, n, ways, from), NEW s \in SearchStates,
         Breadth(W, n, ways, from, to, s), s.queue # <<>>,
         NEW i \in 1..n, Head(s.queue) \notin W[i - 1]
  PROVE  W[i] \subseteq Reached(s, from)
  <1> DEFINE R == Reached(s, from)
             J == {m \in 0..n : (m >= 1 /\ Head(s.queue) \in W[m - 1]) \/ W[m] \subseteq R}
  <1>0. Len(s.came) \in Nat /\ Len(s.queue) \in Nat
    BY SearchTyped
  <1>1. Done(s) + 1 \in 0..Len(s.came) /\ Head(s.queue) = Place(from, s, Done(s) + 1)
    <2>1. Queued(from, s)
      BY DEF Breadth, Tree
    <2> QED
      BY <2>1, HeadIsPlace DEF Done
  <1>2. Done(s) \in Int
    BY <1>0 DEF Done
  <1>3. 0 \in J
    <2>1. W[0] \subseteq R
      BY DEF Spreads, Reached
    <2> QED
      BY <2>1
  <1>4. ASSUME NEW m \in 1..n, m - 1 \in J PROVE m \in J
    <2> SUFFICES ASSUME Head(s.queue) \notin W[m - 1] PROVE W[m] \subseteq R
      OBVIOUS
    <2>0. W[m] \subseteq Stations /\ W[m - 1] \subseteq Stations
      BY DEF Spreads
    <2>1. W[m - 1] \subseteq R
      <3>1. CASE m - 1 >= 1
        <4>1. m - 1 \in 1..n
          BY <3>1
        <4>2. \A x \in W[(m - 1) - 1] : x \in Stations
          BY <4>1 DEF Spreads
        <4>3. W[(m - 1) - 1] \subseteq W[m - 1]
          BY <4>1, <4>2 DEF Spreads
        <4> QED
          BY <1>4, <4>3
      <3>2. CASE ~(m - 1 >= 1)
        BY <1>4, <3>2
      <3> QED
        BY <3>1, <3>2
    <2>2. ASSUME NEW x \in W[m - 1], NEW e \in Range(ways), e.from = x PROVE e.to \in R
      <3>1. PICK j \in 0..Len(s.came) : x = Place(from, s, j)
        BY <2>1, ReachedPlaces
      <3>2. j <= Done(s)
        <4>1. SUFFICES ASSUME Done(s) + 1 <= j PROVE FALSE
          BY <1>2, <4>1
        <4>2. m - 1 \in 0..n
          OBVIOUS
        <4>3. Place(from, s, Done(s) + 1) \in W[m - 1]
          BY <1>1, <3>1, <4>1, <4>2 DEF Breadth, NearFirst
        <4> QED
          BY <1>1, <4>3
      <3>3. j \in 0..Done(s)
        BY <1>2, <3>2
      <3> QED
        BY <2>2, <3>1, <3>3 DEF Breadth, AllTaken
    <2>3. ASSUME NEW x \in W[m] PROVE x \in R
      <3>1. x \in W[m - 1] \/ \E e \in Range(ways) : e.from \in W[m - 1] /\ e.to = x
        BY <2>0 DEF Spreads
      <3> QED
        BY <2>1, <2>2, <3>1
    <2> QED
      BY <2>3
  <1> HIDE DEF J
  <1>5. 0..n \subseteq J
    BY <1>3, <1>4, IntervalInduction
  <1>6. i \in J
    BY <1>5
  <1> QED
    BY <1>6 DEF J

\* ... and what has been reached is one way further at most.
LEMMA ReachedNear ==
  ASSUME NEW n \in Nat, NEW ways \in Seq(PathEdges), NEW from \in Stations, NEW to, NEW W,
         Spreads(W, n, ways, from), NEW s \in SearchStates,
         Breadth(W, n, ways, from, to, s), s.queue # <<>>,
         NEW i \in 1..n, Head(s.queue) \in W[i - 1]
  PROVE  Reached(s, from) \subseteq W[i]
  <1>0. Len(s.came) \in Nat /\ Len(s.queue) \in Nat /\ Done(s) \in Int
    BY SearchTyped DEF Done
  <1>1. Done(s) + 1 \in 0..Len(s.came) /\ Head(s.queue) = Place(from, s, Done(s) + 1)
    <2>1. Queued(from, s)
      BY DEF Breadth, Tree
    <2> QED
      BY <2>1, HeadIsPlace DEF Done
  <1>2. i - 1 \in 0..n /\ W[i - 1] \subseteq Stations
    BY DEF Spreads
  <1>3. ASSUME NEW j \in 0..Len(s.came), j <= Done(s) + 1 PROVE Place(from, s, j) \in W[i - 1]
    BY <1>1, <1>2, <1>3 DEF Breadth, NearFirst
  <1>4. W[i - 1] \subseteq W[i]
    BY <1>2 DEF Spreads
  <1>5. ASSUME NEW k \in 1..Len(s.came) PROVE s.came[k].to \in W[i]
    <2>1. PICK j \in 0..Done(s) : s.came[k].from = Place(from, s, j)
      BY DEF Breadth, FromTaken
    <2>2. j \in 0..Len(s.came) /\ j <= Done(s) + 1
      BY <1>0, <1>1
    <2>3. s.came[k].from \in W[i - 1]
      BY <1>3, <2>1, <2>2
    <2>4. s.came[k] \in Range(ways) /\ s.came[k].to \in Stations
      BY SearchTyped DEF Breadth, Tree
    <2> QED
      BY <2>3, <2>4 DEF Spreads
  <1>6. from \in W[i]
    <2>1. 0 \in 0..Len(s.came) /\ 0 <= Done(s) + 1 /\ Place(from, s, 0) = from
      BY <1>0, <1>1 DEF Place
    <2> QED
      BY <1>3, <1>4, <2>1
  <1> QED
    BY <1>5, <1>6, ReachedIs

\* The search begins in this order and keeps it.
LEMMA FirstIsBreadth ==
  ASSUME NEW n \in Nat, NEW ways, NEW from \in Stations, NEW to, NEW W
  PROVE  Breadth(W, n, ways, from, to, FirstSearch(from)) /\ Done(FirstSearch(from)) = -1
  <1>1. PICK s : s = FirstSearch(from)
    OBVIOUS
  <1>2. Len(s.came) = 0 /\ Len(s.queue) = 1
    BY <1>1 DEF FirstSearch
  <1>3. Done(s) = -1
    BY <1>2 DEF Done
  <1>4. Tree(ways, from, s)
    BY <1>1, FirstIsTree
  <1>5. Further(W, n, s) /\ FromTaken(from, s)
    BY <1>2 DEF Further, FromTaken
  <1>6. NearFirst(W, n, from, s)
    <2>1. \A j \in 0..0 : j = 0
      OBVIOUS
    <2> QED
      BY <1>2, <2>1 DEF NearFirst
  <1>7. AllTaken(ways, from, to, s)
    BY <1>3 DEF AllTaken
  <1> QED
    BY <1>1, <1>3, <1>4, <1>5, <1>6, <1>7 DEF Breadth

PlacesStay(from, search, after) ==
    /\ \A k \in 0..Len(search.came) : /\ k \in 0..Len(after.came)
                                       /\ Place(from, after, k) = Place(from, search, k)
    /\ Reached(search, from) \subseteq Reached(after, from)

\* A pass leaves the places there were.
LEMMA PlacesStayed ==
  ASSUME NEW ways, NEW from, NEW search \in SearchStates, NEW after \in SearchStates, NEW n,
         Looked(ways, from, search, after, n)
  PROVE  PlacesStay(from, search, after)
  <1>1. /\ \A k \in 0..Len(search.came) : /\ k \in 0..Len(after.came)
                                           /\ Place(from, after, k) = Place(from, search, k)
        /\ Reached(search, from) \subseteq Reached(after, from)
    BY PlacesKept, Zenon
  <1> QED
    BY <1>1 DEF PlacesStay

\* A pass looks at one more place, and keeps the search breadth first.
LEMMA LookKeepsBreadth ==
  ASSUME NEW n \in Nat, NEW ways \in Seq(PathEdges), NEW from \in Stations, NEW to, NEW W,
         Spreads(W, n, ways, from), NEW s \in SearchStates,
         Breadth(W, n, ways, from, to, s), Goes(s, to), NEW t, t = Look(ways, from, to, s)
  PROVE  t \in SearchStates /\ Breadth(W, n, ways, from, to, t) /\ Done(t) = Done(s) + 1
  <1> DEFINE c == Len(s.came)
             d == Len(t.came)
             h == Done(s) + 1
  <1>1. t \in SearchStates /\ Looked(ways, from, s, t, Len(ways)) /\ Tree(ways, from, t)
    <2>1. Distinct(from, s) /\ Queued(from, s) /\ Tree(ways, from, s)
      BY DEF Breadth, Tree
    <2> QED
      BY <2>1, LookDoes, LookKeepsTree
  <1>2. c \in Nat /\ d \in Nat /\ Done(s) \in Int /\ c <= d
        /\ Len(t.queue) \in Nat /\ Len(s.queue) \in Nat
    <2>1. Len(s.came) <= Len(t.came)
      BY <1>1 DEF Looked
    <2> QED
      BY <1>1, <2>1, SearchTyped DEF Done
  <1>3. h \in 0..c /\ Head(s.queue) = Place(from, s, h)
    <2>1. Queued(from, s) /\ s.queue # <<>>
      BY DEF Breadth, Tree, Goes
    <2> QED
      BY <2>1, HeadIsPlace DEF Done
  <1>4. Done(t) = h
    BY <1>1 DEF Looked, Done
  <1>5. /\ \A k \in 0..c : k \in 0..d /\ Place(from, t, k) = Place(from, s, k)
        /\ Reached(s, from) \subseteq Reached(t, from)
    <2>1. PICK m : m = Len(ways)
      OBVIOUS
    <2>2. Looked(ways, from, s, t, m)
      BY <1>1, <2>1
    <2>3. PlacesStay(from, s, t)
      BY <1>1, <2>2, PlacesStayed
    <2> QED
      BY <2>3 DEF PlacesStay
  <1>6. \A k \in 1..c : t.came[k] = s.came[k]
    BY <1>1 DEF Looked
  <1>7. \A k \in (c + 1)..d : /\ t.came[k] \in Range(ways) /\ t.came[k].from = Head(s.queue)
                              /\ t.came[k].to \notin Reached(s, from)
                              /\ t.came[k].to \in Stations
    <2>1. \A k \in (c + 1)..d : /\ t.came[k] \in Range(ways) /\ t.came[k].from = Head(s.queue)
                                /\ t.came[k].to \notin Reached(s, from)
      BY <1>1 DEF Looked
    <2>2. \A k \in (c + 1)..d : k \in 1..d
      BY <1>2
    <2>3. \A k \in 1..d : t.came[k].to \in Stations
      BY <1>1, SearchTyped
    <2> QED
      BY <2>1, <2>2, <2>3
  <1>8. \A k \in 1..d : k \in 1..c \/ k \in (c + 1)..d
    BY <1>2
  <1> HIDE DEF c, d, h
  <1>9. Further(W, n, t)
    <2>1. ASSUME NEW k \in 1..d, NEW i \in 1..n
          PROVE  t.came[k].from \in W[i - 1] <=> t.came[k].to \in W[i]
      <3>1. CASE k \in 1..c
        BY <1>6, <3>1 DEF Breadth, Further, c
      <3>2. CASE k \in (c + 1)..d
        <4>1. t.came[k].from \in W[i - 1] => t.came[k].to \in W[i]
          BY <1>7, <3>2 DEF Spreads
        <4>2. ASSUME t.came[k].from \notin W[i - 1] PROVE t.came[k].to \notin W[i]
          <5>1. Head(s.queue) \notin W[i - 1] /\ s.queue # <<>>
            BY <1>7, <3>2, <4>2 DEF Goes
          <5>2. W[i] \subseteq Reached(s, from)
            BY <5>1, NearerReached
          <5> QED
            BY <1>7, <3>2, <5>2
        <4> QED
          BY <4>1, <4>2
      <3> QED
        BY <1>8, <3>1, <3>2
    <2> QED
      BY <2>1 DEF Further, d
  <1>10. NearFirst(W, n, from, t)
    <2>1. ASSUME NEW j \in 0..d, NEW k \in 0..d, NEW i \in 0..n, j <= k,
                 Place(from, t, k) \in W[i]
          PROVE  Place(from, t, j) \in W[i]
      <3>1. CASE k \in 0..c
        <4>1. j \in 0..c
          BY <1>2, <2>1, <3>1
        <4>2. Place(from, s, k) \in W[i]
          BY <1>5, <2>1, <3>1
        <4>3. Place(from, s, j) \in W[i]
          BY <2>1, <3>1, <4>1, <4>2 DEF Breadth, NearFirst, c
        <4> QED
          BY <1>5, <4>1, <4>3
      <3>2. CASE k \notin 0..c
        <4>1. k \in (c + 1)..d /\ k # 0 /\ Place(from, t, k) = t.came[k].to
          BY <1>2, <3>2 DEF Place
        <4>2. i \in 1..n
          <5>1. i # 0
            <6>1. SUFFICES ASSUME i = 0 PROVE FALSE
              OBVIOUS
            <6>2. t.came[k].to = from
              BY <2>1, <4>1, <6>1 DEF Spreads
            <6>3. from \in Reached(s, from)
              BY DEF Reached
            <6> QED
              BY <1>7, <4>1, <6>2, <6>3
          <5> QED
            BY <5>1
        <4>3. t.came[k].to \in W[i] /\ k \in 1..d
          BY <1>2, <2>1, <4>1
        <4>4. Head(s.queue) \in W[i - 1] /\ s.queue # <<>>
          <5>1. t.came[k].from \in W[i - 1]
            BY <1>9, <4>2, <4>3 DEF Further, d
          <5> QED
            BY <1>7, <4>1, <5>1 DEF Goes
        <4>5. CASE j \in 0..c
          <5>1. Reached(s, from) \subseteq W[i]
            BY <4>2, <4>4, ReachedNear
          <5>2. Place(from, s, j) \in Reached(s, from)
            BY <4>5, ReachedPlaces DEF c
          <5> QED
            BY <1>5, <4>5, <5>1, <5>2
        <4>6. CASE j \notin 0..c
          <5>1. j \in (c + 1)..d /\ j # 0 /\ Place(from, t, j) = t.came[j].to
            BY <1>2, <4>6 DEF Place
          <5> QED
            BY <1>7, <4>2, <4>4, <5>1 DEF Spreads
        <4> QED
          BY <4>5, <4>6
      <3> QED
        BY <3>1, <3>2
    <2> QED
      BY <2>1 DEF NearFirst, d
  <1>11. AllTaken(ways, from, to, t)
    <2>1. ASSUME NEW j \in 0..h
          PROVE  /\ Place(from, t, j) # to
                 /\ \A e \in Range(ways) :
                       e.from = Place(from, t, j) => e.to \in Reached(t, from)
      <3>1. j \in 0..c /\ Place(from, t, j) = Place(from, s, j)
        BY <1>2, <1>3, <1>5
      <3>2. CASE j = h
        <4>1. Place(from, s, j) = Head(s.queue)
          BY <1>3, <3>2
        <4>2. ASSUME NEW e \in Range(ways), e.from = Head(s.queue) PROVE e.to \in Reached(t, from)
          <5>1. PICK m \in 1..Len(ways) : ways[m] = e
            BY RangeIs
          <5> QED
            BY <1>1, <4>2, <5>1 DEF Looked
        <4> QED
          BY <3>1, <4>1, <4>2 DEF Goes
      <3>3. CASE j # h
        <4>1. j \in 0..Done(s)
          BY <1>2, <3>3 DEF h
        <4> QED
          BY <1>5, <3>1, <4>1 DEF Breadth, AllTaken
      <3> QED
        BY <3>2, <3>3
    <2> QED
      BY <1>4, <2>1 DEF AllTaken
  <1>12. FromTaken(from, t)
    <2>1. ASSUME NEW k \in 1..d PROVE \E j \in 0..h : t.came[k].from = Place(from, t, j)
      <3>1. CASE k \in 1..c
        <4>1. PICK j \in 0..Done(s) : s.came[k].from = Place(from, s, j)
          BY <3>1 DEF Breadth, FromTaken, c
        <4>2. j \in 0..h /\ j \in 0..c
          BY <1>2, <1>3 DEF h
        <4> QED
          BY <1>5, <1>6, <3>1, <4>1, <4>2
      <3>2. CASE k \in (c + 1)..d
        <4>1. h \in 0..h
          BY <1>3
        <4> QED
          BY <1>3, <1>5, <1>7, <3>2, <4>1
      <3> QED
        BY <1>8, <3>1, <3>2
    <2> QED
      BY <1>4, <2>1 DEF FromTaken, d
  <1> QED
    BY <1>1, <1>4, <1>9, <1>10, <1>11, <1>12 DEF Breadth, h

\* No station is come to twice.
LEMMA FewPlaces ==
  ASSUME NEW from \in Stations, NEW s \in SearchStates, Distinct(from, s)
  PROVE  Len(s.came) + 1 <= Cardinality(Stations)
  <1> DEFINE c == Len(s.came)
             f == [j \in 0..c |-> Place(from, s, j)]
  <1>0. c \in Nat
    BY SearchTyped
  <1>1. ASSUME NEW j \in 0..c PROVE Place(from, s, j) \in Stations
    <2>1. CASE j = 0
      BY <2>1 DEF Place
    <2>2. CASE j # 0
      <3>1. j \in 1..c
        BY <1>0, <2>2
      <3> QED
        BY <2>2, <3>1, SearchTyped DEF Place
    <2> QED
      BY <2>1, <2>2
  <1>2. ASSUME NEW j \in 0..c, NEW k \in 0..c, j < k PROVE Place(from, s, j) # Place(from, s, k)
    <2>1. k \in 1..c /\ k # 0
      BY <1>0, <1>2
    <2>2. CASE j = 0
      BY <2>1, <2>2 DEF Place, Distinct
    <2>3. CASE j # 0
      <3>1. j \in 1..(k - 1)
        BY <1>0, <1>2, <2>3
      <3> QED
        BY <2>1, <2>3, <3>1 DEF Place, Distinct
    <2> QED
      BY <2>2, <2>3
  <1> HIDE DEF c
  <1>3. f \in [0..c -> Stations]
    BY <1>1
  <1>4. \A j, k \in 0..c : f[j] = f[k] => j = k
    <2>1. ASSUME NEW j \in 0..c, NEW k \in 0..c, f[j] = f[k] PROVE j = k
      <3>1. ~(j < k) /\ ~(k < j)
        BY <1>2, <2>1
      <3> QED
        BY <1>0, <3>1
    <2> QED
      BY <2>1
  <1> HIDE DEF f
  <1>5. f \in Injection(0..c, Stations)
    BY <1>3, <1>4 DEF Injection, IsInjective
  <1>6. Cardinality(0..c) <= Cardinality(Stations)
    BY <1>5, FS_Injection, LineMapAssumption
  <1>7. Cardinality(0..c) = c + 1
    <2>1. Cardinality(0..c) = IF 0 > c THEN 0 ELSE c - 0 + 1
      BY <1>0, FS_Interval
    <2> QED
      BY <1>0, <2>1
  <1> QED
    BY <1>6, <1>7 DEF c

\* So the passes are enough.
LEMMA SearchIsOver ==
  ASSUME NEW ls \in StationLists, NEW from \in Stations, NEW to, NEW W,
         Spreads(W, Cardinality(Stations), Ways(ls), from)
  PROVE  /\ Search(ls, from, to) \in SearchStates
         /\ Breadth(W, Cardinality(Stations), Ways(ls), from, to, Search(ls, from, to))
         /\ ~Goes(Search(ls, from, to), to)
  <1> DEFINE N == Cardinality(Stations)
             ways == Ways(ls)
  <1>0. N \in Nat /\ ways \in Seq(PathEdges)
    BY CountIsNat, WaysTyped
  <1>1. PICK p \in [0..N -> Trees(ways, from)] :
            Passes(p, N, ways, from, to) /\ Search(ls, from, to) = p[N]
    BY SearchRuns
  <1>a. Spreads(W, N, ways, from)
    OBVIOUS
  <1> HIDE DEF N, ways
  <1>2. \A m \in 0..N : p[m] \in SearchStates
    BY <1>1 DEF Trees
  <1>3. p[0] = FirstSearch(from) /\ \A i \in 1..N : p[i] = Look(ways, from, to, p[i - 1])
    BY <1>1 DEF Passes
  <1> DEFINE J == {m \in 0..N : /\ Breadth(W, N, ways, from, to, p[m])
                                /\ Goes(p[m], to) => Done(p[m]) = m - 1}
  <1>4. 0 \in J
    <2>1. Breadth(W, N, ways, from, to, p[0]) /\ Done(p[0]) = -1
      BY <1>0, <1>3, FirstIsBreadth
    <2> QED
      BY <1>0, <2>1
  <1>5. ASSUME NEW m \in 1..N, m - 1 \in J PROVE m \in J
    <2>1. PICK s \in SearchStates : s = p[m - 1]
      BY <1>0, <1>2
    <2>2. Breadth(W, N, ways, from, to, s) /\ (Goes(s, to) => Done(s) = (m - 1) - 1)
      BY <1>5, <2>1
    <2>3. PICK t : t = Look(ways, from, to, s) /\ t = p[m]
      BY <1>3, <2>1
    <2>4. CASE Goes(s, to)
      <3>1. Breadth(W, N, ways, from, to, t) /\ Done(t) = Done(s) + 1
        BY <1>0, <1>a, <2>2, <2>3, <2>4, LookKeepsBreadth
      <3>2. Done(t) = m - 1
        BY <1>0, <2>2, <2>4, <3>1
      <3> QED
        BY <2>3, <3>1, <3>2
    <2>5. CASE ~Goes(s, to)
      <3>1. t = s
        BY <2>3, <2>5 DEF Look, Goes
      <3>2. p[m] = s
        BY <2>3, <3>1
      <3>3. Breadth(W, N, ways, from, to, p[m])
        BY <2>2, <3>2, Zenon
      <3>4. ~Goes(p[m], to)
        BY <2>5, <3>2, Zenon
      <3>5. m \in 0..N
        BY <1>0
      <3> QED
        BY <3>3, <3>4, <3>5
    <2> QED
      BY <2>4, <2>5
  <1> HIDE DEF J
  <1>6. 0..N \subseteq J
    BY <1>0, <1>4, <1>5, IntervalInduction
  <1>7. PICK s \in SearchStates : s = p[N]
    BY <1>0, <1>2
  <1>8. Breadth(W, N, ways, from, to, s) /\ (Goes(s, to) => Done(s) = N - 1)
    BY <1>0, <1>6, <1>7 DEF J
  <1>9. ~Goes(s, to)
    <2>1. SUFFICES ASSUME Goes(s, to) PROVE FALSE
      OBVIOUS
    <2>2. Len(s.came) \in Nat /\ Len(s.queue) \in Nat /\ Len(s.queue) >= 1
      BY <2>1, SearchTyped DEF Goes
    <2>3. Len(s.came) - Len(s.queue) = N - 1
      BY <1>8, <2>1 DEF Done
    <2>4. Len(s.came) + 1 <= N
      BY <1>8, FewPlaces DEF Breadth, Tree, N
    <2> QED
      BY <1>0, <2>2, <2>3, <2>4
  <1> QED
    BY <1>1, <1>7, <1>8, <1>9 DEF N, ways

\* Along a path of the search one goes one way further at every edge.
SearchPath(path, s, from, n) ==
    /\ path \in Seq(PathEdges) /\ Joined(path) /\ path # <<>> /\ path[1].from = from
    /\ \A i \in 1..Len(path) : \E k \in 1..Len(s.came) : path[i] = s.came[k]
    /\ Len(path) <= n

EndsFurther(W, path) ==
    path[Len(path)].to \in W[Len(path)] /\ path[Len(path)].to \notin W[Len(path) - 1]

LEMMA PathClimbs ==
  ASSUME NEW n \in Nat, NEW ways, NEW from \in Stations, NEW to, NEW W,
         Spreads(W, n, ways, from), NEW s \in SearchStates,
         Breadth(W, n, ways, from, to, s), NEW path, SearchPath(path, s, from, n)
  PROVE  EndsFurther(W, path)
  <1>0. /\ path \in Seq(PathEdges) /\ Joined(path) /\ path # <<>> /\ path[1].from = from
        /\ \A i \in 1..Len(path) : \E k \in 1..Len(s.came) : path[i] = s.came[k]
        /\ Len(path) <= n
    BY DEF SearchPath
  <1>1. PICK m \in Nat : m = Len(path) /\ m >= 1 /\ m <= n
    BY <1>0
  <1> DEFINE J == {i \in 0..m : i >= 1 => path[i].to \in W[i] /\ path[i].to \notin W[i - 1]}
  <1>2. 0 \in J
    BY <1>1
  <1>3. ASSUME NEW i \in 1..m, NEW j \in 1..n
        PROVE  path[i].from \in W[j - 1] <=> path[i].to \in W[j]
    <2>1. PICK k \in 1..Len(s.came) : path[i] = s.came[k]
      BY <1>0, <1>1
    <2> QED
      BY <2>1 DEF Breadth, Further
  <1>4. ASSUME NEW i \in 1..m PROVE path[i].to # from
    <2>1. PICK k \in 1..Len(s.came) : path[i] = s.came[k]
      BY <1>0, <1>1
    <2> QED
      BY <2>1 DEF Breadth, Tree, Distinct
  <1>5. W[0] = {from}
    BY DEF Spreads
  <1>6. ASSUME NEW i \in 1..m, i - 1 \in J PROVE i \in J
    <2>1. i \in 1..n /\ i \in 0..m
      BY <1>1
    <2>2. CASE i = 1
      <3>1. path[1].from \in W[0] /\ path[1].to \notin W[0]
        BY <1>0, <1>1, <1>4, <1>5
      <3> QED
        BY <1>3, <2>1, <2>2, <3>1
    <2>3. CASE i # 1
      <3>1. i - 1 >= 1 /\ i - 1 \in 1..m /\ i - 1 \in 1..n /\ (i - 1) + 1 = i
            /\ i - 1 \in 1..(m - 1)
        BY <1>1, <2>3
      <3>2. path[i - 1].to \in W[i - 1] /\ path[i - 1].to \notin W[(i - 1) - 1]
        BY <1>6, <3>1
      <3>3. path[i].from = path[i - 1].to
        BY <1>0, <1>1, <3>1 DEF Joined
      <3>4. path[i].to \in W[i]
        BY <1>3, <2>1, <3>2, <3>3
      <3>5. path[i].to \notin W[i - 1]
        BY <1>3, <3>1, <3>2, <3>3
      <3> QED
        BY <2>1, <3>4, <3>5
    <2> QED
      BY <2>2, <2>3
  <1> HIDE DEF J
  <1>7. 0..m \subseteq J
    BY <1>2, <1>6, IntervalInduction
  <1>8. m \in J
    BY <1>1, <1>7
  <1> QED
    BY <1>1, <1>8 DEF J, EndsFurther

\* A way that is found is a shortest one ...
LEMMA FoundIsShortest ==
  ASSUME lists \in StationLists, NEW from \in Stations, NEW to \in Stations,
         NEW path, path = FindPath(lists, from, to), path # <<>>
  PROVE  to \in Within(from)[Len(path)] /\ to \notin Within(from)[Len(path) - 1]
  <1> DEFINE N == Cardinality(Stations)
             W == Within(from)
             s == Search(lists, from, to)
  <1>1. Spreads(W, N, Ways(lists), from) /\ N \in Nat
    BY WithinSpreads, CountIsNat
  <1>2. s \in SearchStates /\ Breadth(W, N, Ways(lists), from, to, s)
    BY <1>1, SearchIsOver
  <1>3. to \in Reached(s, from)
    BY DEF FindPath
  <1>4. PathTo(path, s, from, to, Len(s.came)) /\ Cursor(path, to) = from
    BY <1>3, FoundPath
  <1> HIDE DEF N, W, s
  <1>5. /\ path \in Seq(PathEdges) /\ Joined(path) /\ Len(path) <= Len(s.came)
        /\ \A i \in 1..Len(path) : \E k \in 1..Len(s.came) : path[i] = s.came[k]
        /\ path[Len(path)].to = to
    BY <1>4 DEF PathTo, EndsAt
  <1>6. path[1].from = from
    <2>1. Head(path) = path[1]
      BY <1>5
    <2> QED
      BY <1>4, <2>1 DEF Cursor
  <1>7. Len(path) <= N
    <2>1. Len(s.came) + 1 <= N
      BY <1>2, FewPlaces DEF Breadth, Tree, N
    <2>2. Len(path) \in Nat /\ Len(s.came) \in Nat
      BY <1>2, <1>5, SearchTyped
    <2> QED
      BY <1>1, <1>5, <2>1, <2>2
  <1>8. SearchPath(path, s, from, N)
    BY <1>5, <1>6, <1>7 DEF SearchPath
  <1>9. EndsFurther(W, path)
    BY <1>1, <1>2, <1>8, PathClimbs
  <1> QED
    BY <1>5, <1>9 DEF EndsFurther, W

\* ... and none is found only where there is none.
LEMMA NoneFound ==
  ASSUME lists \in StationLists, NEW from \in Stations, NEW to \in Stations,
         FindPath(lists, from, to) = <<>>
  PROVE  from = to \/ to \notin Within(from)[Cardinality(Stations)]
  <1> DEFINE N == Cardinality(Stations)
             W == Within(from)
             s == Search(lists, from, to)
             ways == Ways(lists)
  <1>1. Spreads(W, N, ways, from) /\ N \in Nat
    BY WithinSpreads, CountIsNat
  <1>2. s \in SearchStates /\ Breadth(W, N, ways, from, to, s) /\ ~Goes(s, to)
    BY <1>1, SearchIsOver
  <1>3. CASE to \in Reached(s, from)
    <2>1. Cursor(<<>>, to) = from
      BY <1>3, FoundPath
    <2> QED
      BY <2>1 DEF Cursor
  <1>4. CASE to \notin Reached(s, from)
    <2> HIDE DEF N, W, s, ways
    <2>0. Len(s.came) \in Nat /\ Len(s.queue) \in Nat
      BY <1>2, SearchTyped
    <2>1. s.queue = <<>>
      <3>1. SUFFICES ASSUME s.queue # <<>> PROVE FALSE
        OBVIOUS
      <3>2. Head(s.queue) = to
        BY <1>2, <3>1 DEF Goes
      <3>3. Queued(from, s)
        BY <1>2 DEF Breadth, Tree
      <3>4. \E j \in 0..Len(s.came) : to = Place(from, s, j)
        BY <1>2, <3>1, <3>2, <3>3, HeadIsPlace
      <3> QED
        BY <1>2, <1>4, <3>4, ReachedPlaces
    <2>2. Done(s) = Len(s.came)
      BY <2>0, <2>1 DEF Done
    <2>3. ASSUME NEW e \in Range(ways), e.from \in Reached(s, from) PROVE e.to \in Reached(s, from)
      <3>1. PICK j \in 0..Len(s.came) : e.from = Place(from, s, j)
        BY <1>2, <2>3, ReachedPlaces
      <3> QED
        BY <1>2, <2>2, <3>1 DEF Breadth, AllTaken
    <2>4. from \in Reached(s, from)
      BY DEF Reached
    <2>5. \A i \in 0..N : W[i] \subseteq Reached(s, from)
      BY <1>1, <2>3, <2>4, ClosedReach
    <2>6. W[N] \subseteq Reached(s, from)
      BY <1>1, <2>5
    <2> QED
      BY <1>4, <2>6 DEF N, W
  <1> QED
    BY <1>3, <1>4

\* Nor is there one to or from a station that is not on the map.
LEMMA OffMap ==
  ASSUME lists \in StationLists, NEW from \in Stations, NEW to \in Stations,
         ~({from, to} \subseteq Known(lists))
  PROVE  from = to \/ to \notin Within(from)[Cardinality(Stations)]
  <1> DEFINE N == Cardinality(Stations)
             W == Within(from)
             T == Known(lists)
             ways == Ways(lists)
  <1>1. Spreads(W, N, ways, from) /\ N \in Nat
    BY WithinSpreads, CountIsNat
  <1>2. \A e \in Range(Edges(lists)) : e \in EdgesOn(T)
    <2>1. ASSUME NEW l \in Lines PROVE lists[l] \in Seq(T)
      <3>1. lists[l] \in Seq(Stations)
        BY DEF StationLists
      <3>2. Range(lists[l]) \subseteq T
        BY DEF Known
      <3>3. \A k \in 1..Len(lists[l]) : lists[l][k] \in T
        BY <3>1, <3>2, RangeIs
      <3> HIDE DEF T
      <3> QED
        BY <3>1, <3>3
    <2>2. lists \in [Lines -> Seq(T)]
      BY <2>1 DEF StationLists
    <2> HIDE DEF T
    <2>3. Edges(lists) \in Seq(EdgesOn(T))
      BY <2>2, EdgesTyped
    <2> QED
      BY <2>3, RangeIs
  <1>3. ASSUME NEW e \in Range(ways) PROVE e.from \in T /\ e.to \in T
    <2>1. e \in Range(Edges(lists)) \/ \E g \in Range(Edges(lists)) : e = Back(g)
      BY WaysTyped
    <2> HIDE DEF T
    <2>2. CASE e \in Range(Edges(lists))
      BY <1>2, <2>2 DEF EdgesOn
    <2>3. CASE \E g \in Range(Edges(lists)) : e = Back(g)
      <3>1. PICK g \in Range(Edges(lists)) : e = Back(g)
        BY <2>3
      <3>2. g.from \in T /\ g.to \in T
        BY <1>2 DEF EdgesOn
      <3> QED
        BY <3>1, <3>2 DEF Back, Edge
    <2> QED
      BY <2>1, <2>2, <2>3
  <1> HIDE DEF N, W, T, ways
  <1>4. CASE from \in T
    <2>1. \A i \in 0..N : W[i] \subseteq T
      BY <1>1, <1>3, <1>4, ClosedReach
    <2>2. W[N] \subseteq T
      BY <1>1, <2>1
    <2> QED
      BY <1>4, <2>2 DEF N, W, T
  <1>5. CASE from \notin T
    <2>1. \A e \in Range(ways) : e.from \in {from} => e.to \in {from}
      BY <1>3, <1>5
    <2>2. \A i \in 0..N : W[i] \subseteq {from}
      BY <1>1, <2>1, ClosedReach
    <2>3. W[N] \subseteq {from}
      BY <1>1, <2>2
    <2> QED
      BY <2>3 DEF N, W
  <1> QED
    BY <1>4, <1>5

\* A hop that ends with a leg of no train is one along the map.
LEMMA RideHasTimes ==
  ASSUME ScheduleInv, Ride
  PROVE  Last(legs').dep # NoTime
  <1>1. PICK h \in TimedHops(From, To, earliest) : legs' = legs \o RealLegs(h)
    BY DEF Ride
  <1>2. InputsTyped /\ earliest \in Nat /\ hop < Len(route) - 1 /\ legs \in Seq(Legs)
    BY PartsTyped DEF ScheduleInv, Ride
  <1>3. From \in Stations /\ To \in Stations
    BY <1>2, HopTo
  <1>4. ChangeTime \in Nat
    BY ScheduleAssumption
  <1>5. CASE OneTrain(h, From, To, earliest)
    <2>1. PICK t : h = <<t>> /\ TrainOf(t, From, To, earliest)
      BY <1>5 DEF OneTrain
    <2>2. PICK r \in Legs : r = RealLeg(t)
      BY <1>2, <1>3, <2>1, RealLegIs
    <2>3. r.dep # NoTime
      BY <1>2, <1>3, <2>1, <2>2, RealLegIs
    <2>4. RealLegs(h) = <<r>>
      BY <2>1, <2>2 DEF RealLegs, RealLeg
    <2>5. Last(legs \o <<r>>) = r
      BY <1>2, <2>2 DEF Last
    <2> QED
      BY <1>1, <2>3, <2>4, <2>5
  <1>6. CASE TwoTrains(h, From, To, earliest)
    <2>1. PICK t, u : \E s \in Stations : /\ h = <<t, u>> /\ TrainOf(t, From, s, earliest)
                                          /\ TrainOf(u, s, To, t.arr + ChangeTime)
      BY <1>6 DEF TwoTrains
    <2>2. PICK s \in Stations : /\ h = <<t, u>> /\ TrainOf(t, From, s, earliest)
                                /\ TrainOf(u, s, To, t.arr + ChangeTime)
      BY <2>1
    <2>3. t.arr + ChangeTime \in Nat
      BY <1>4, <2>2 DEF TrainOf
    <2>4. PICK r \in Legs, v \in Legs : r = RealLeg(t) /\ v = RealLeg(u)
      BY <1>2, <1>3, <2>2, <2>3, RealLegIs
    <2>5. v.dep # NoTime
      BY <1>3, <2>2, <2>3, <2>4, RealLegIs
    <2>6. RealLegs(h) = <<r, v>>
      BY <2>2, <2>4 DEF RealLegs, RealLeg
    <2>7. Last(legs \o <<r, v>>) = v
      BY <1>2, <2>4 DEF Last
    <2> QED
      BY <1>1, <2>5, <2>6, <2>7
  <1> QED
    BY <1>2, <1>5, <1>6, RidesAreTrains

\* What is said of a step of the calculation.
StepIsShort ==
    /\ hop' = hop + 1 /\ timed' = FALSE /\ earliest' = earliest
           /\ Last(legs').dep = NoTime =>
         LET n == Len(legs') - Len(legs)
         IN  To \in Within(From)[n] /\ To \notin Within(From)[n - 1]
    /\ outcome' = "no way" =>
         From = To \/ To \notin Within(From)[Cardinality(Stations)]

\* A hop along the map is a shortest way.
LEMMA FollowMapIsShort == ScheduleInv /\ FollowMap => StepIsShort
  <1> SUFFICES ASSUME ScheduleInv, FollowMap PROVE StepIsShort
    OBVIOUS
  <1>1. PICK path : /\ path = FindPath(lists, From, To) /\ path # <<>>
                    /\ legs' = legs \o PathLegs(path)
    BY DEF FollowMap
  <1>2. hop < Len(route) - 1 /\ outcome' # "no way"
    BY DEF FollowMap
  <1>3. legs \in Seq(Legs) /\ lists \in StationLists
    BY PartsTyped DEF ScheduleInv, InputsTyped
  <1>4. From \in Stations /\ To \in Stations
    BY <1>2, HopTo
  <1>5. path \in Seq(PathEdges) /\ Joined(path)
    BY <1>1, <1>3, <1>4, PathTravels
  <1>6. PICK nl : nl = PathLegs(path)
    OBVIOUS
  <1>7. nl \in Seq(Legs) /\ Len(nl) = Len(path)
    BY <1>1, <1>5, <1>6, PathFits DEF HopJoins
  <1>8. Len(legs') - Len(legs) = Len(path)
    <2>1. PICK c \in Nat, d \in Nat : c = Len(legs) /\ d = Len(nl)
      BY <1>3, <1>7
    <2>2. Len(legs \o nl) = c + d
      BY <1>3, <1>7, <2>1
    <2> QED
      BY <1>1, <1>6, <1>7, <2>1, <2>2
  <1>9. To \in Within(From)[Len(path)] /\ To \notin Within(From)[Len(path) - 1]
    BY <1>1, <1>3, <1>4, FoundIsShortest
  <1> QED
    BY <1>2, <1>8, <1>9 DEF StepIsShort

\* No way is found only where there is none.
LEMMA NoWayIsShort == ScheduleInv /\ NoWay => StepIsShort
  <1> SUFFICES ASSUME ScheduleInv, NoWay PROVE StepIsShort
    OBVIOUS
  <1>1. /\ hop < Len(route) - 1 /\ hop' = hop
        /\ ~OnMap \/ FindPath(lists, From, To) = <<>>
    BY DEF NoWay, Give
  <1>2. hop \in Nat /\ lists \in StationLists
    BY PartsTyped DEF ScheduleInv, InputsTyped
  <1>3. From \in Stations /\ To \in Stations
    BY <1>1, HopTo
  <1>4. From = To \/ To \notin Within(From)[Cardinality(Stations)]
    BY <1>1, <1>2, <1>3, OffMap, NoneFound DEF OnMap
  <1>5. hop' # hop + 1
    BY <1>1, <1>2
  <1> QED
    BY <1>4, <1>5 DEF StepIsShort

\* The other steps claim nothing of a way.
LEMMA StepsAreShort ==
  ASSUME ScheduleInv, Next
  PROVE  StepIsShort
  <1>0. hop \in Nat /\ hop # hop + 1
    BY PartsTyped
  <1>1. CASE Ride
    <2>1. Last(legs').dep # NoTime /\ outcome' # "no way"
      BY <1>1, RideHasTimes DEF Ride
    <2> QED
      BY <2>1 DEF StepIsShort
  <1>2. CASE FollowMap
    BY <1>2, FollowMapIsShort
  <1>3. CASE NoWay
    BY <1>3, NoWayIsShort
  <1>4. CASE RequestFails
    BY <1>0, <1>4 DEF RequestFails, Give, StepIsShort
  <1>5. CASE Finish
    BY <1>0, <1>5 DEF Finish, StepIsShort
  <1> QED
    BY <1>1, <1>2, <1>3, <1>4, <1>5 DEF Next

\* Without times a hop takes the fewest stations the map allows, and no way
\* is found only where there is none (ShortestWay): for any map of the lines,
\* the search that buildPathOnlyHop takes its way from is breadth first, and
\* its passes are enough.
THEOREM WaysAreShortest == Spec => ShortestWay
  <1>1. ASSUME ScheduleInv, [Next]_vars PROVE [StepIsShort]_vars
    BY <1>1, StepsAreShort
  <1>2. [][StepIsShort]_vars => ShortestWay
    BY DEF StepIsShort, ShortestWay
  <1> QED
    BY <1>1, <1>2, ScheduleInvariant, PTL DEF Spec

-----------------------------------------------------------------------------
(* The trains that are chosen are the first to arrive.                       *)

\* Of any things one has the least f, and the least g of those.
LEMMA LeastPair ==
  ASSUME NEW A, A # {}, NEW f \in [A -> Nat], NEW g \in [A -> Nat]
  PROVE  \E a \in A : \A b \in A : f[a] < f[b] \/ (f[a] = f[b] /\ g[a] <= g[b])
  <1> DEFINE F == {f[a] : a \in A}
  <1>1. F \in SUBSET Nat /\ F # {}
    OBVIOUS
  <1>2. PICK m \in F : \A n \in F : m <= n
    <2> HIDE DEF F
    <2> QED
      BY <1>1, LeastOf
  <1> DEFINE G == {g[a] : a \in {a \in A : f[a] = m}}
  <1>3. G \in SUBSET Nat /\ G # {}
    OBVIOUS
  <1>4. PICK k \in G : \A n \in G : k <= n
    <2> HIDE DEF G
    <2> QED
      BY <1>3, LeastOf
  <1>5. PICK a \in A : f[a] = m /\ g[a] = k
    OBVIOUS
  <1>6. ASSUME NEW b \in A PROVE f[a] < f[b] \/ (f[a] = f[b] /\ g[a] <= g[b])
    <2>1. m <= f[b] /\ m \in Nat /\ f[b] \in Nat
      BY <1>1, <1>2
    <2>2. CASE f[b] = m
      <3>1. k <= g[b]
        BY <1>4, <2>2
      <3> QED
        BY <1>5, <2>2, <3>1
    <2>3. CASE f[b] # m
      BY <1>5, <2>1, <2>3
    <2> QED
      BY <2>2, <2>3
  <1> QED
    BY <1>6

\* The trains that go from one station to another, by any line.
Direct(s, t, m) == UNION {Trains(s, t, l, m) : l \in Shared(s, t)}

\* They are trains from there to there.
LEMMA DirectTyped ==
  ASSUME InputsTyped, NEW from, NEW to, NEW after \in Nat, NEW t \in Direct(from, to, after)
  PROVE  TrainOf(t, from, to, after)
  <1>1. PICK l \in Shared(from, to) : t \in Trains(from, to, l, after)
    BY DEF Direct
  <1>2. l \in Lines
    BY DEF Shared, LinesAt
  <1> QED
    BY <1>1, <1>2, TrainsTyped

\* Who is there earlier may take all the trains of who is there later.
LEMMA TrainsLater ==
  ASSUME InputsTyped, NEW from, NEW to, NEW l, NEW after \in Nat, NEW later \in Nat,
         after <= later
  PROVE  Trains(from, to, l, later) \subseteq Trains(from, to, l, after)
  <1>1. ASSUME NEW t \in Trains(from, to, l, later) PROVE t \in Trains(from, to, l, after)
    <2>1. PICK p \in RowsAt(from, l) \X RowsAt(to, l) :
             /\ p[1].train = p[2].train /\ p[1].dir = p[2].dir
             /\ Departs(p[1]) >= later
             /\ t = Leg(from, to, l, p[1].train, Departs(p[1]),
                        AfterDeparture(Arrives(p[2]), Departs(p[1])))
             /\ t.arr - t.dep <= MaxLeg
      BY DEF Trains
    <2>2. p[1] \in rows /\ Departs(p[1]) # NoTime
      BY DEF RowsAt
    <2>3. Departs(p[1]) \in Nat
      BY <2>2, RowTyped DEF Departs, Minute
    <2>4. Departs(p[1]) >= after
      BY <2>1, <2>3
    <2> QED
      BY <2>1, <2>4 DEF Trains
  <1> QED
    BY <1>1

\* That is so of all lines together.
LEMMA DirectLater ==
  ASSUME InputsTyped, NEW from, NEW to, NEW after \in Nat, NEW later \in Nat, after <= later
  PROVE  Direct(from, to, later) \subseteq Direct(from, to, after)
  BY TrainsLater DEF Direct

\* These are of those, if any, and arrive first.
FirstOf(F, D) ==
    /\ F \subseteq D /\ (D # {} => F # {})
    /\ \A t \in F, u \in D : t.arr <= u.arr

\* The next train of a line arrives first if none overtakes another.
LEMMA NextIsFirst ==
  ASSUME InputsTyped, NoneOvertaken, NEW from, NEW to, NEW l \in Shared(from, to),
         NEW after \in Nat
  PROVE  FirstOf(NextTrains(from, to, l, after), Trains(from, to, l, after))
  <1> DEFINE all == Trains(from, to, l, after)
             next == NextTrains(from, to, l, after)
  <1>1. l \in Lines /\ from \in Range(lists[l]) /\ to \in Range(lists[l])
    BY DEF Shared, LinesAt
  <1>2. \A t \in all : t.dep \in Nat /\ t.arr \in Nat
    BY <1>1, TrainsTyped DEF TrainOf
  <1>3. \A g \in all, h \in all : g.dep < h.dep => g.arr <= h.arr
    <2>1. all \subseteq Trains(from, to, l, 0)
      BY TrainsLater
    <2> QED
      BY <1>1, <2>1 DEF NoneOvertaken
  <1>4. next = {t \in all : \A u \in all : \/ t.dep < u.dep
                                           \/ t.dep = u.dep /\ t.arr <= u.arr}
    BY DEF NextTrains
  <1> HIDE DEF all, next
  <1>5. next \subseteq all
    BY <1>4
  <1>6. \A t \in next, u \in all : t.arr <= u.arr
    BY <1>3, <1>4
  <1>7. ASSUME all # {} PROVE next # {}
    <2>1. PICK f, g : f = [t \in all |-> t.dep] /\ g = [t \in all |-> t.arr]
      OBVIOUS
    <2>2. f \in [all -> Nat] /\ g \in [all -> Nat]
      BY <1>2, <2>1
    <2>3. PICK a \in all : \A b \in all : f[a] < f[b] \/ (f[a] = f[b] /\ g[a] <= g[b])
      BY <1>7, <2>2, LeastPair
    <2>4. \A b \in all : a.dep < b.dep \/ (a.dep = b.dep /\ a.arr <= b.arr)
      BY <2>1, <2>3
    <2>5. a \in next
      BY <1>4, <2>4
    <2> QED
      BY <2>5
  <1> QED
    BY <1>5, <1>6, <1>7 DEF FirstOf, all, next

\* Of all lines the first to arrive.
LEMMA FirstIsFirst ==
  ASSUME InputsTyped, NoneOvertaken, NEW from, NEW to, NEW after \in Nat
  PROVE  FirstOf(FirstToArrive(from, to, after), Direct(from, to, after))
  <1> DEFINE all == UNION {NextTrains(from, to, l, after) : l \in Shared(from, to)}
             direct == Direct(from, to, after)
             first == FirstToArrive(from, to, after)
  <1>1. ASSUME NEW l \in Shared(from, to)
        PROVE  FirstOf(NextTrains(from, to, l, after), Trains(from, to, l, after))
    BY NextIsFirst
  <1>2. all \subseteq direct
    BY <1>1 DEF FirstOf, Direct
  <1>3. \A t \in direct : t.arr \in Nat /\ t.line \in Nat
    <2>1. Lines \subseteq Nat
      BY LinesAre
    <2> QED
      BY <2>1, DirectTyped DEF TrainOf
  <1>4. ASSUME NEW u \in direct PROVE \E t \in all : t.arr <= u.arr
    <2>1. PICK l \in Shared(from, to) : u \in Trains(from, to, l, after)
      BY DEF Direct
    <2>2. PICK t \in NextTrains(from, to, l, after) : t.arr <= u.arr
      BY <1>1, <2>1 DEF FirstOf
    <2> QED
      BY <2>2
  <1>5. first = {t \in all : \A u \in all : t.arr < u.arr \/ (t.arr = u.arr /\ t.line <= u.line)}
    BY DEF FirstToArrive
  <1> HIDE DEF all, direct, first
  <1>6. first \subseteq direct
    BY <1>2, <1>5
  <1>7. ASSUME NEW t \in first, NEW u \in direct PROVE t.arr <= u.arr
    <2>1. PICK v \in all : v.arr <= u.arr
      BY <1>4
    <2>2. t.arr < v.arr \/ t.arr = v.arr
      BY <1>5, <1>7
    <2>3. t \in direct /\ v \in direct
      BY <1>2, <1>6
    <2>4. t.arr \in Nat /\ v.arr \in Nat /\ u.arr \in Nat
      BY <1>3, <2>3
    <2> QED
      BY <2>1, <2>2, <2>4
  <1>8. ASSUME direct # {} PROVE first # {}
    <2>1. all # {}
      BY <1>4, <1>8
    <2>2. PICK f, g : f = [t \in all |-> t.arr] /\ g = [t \in all |-> t.line]
      OBVIOUS
    <2>3. f \in [all -> Nat] /\ g \in [all -> Nat]
      BY <1>2, <1>3, <2>2
    <2>4. PICK a \in all : \A b \in all : f[a] < f[b] \/ (f[a] = f[b] /\ g[a] <= g[b])
      BY <2>1, <2>3, LeastPair
    <2>5. \A b \in all : a.arr < b.arr \/ (a.arr = b.arr /\ a.line <= b.line)
      BY <2>2, <2>4
    <2>6. a \in first
      BY <1>5, <2>5
    <2> QED
      BY <2>6
  <1> QED
    BY <1>6, <1>7, <1>8 DEF FirstOf, direct, first

\* A station of the map has its place on it.
LEMMA RankIsNat ==
  ASSUME InputsTyped, NEW s \in Known(lists)
  PROVE  Rank(lists, s) \in Nat
  <1>1. PICK all : all = FlattenSeq(lists)
    OBVIOUS
  <1>2. lists \in Seq(Seq(Stations)) /\ Len(lists) = Len(Real)
    <2>1. lists \in [1..Len(Real) -> Seq(Stations)] /\ Len(Real) \in Nat
      BY LinesAre DEF InputsTyped, StationLists
    <2> QED
      BY <2>1
  <1>3. all \in Seq(Stations) /\ Range(all) = UNION {Range(lists[i]) : i \in 1..Len(lists)}
    BY <1>1, <1>2, Flattened
  <1>4. s \in Range(all)
    <2>1. PICK l \in Lines : s \in Range(lists[l])
      BY DEF Known
    <2> QED
      BY <1>2, <1>3, <2>1, LinesAre
  <1> DEFINE Places == {k \in 1..Len(all) : all[k] = s}
  <1>5. Places \in SUBSET Nat /\ Places # {}
    <2>1. \E k \in 1..Len(all) : all[k] = s
      BY <1>3, <1>4, RangeIs
    <2> QED
      BY <1>3, <2>1
  <1>6. PICK m \in Places : \A k \in Places : m <= k
    <2> HIDE DEF Places
    <2> QED
      BY <1>5, LeastOf
  <1>7. m \in DOMAIN all /\ all[m] = s /\ \A j \in 1..(m - 1) : all[j] # s
    <2>1. ASSUME NEW j \in 1..(m - 1), all[j] = s PROVE FALSE
      <3>1. Len(all) \in Nat
        BY <1>3
      <3>2. j \in Places /\ ~(m <= j)
        BY <1>3, <1>6, <2>1, <3>1
      <3> QED
        BY <1>6, <3>2
    <2> QED
      BY <1>3, <1>6, <2>1
  <1>8. DOMAIN all \subseteq Nat
    BY <1>3
  <1>9. Rank(lists, s) = CHOOSE i \in DOMAIN all : all[i] = s /\ \A j \in 1..(i - 1) : all[j] # s
    BY <1>1 DEF Rank
  <1>10. Rank(lists, s) \in DOMAIN all
    BY <1>7, <1>9
  <1> QED
    BY <1>8, <1>10

\* The arrivals by two trains, with a change at s.
ArrivalsVia(from, s, to, after) ==
    UNION {{u.arr : u \in Direct(s, to, t.arr + ChangeTime)} : t \in Direct(from, s, after)}

\* Such an arrival is a minute.
LEMMA ArrivalIsNat ==
  ASSUME InputsTyped, NEW from, NEW s, NEW to, NEW after \in Nat,
         NEW m \in ArrivalsVia(from, s, to, after)
  PROVE  m \in Nat
  <1>1. PICK t \in Direct(from, s, after) : m \in {u.arr : u \in Direct(s, to, t.arr + ChangeTime)}
    BY DEF ArrivalsVia
  <1>2. t.arr + ChangeTime \in Nat
    BY DirectTyped, ScheduleAssumption DEF TrainOf
  <1> QED
    BY <1>1, <1>2, DirectTyped DEF TrainOf

\* These pairs of trains arrive at some of those times, if any, and first.
PairsFirst(H, A) ==
    /\ \A h \in H : h[2].arr \in A /\ \A m \in A : h[2].arr <= m
    /\ A # {} => H # {}

\* The first train to the change and the first one on from it arrive first.
LEMMA ViaIsFirst ==
  ASSUME InputsTyped, NoneOvertaken, NEW from, NEW s, NEW to, NEW after \in Nat
  PROVE  PairsFirst(Via(from, s, to, after), ArrivalsVia(from, s, to, after))
  <1>0. ChangeTime \in Nat
    BY ScheduleAssumption
  <1>1. FirstOf(FirstToArrive(from, s, after), Direct(from, s, after))
    BY FirstIsFirst
  <1>2. ASSUME NEW t \in Direct(from, s, after) PROVE t.arr \in Nat /\ t.arr + ChangeTime \in Nat
    BY <1>0, DirectTyped DEF TrainOf
  <1>3. ASSUME NEW t \in Direct(from, s, after)
        PROVE  FirstOf(FirstToArrive(s, to, t.arr + ChangeTime), Direct(s, to, t.arr + ChangeTime))
    BY <1>2, FirstIsFirst
  <1>4. ASSUME NEW t \in FirstToArrive(from, s, after), NEW v \in Direct(from, s, after)
        PROVE  Direct(s, to, v.arr + ChangeTime) \subseteq Direct(s, to, t.arr + ChangeTime)
    <2>1. t \in Direct(from, s, after) /\ t.arr <= v.arr
      BY <1>1 DEF FirstOf
    <2>2. t.arr + ChangeTime <= v.arr + ChangeTime
      BY <1>0, <1>2, <2>1
    <2> QED
      BY <1>2, <2>1, <2>2, DirectLater
  <1>5. ASSUME NEW h \in Via(from, s, to, after)
        PROVE  /\ h[2].arr \in ArrivalsVia(from, s, to, after)
               /\ \A m \in ArrivalsVia(from, s, to, after) : h[2].arr <= m
    <2>1. PICK t \in FirstToArrive(from, s, after) :
              h \in {<<t, u>> : u \in FirstToArrive(s, to, t.arr + ChangeTime)}
      BY DEF Via
    <2>2. PICK u \in FirstToArrive(s, to, t.arr + ChangeTime) : h = <<t, u>>
      BY <2>1
    <2>3. t \in Direct(from, s, after)
      BY <1>1 DEF FirstOf
    <2>4. /\ u \in Direct(s, to, t.arr + ChangeTime)
          /\ \A v \in Direct(s, to, t.arr + ChangeTime) : u.arr <= v.arr
      BY <1>3, <2>3 DEF FirstOf
    <2>5. h[2] = u
      BY <2>2
    <2>6. u.arr \in ArrivalsVia(from, s, to, after)
      BY <2>3, <2>4 DEF ArrivalsVia
    <2>7. ASSUME NEW m \in ArrivalsVia(from, s, to, after) PROVE u.arr <= m
      <3>1. PICK w \in Direct(from, s, after) : m \in {v.arr : v \in Direct(s, to, w.arr + ChangeTime)}
        BY DEF ArrivalsVia
      <3>2. PICK v \in Direct(s, to, w.arr + ChangeTime) : m = v.arr
        BY <3>1
      <3>3. v \in Direct(s, to, t.arr + ChangeTime)
        BY <1>4
      <3> QED
        BY <2>4, <3>2, <3>3
    <2> QED
      BY <2>5, <2>6, <2>7
  <1>6. ASSUME ArrivalsVia(from, s, to, after) # {} PROVE Via(from, s, to, after) # {}
    <2>1. PICK v \in Direct(from, s, after) : Direct(s, to, v.arr + ChangeTime) # {}
      BY <1>6 DEF ArrivalsVia
    <2>2. PICK t \in FirstToArrive(from, s, after) : TRUE
      BY <1>1 DEF FirstOf
    <2>3. t \in Direct(from, s, after) /\ Direct(s, to, t.arr + ChangeTime) # {}
      BY <1>1, <1>4, <2>1 DEF FirstOf
    <2>4. PICK u \in FirstToArrive(s, to, t.arr + ChangeTime) : TRUE
      BY <1>3, <2>3 DEF FirstOf
    <2>5. <<t, u>> \in Via(from, s, to, after)
      BY DEF Via
    <2> QED
      BY <2>5
  <1> QED
    BY <1>5, <1>6 DEF PairsFirst

\* Where there is a train to a station and one on from it, one may change there.
LEMMA ChangesAreThere ==
  ASSUME InputsTyped, NEW from, NEW to, NEW s, s \notin {from, to}, NEW after, NEW later,
         Direct(from, s, after) # {}, Direct(s, to, later) # {}
  PROVE  s \in Changes(from, to)
  <1>1. Shared(from, s) # {} /\ Shared(s, to) # {}
    BY DEF Direct
  <1>2. s \in Known(lists)
    BY <1>1 DEF Shared, LinesAt, Known
  <1> QED
    BY <1>1, <1>2 DEF Changes

\* The reference, by its parts.
LEMMA RidesAre ==
  ASSUME InputsTyped, NEW from, NEW to, NEW after
  PROVE  Rides(from, to, after) =
           IF Shared(from, to) # {} THEN {t.arr : t \in Direct(from, to, after)}
           ELSE UNION {ArrivalsVia(from, s, to, after) : s \in Changes(from, to)}
  <1>1. CASE Shared(from, to) # {}
    BY <1>1 DEF Rides, Direct
  <1>2. CASE Shared(from, to) = {}
    <2>1. Rides(from, to, after) =
             UNION {ArrivalsVia(from, s, to, after) : s \in Stations \ {from, to}}
      BY <1>2 DEF Rides, Direct, ArrivalsVia
    <2>2. Changes(from, to) \subseteq Stations \ {from, to}
      BY KnownAreStations DEF Changes
    <2>3. ASSUME NEW s \in Stations \ {from, to}, ArrivalsVia(from, s, to, after) # {}
          PROVE  s \in Changes(from, to)
      <3>1. PICK t \in Direct(from, s, after) : Direct(s, to, t.arr + ChangeTime) # {}
        BY <2>3 DEF ArrivalsVia
      <3> QED
        BY <2>3, <3>1, ChangesAreThere
    <2> QED
      BY <1>2, <2>1, <2>2, <2>3
  <1> QED
    BY <1>1, <1>2

\* The hops that are chosen arrive first of all rides.
LEMMA HopsAreFirst ==
  ASSUME InputsTyped, NoneOvertaken, NEW from, NEW to, NEW after \in Nat
  PROVE  /\ \A h \in TimedHops(from, to, after) :
               /\ Last(h).arr \in Rides(from, to, after)
               /\ \A m \in Rides(from, to, after) : Last(h).arr <= m
         /\ Rides(from, to, after) # {} => TimedHops(from, to, after) # {}
  <1> DEFINE hops == TimedHops(from, to, after)
             rides == Rides(from, to, after)
  <1>1. CASE Shared(from, to) # {}
    <2>1. hops = {<<t>> : t \in FirstToArrive(from, to, after)}
      BY <1>1 DEF TimedHops
    <2>2. rides = {t.arr : t \in Direct(from, to, after)}
      BY <1>1, RidesAre
    <2>3. FirstOf(FirstToArrive(from, to, after), Direct(from, to, after))
      BY FirstIsFirst
    <2>4. \A t : Last(<<t>>) = t
      BY DEF Last
    <2> HIDE DEF hops, rides
    <2>5. hops # {} <=> FirstToArrive(from, to, after) # {}
      BY <2>1
    <2>6. ASSUME NEW h \in hops PROVE Last(h).arr \in rides /\ \A m \in rides : Last(h).arr <= m
      <3>1. PICK t \in FirstToArrive(from, to, after) : h = <<t>>
        BY <2>1
      <3>2. Last(h) = t
        BY <2>4, <3>1
      <3> QED
        BY <2>2, <2>3, <3>2 DEF FirstOf
    <2> QED
      BY <2>2, <2>3, <2>5, <2>6 DEF FirstOf, hops, rides
  <1>2. CASE Shared(from, to) = {}
    <2> DEFINE all == UNION {Via(from, s, to, after) : s \in Changes(from, to)}
    <2>1. hops = {h \in all : \A g \in all :
                    \/ h[2].arr < g[2].arr
                    \/ h[2].arr = g[2].arr /\ Rank(lists, h[1].to) <= Rank(lists, g[1].to)}
      BY <1>2 DEF TimedHops
    <2>2. rides = UNION {ArrivalsVia(from, s, to, after) : s \in Changes(from, to)}
      BY <1>2, RidesAre
    <2>3. \A s \in Changes(from, to) :
             PairsFirst(Via(from, s, to, after), ArrivalsVia(from, s, to, after))
      BY ViaIsFirst
    <2>4. ASSUME NEW h \in all
          PROVE  h[2].arr \in Nat /\ Rank(lists, h[1].to) \in Nat /\ Last(h) = h[2]
      <3>1. PICK s \in Changes(from, to) : h \in Via(from, s, to, after)
        OBVIOUS
      <3>2. PICK t \in FirstToArrive(from, s, after) :
                h \in {<<t, u>> : u \in FirstToArrive(s, to, t.arr + ChangeTime)}
        BY <3>1 DEF Via
      <3>3. PICK u \in FirstToArrive(s, to, t.arr + ChangeTime) : h = <<t, u>>
        BY <3>2
      <3>4. t.to = s /\ t.arr \in Nat
        BY FirstIsTrain DEF TrainOf
      <3>5. t.arr + ChangeTime \in Nat
        BY <3>4, ScheduleAssumption
      <3>6. u.arr \in Nat
        BY <3>5, FirstIsTrain DEF TrainOf
      <3>7. Rank(lists, s) \in Nat
        BY RankIsNat DEF Changes
      <3>8. h[1] = t /\ h[2] = u /\ Last(h) = u
        BY <3>3 DEF Last
      <3> QED
        BY <3>4, <3>6, <3>7, <3>8
    <2>5. \A h \in all : h[2].arr \in rides
      BY <2>2, <2>3 DEF PairsFirst
    <2>6. ASSUME NEW m \in rides PROVE \E g \in all : g[2].arr <= m
      <3>1. PICK s \in Changes(from, to) : m \in ArrivalsVia(from, s, to, after)
        BY <2>2
      <3>2. PICK g \in Via(from, s, to, after) : g[2].arr <= m
        BY <2>3, <3>1 DEF PairsFirst
      <3> QED
        BY <3>2
    <2> HIDE DEF all, hops, rides
    <2>7. ASSUME NEW h \in hops PROVE Last(h).arr \in rides /\ \A m \in rides : Last(h).arr <= m
      <3>1. h \in all /\ Last(h) = h[2] /\ h[2].arr \in rides
        BY <2>1, <2>4, <2>5
      <3>2. ASSUME NEW m \in rides PROVE h[2].arr <= m
        <4>1. PICK g \in all : g[2].arr <= m
          BY <2>6
        <4>2. h[2].arr < g[2].arr \/ h[2].arr = g[2].arr
          BY <2>1
        <4>3. m \in Nat
          <5>1. PICK s \in Changes(from, to) : m \in ArrivalsVia(from, s, to, after)
            BY <2>2
          <5> QED
            BY <5>1, ArrivalIsNat
        <4> QED
          BY <2>4, <3>1, <4>1, <4>2, <4>3
      <3> QED
        BY <3>1, <3>2
    <2>8. ASSUME rides # {} PROVE hops # {}
      <3>1. all # {}
        BY <2>6, <2>8
      <3>2. PICK f, g : f = [h \in all |-> h[2].arr] /\ g = [h \in all |-> Rank(lists, h[1].to)]
        OBVIOUS
      <3>3. f \in [all -> Nat] /\ g \in [all -> Nat]
        BY <2>4, <3>2
      <3>4. PICK a \in all : \A b \in all : f[a] < f[b] \/ (f[a] = f[b] /\ g[a] <= g[b])
        BY <3>1, <3>3, LeastPair
      <3>5. \A b \in all : \/ a[2].arr < b[2].arr
                           \/ a[2].arr = b[2].arr /\ Rank(lists, a[1].to) <= Rank(lists, b[1].to)
        BY <3>2, <3>4
      <3>6. a \in hops
        BY <2>1, <3>5
      <3> QED
        BY <3>6
    <2> QED
      BY <2>7, <2>8 DEF hops, rides
  <1> QED
    BY <1>1, <1>2

\* What is said of a step of the calculation.
StepIsFirst ==
    hop' = hop + 1 /\ NoneOvertaken =>
        LET all == Rides(From, To, earliest)
        IN  IF all = {} THEN ~timed'
            ELSE earliest' \in all /\ \A m \in all : earliest' <= m

\* Only the two kinds of hop claim anything of arrivals, and they fit.
LEMMA StepsAreFirst ==
  ASSUME ScheduleInv, Next
  PROVE  StepIsFirst
  <1> SUFFICES ASSUME hop' = hop + 1, NoneOvertaken PROVE StepIsFirst
    BY DEF StepIsFirst
  <1>0. hop \in Nat /\ hop # hop + 1
    BY PartsTyped
  <1>1. InputsTyped /\ earliest \in Nat
    BY DEF ScheduleInv
  <1>2. /\ \A h \in TimedHops(From, To, earliest) :
              /\ Last(h).arr \in Rides(From, To, earliest)
              /\ \A m \in Rides(From, To, earliest) : Last(h).arr <= m
        /\ Rides(From, To, earliest) # {} => TimedHops(From, To, earliest) # {}
    BY <1>1, HopsAreFirst
  <1>3. CASE Ride
    <2>1. PICK h \in TimedHops(From, To, earliest) : earliest' = Last(h).arr
      BY <1>3 DEF Ride
    <2> QED
      BY <1>2, <2>1 DEF StepIsFirst
  <1>4. CASE FollowMap
    <2>1. TimedHops(From, To, earliest) = {} /\ timed' = FALSE
      BY <1>4 DEF FollowMap
    <2> QED
      BY <1>2, <2>1 DEF StepIsFirst
  <1>5. CASE NoWay
    BY <1>0, <1>5 DEF NoWay, Give
  <1>6. CASE RequestFails
    BY <1>0, <1>6 DEF RequestFails, Give
  <1>7. CASE Finish
    BY <1>0, <1>7 DEF Finish
  <1> QED
    BY <1>3, <1>4, <1>5, <1>6, <1>7 DEF Next

\* Where no train overtakes another, the trains chosen for a hop are the first
\* to arrive of all that go there, directly or with a change, and a hop has no
\* times only if there are none (ArrivesFirst): resolveHop, which takes the
\* next train of each line and no pair that starts with a later one, loses
\* nothing by it.
THEOREM TrainsArriveFirst == Spec => ArrivesFirst
  <1>1. ASSUME ScheduleInv, [Next]_vars PROVE [StepIsFirst]_vars
    BY <1>1, StepsAreFirst
  <1>2. [][StepIsFirst]_vars => ArrivesFirst
    BY DEF StepIsFirst, ArrivesFirst
  <1> QED
    BY <1>1, <1>2, ScheduleInvariant, PTL DEF Spec

=============================================================================
