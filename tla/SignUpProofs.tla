----------------------------- MODULE SignUpProofs ----------------------------
(***************************************************************************)
(* A page that asks for a code has all that the steps before it ask for,   *)
(* and a code to wait for that the backend will compare: for any pages,    *)
(* addresses and numbers of codes, attempts, changes of mode and failures. *)
(***************************************************************************)
EXTENDS SignUp, FiniteSetTheorems, TLAPS

-----------------------------------------------------------------------------
(* The invariant. *)

Call == [page : Pages,
         op : {"login", "profile", "address", "confirm", "reset", "password"},
         at : {"sent", "free", "flushed", "mailed", "read", "verified",
               "registered", "done", "failed"},
         email : Emails \cup {NoEmail}, code : Nat, row : Nat, tries : Nat,
         heard : BOOLEAN, done : SUBSET Parts]
Code == [key : Emails \X Purposes, tries : 0..MaxAttempts,
         status : {"open", "pending", "used", "expired", "lost"}]

Unfinished(c) == c.at \in {"flushed", "mailed"}

\* Where each operation may stand.
StageFits(c) ==
    /\ c.at = "free" => c.op = "address"
    /\ Unfinished(c) => c.op \in {"address", "reset"}
    /\ c.at = "read" => c.op \in {"confirm", "password"}
    /\ c.at \in {"verified", "registered"} => c.op = "confirm"

CallsTyped == \A c \in calls : c \in Call /\ StageFits(c)

\* Every request that will create a code has room for it.
Asking == {c \in calls : c.op \in {"address", "reset"} /\ c.at \in {"sent", "free"}}
Room == IsFiniteSet(calls) /\ Len(codes) + Cardinality(Asking) <= MaxCodes

\* A page hears of one call at most, for which it is pending.
OneHeard ==
    /\ \A c \in calls : c.heard => pending[c.page]
    /\ \A c, d \in calls : c.heard /\ d.heard /\ c.page = d.page => c = d
    /\ \A c \in calls : ~c.heard => GoesOn(c)

\* What a step, or the answer that leads to one, has behind it.
StepBacked ==
    /\ switched \in [Pages -> BOOLEAN]
    /\ \A p \in Pages : ~switched[p] => PartsBefore[step[p]] \subseteq draft[p].done
    /\ \A c \in calls : c.op = "profile" =>
         /\ step[c.page] <= 1
         /\ ~switched[c.page] => "consent" \in draft[c.page].done
    /\ \A c \in calls : c.op = "address" /\ c.heard /\ ~switched[c.page] =>
         draft[c.page].done = Parts

CodeSent ==
    /\ \A p \in Pages : step[p] = 4 =>
         draft[p].email \in Emails /\ mail[<<draft[p].email, "SIGNUP">>] # 0
    /\ \A c \in calls : c.op = "address" /\ c.at \in {"mailed", "done"} => mail[Key(c)] # 0

\* A code not yet committed is its call's alone; one that is compared has been.
RowsHeld ==
    /\ \A c \in calls : Unfinished(c) =>
         /\ c.row \in DOMAIN codes
         /\ codes[c.row].status = "open" /\ codes[c.row].key = Key(c)
    /\ \A c, d \in calls : Unfinished(c) /\ Unfinished(d) /\ c.row = d.row => c = d
    /\ \A c \in calls : c.at = "read" =>
         c.row \in DOMAIN codes /\ codes[c.row].status \in {"pending", "expired", "used"}

\* A code that was not committed when a later one was asked for has crossed it.
OpenCrossed ==
    \A i, j \in DOMAIN codes :
        i < j /\ codes[i].key = codes[j].key /\ codes[i].status = "open" => i \in crossed

\* No code later than the last one mailed has been mailed, unless they crossed.
Mailed(j) == \/ codes[j].status \in {"pending", "expired", "used"}
             \/ \E c \in calls : c.at = "mailed" /\ c.row = j
LastMailed ==
    \A key \in Emails \X Purposes : mail[key] # 0 =>
        /\ mail[key] \in RowsOf(key)
        /\ \A j \in RowsOf(key) : j > mail[key] /\ Mailed(j) => mail[key] \in crossed

CodesInv == RowsHeld /\ OpenCrossed /\ LastMailed
PageInv == OneHeard /\ StepBacked /\ CodeSent
IInv == TypeOK /\ CallsTyped /\ Room /\ PageInv /\ CodesInv

-----------------------------------------------------------------------------
(* Numbers. *)

\* Of any numbers one is the least ...
LEMMA LeastOf ==
  ASSUME NEW N \in SUBSET Nat, N # {}
  PROVE  \E m \in N : \A n \in N : m <= n
  <1> DEFINE T == {0..n : n \in N}
  <1>1. T \subseteq FiniteSubsetsOf(Nat) /\ T # {}
    <2>1. \A n \in N : 0..n \subseteq Nat /\ IsFiniteSet(0..n)
      BY FS_Interval
    <2> QED
      BY <2>1 DEF FiniteSubsetsOf
  <1>2. \E x \in T : \A y \in T : <<y, x>> \notin StrictSubsetOrdering(Nat)
    <2> HIDE DEF T
    <2> QED
      BY <1>1, FS_StrictSubsetOrderingWellFounded, WFMin
  <1>3. PICK m \in N : \A n \in N : <<0..n, 0..m>> \notin StrictSubsetOrdering(Nat)
    BY <1>2
  <1>4. ASSUME NEW n \in N, n < m PROVE FALSE
    <2>1. 0..n \subseteq 0..m /\ 0..n \subseteq Nat /\ 0..m \subseteq Nat
      BY <1>4
    <2>2. m \in 0..m /\ m \notin 0..n
      BY <1>4
    <2> QED
      BY <2>1, <2>2, <1>3 DEF StrictSubsetOrdering
  <1> QED
    BY <1>3, <1>4

\* ... and of those up to some number one is the greatest.
LEMMA GreatestOf ==
  ASSUME NEW n \in Nat, NEW N \in SUBSET (0..n), N # {}
  PROVE  \E m \in N : \A i \in N : m >= i
  <1> DEFINE Below == {n - i : i \in N}
  <1>1. Below \in SUBSET Nat /\ Below # {}
    OBVIOUS
  <1>2. PICK k \in Below : \A b \in Below : k <= b
    <2> HIDE DEF Below
    <2> QED
      BY <1>1, LeastOf
  <1>3. PICK m \in N : k = n - m
    OBVIOUS
  <1>4. \A i \in N : n - m <= n - i
    BY <1>2, <1>3
  <1> QED
    BY <1>4

\* The code that is compared is the last of those that may be.
LEMMA LatestIs ==
  ASSUME codes \in Seq(Code), NEW key
  PROVE  LET S == {0} \cup {i \in RowsOf(key) : codes[i].status \in {"pending", "expired"}}
         IN  LatestPending(key) \in S /\ \A i \in S : i <= LatestPending(key)
  <1> DEFINE S == {0} \cup {i \in RowsOf(key) : codes[i].status \in {"pending", "expired"}}
  <1>1. Len(codes) \in Nat /\ DOMAIN codes = 1..Len(codes)
    OBVIOUS
  <1>2. S \in SUBSET (0..Len(codes)) /\ S # {}
    BY <1>1 DEF RowsOf
  <1>3. LatestPending(key) = CHOOSE x \in S : \A y \in S : x >= y
    BY DEF LatestPending, Max
  <1> HIDE DEF S
  <1>4. \E m \in S : \A i \in S : m >= i
    BY <1>1, <1>2, GreatestOf
  <1>5. LatestPending(key) \in S /\ \A y \in S : LatestPending(key) >= y
    BY <1>3, <1>4
  <1>6. LatestPending(key) \in S /\ \A i \in S : i <= LatestPending(key)
    BY <1>1, <1>2, <1>5
  <1> QED
    BY <1>6 DEF S

-----------------------------------------------------------------------------
(* Calls that move on. *)

PageTyped ==
    /\ mode \in [Pages -> {"login", "register", "reset", "gone"}]
    /\ step \in [Pages -> 0..4]
    /\ draft \in [Pages -> [done : SUBSET Parts, email : Emails \cup {NoEmail}]]
    /\ resetEmail \in [Pages -> Emails \cup {NoEmail}]
    /\ pending \in [Pages -> BOOLEAN]

BackendTyped ==
    /\ codes \in Seq(Code) /\ Len(codes) <= MaxCodes
    /\ users \subseteq Emails
    /\ mail \in [Emails \X Purposes -> 0..Len(codes)]

LEMMA TypesSplit ==
  /\ TypeOK <=> PageTyped /\ BackendTyped /\ \A c \in calls : IsCall(c)
  /\ TypeOK' <=> PageTyped' /\ BackendTyped' /\ (\A c \in calls : IsCall(c))'
  BY DEF TypeOK, PageTyped, BackendTyped, Code

\* The call c goes on as the one call of D, or is over.
Follows(c, D) ==
    /\ D \subseteq Call /\ \A d, e \in D : d = e
    /\ \A d \in D : /\ d.page = c.page /\ d.op = c.op /\ d.email = c.email
                    /\ d.done = c.done /\ (d.heard => c.heard)
                    /\ StageFits(d)
Bounded(d) == /\ d.code \in 0..Len(codes) /\ d.row \in 0..Len(codes)
              /\ d.tries \in 0..(MaxAttempts - 1)
Moves(c, D) == calls' = (calls \ {c}) \cup D /\ Follows(c, D)

Stage == {"sent", "free", "flushed", "mailed", "read", "verified",
          "registered", "done", "failed"}

\* A call that is replaced, but for the page, the operation and the address.
LEMMA ReplacedMoves ==
  ASSUME NEW c \in Call, NEW d \in Call, Replace(c, d), StageFits(d),
         d.page = c.page, d.op = c.op, d.email = c.email, d.done = c.done,
         d.heard = c.heard
  PROVE  Moves(c, {d}) /\ Key(d) = Key(c)
  <1>1. Follows(c, {d})
    BY DEF Follows
  <1> QED
    BY <1>1 DEF Moves, Replace, Key

\* The end of a request.
LEMMA EndsMoves ==
  ASSUME NEW c \in Call, NEW at \in Stage, Ends(c, at),
         at = "free" => c.op = "address", ~(at \in {"flushed", "mailed", "read"}),
         at \in {"verified", "registered"} => c.op = "confirm"
  PROVE  \E D : /\ Moves(c, D)
               /\ \A d \in D : d.at = at /\ d.row = 0 /\ d.code = 0 /\ d.tries = 0 /\ d.heard
  <1>1. CASE c.heard
    <2>1. PICK d : d = [c EXCEPT !.at = at, !.code = 0, !.row = 0, !.tries = 0]
      OBVIOUS
    <2>2. Replace(c, d)
      BY <1>1, <2>1 DEF Ends
    <2>3. StageFits(d)
      BY <2>1 DEF StageFits, Unfinished, Call
    <2>4. /\ d \in Call /\ d.at = at /\ d.row = 0 /\ d.code = 0 /\ d.tries = 0
          /\ d.page = c.page /\ d.op = c.op /\ d.email = c.email /\ d.done = c.done
          /\ d.heard = c.heard
      BY <2>1 DEF Call, Stage
    <2>6. Moves(c, {d})
      BY <2>2, <2>3, <2>4, ReplacedMoves
    <2>5. \A e \in {d} : e.at = at /\ e.row = 0 /\ e.code = 0 /\ e.tries = 0 /\ e.heard
      BY <1>1, <2>4
    <2> QED
      BY <2>5, <2>6
  <1>2. CASE ~c.heard
    <2>1. Moves(c, {})
      BY <1>2 DEF Ends, Moves, Follows
    <2> QED
      BY <2>1
  <1> QED
    BY <1>1, <1>2

\* Calls stay in their types as codes are added.
LEMMA MovesTyped ==
  ASSUME IInv, NEW c \in calls, NEW D, Moves(c, D), \A d \in D : Bounded(d)',
         Len(codes) <= Len(codes'), PageTyped', BackendTyped'
  PROVE  TypeOK' /\ CallsTyped'
  <1>1. \A d \in calls' : d \in Call /\ StageFits(d)
    BY DEF IInv, CallsTyped, Moves, Follows
  <1>2. IsCall(c) /\ Len(codes) \in Nat /\ Len(codes') \in Nat
    BY DEF IInv, TypeOK, BackendTyped
  <1>3. ASSUME NEW d \in calls \ {c} PROVE IsCall(d)'
    <2>1. IsCall(d)
      BY DEF IInv, TypeOK
    <2> QED
      BY <1>2, <2>1 DEF IsCall
  <1>4. ASSUME NEW d \in D PROVE IsCall(d)'
    <2>1. d \in Call /\ d.page = c.page /\ d.op = c.op /\ d.email = c.email
      BY DEF Moves, Follows
    <2> QED
      BY <1>2, <2>1 DEF IsCall, Bounded, Call
  <1>5. (\A d \in calls : IsCall(d))'
    BY <1>3, <1>4 DEF Moves
  <1> QED
    BY <1>1, <1>5, TypesSplit DEF CallsTyped

\* A call that goes on for a code needs no more room.
LEMMA MovesRoom ==
  ASSUME IInv, NEW c \in calls, NEW D, Moves(c, D), Len(codes') = Len(codes),
         \A d \in D : d.at \in {"sent", "free"} => c.at \in {"sent", "free"}
  PROVE  Room'
  <1>1. PICK d : D \subseteq {d}
    BY DEF Moves, Follows
  <1>2. IsFiniteSet(calls')
    <2>1. IsFiniteSet((calls \ {c}) \cup {d})
      BY FS_RemoveElement, FS_AddElement DEF IInv, Room
    <2>2. calls' \in SUBSET ((calls \ {c}) \cup {d})
      BY <1>1 DEF Moves
    <2> QED
      BY <2>1, <2>2, FS_Subset
  <1>3. IsFiniteSet(Asking) /\ IsFiniteSet(Asking')
    <2>1. Asking \in SUBSET calls /\ Asking' \in SUBSET calls'
      BY DEF Asking
    <2> QED
      BY <1>2, <2>1, FS_Subset DEF IInv, Room
  <1>4. Cardinality(Asking') <= Cardinality(Asking)
    <2>1. CASE c \in Asking
      <3>1. Asking' \in SUBSET ((Asking \ {c}) \cup {d})
        BY <1>1 DEF Asking, Moves
      <3>2. /\ IsFiniteSet(Asking \ {c})
            /\ Cardinality(Asking \ {c}) = Cardinality(Asking) - 1
        BY <1>3, <2>1, FS_RemoveElement
      <3>3. /\ IsFiniteSet((Asking \ {c}) \cup {d})
            /\ Cardinality((Asking \ {c}) \cup {d}) <= Cardinality(Asking)
        <4>1. Cardinality(Asking \ {c}) \in Nat /\ Cardinality(Asking) \in Nat
          BY <1>3, <3>2, FS_CardinalityType
        <4> DEFINE Rest == Asking \ {c}
        <4>2. IsFiniteSet(Rest) /\ Cardinality(Rest) = Cardinality(Asking) - 1
          BY <3>2
        <4> HIDE DEF Rest
        <4>3. IsFiniteSet(Rest \cup {d}) /\ Cardinality(Rest \cup {d}) <= Cardinality(Asking)
          <5>1. IsFiniteSet(Rest \cup {d})
            BY <4>2, FS_AddElement
          <5>2. Cardinality(Rest \cup {d}) = IF d \in Rest THEN Cardinality(Rest)
                                             ELSE Cardinality(Rest) + 1
            BY <4>2, FS_AddElement
          <5> QED
            BY <4>1, <4>2, <5>1, <5>2
        <4> QED
          BY <4>3 DEF Rest
      <3> QED
        BY <1>3, <3>1, <3>3, FS_Subset, FS_CardinalityType
    <2>2. CASE c \notin Asking
      <3>1. Asking' \in SUBSET Asking
        BY <2>2 DEF Asking, Moves, Follows
      <3> QED
        BY <1>3, <3>1, FS_Subset
    <2> QED
      BY <2>1, <2>2
  <1>5. Cardinality(Asking) \in Nat /\ Cardinality(Asking') \in Nat /\ Len(codes) \in Nat
    BY <1>3, FS_CardinalityType DEF IInv, TypeOK
  <1> QED
    BY <1>2, <1>4, <1>5, SignUpAssumption DEF IInv, Room

\* While a call goes on the page stays as it is.
LEMMA MovesPage ==
  ASSUME IInv, NEW c \in calls, NEW D, Moves(c, D),
         UNCHANGED <<form, pending, switched>>,
         \A key \in Emails \X Purposes : mail[key] # 0 => mail'[key] # 0,
         \A d \in D : ~d.heard => GoesOn(d),
         \A d \in D : d.op = "address" /\ d.at \in {"mailed", "done"} => mail'[Key(d)] # 0
  PROVE  PageInv'
  <1>1. OneHeard'
    BY DEF IInv, PageInv, OneHeard, Moves, Follows
  <1>2. StepBacked'
    BY DEF IInv, PageInv, StepBacked, Moves, Follows, form
  <1>3. CodeSent'
    <2>1. \A p \in Pages : step[p] = 4 => <<draft[p].email, "SIGNUP">> \in Emails \X Purposes
      BY DEF IInv, PageInv, CodeSent, Purposes
    <2>2. \A d \in calls : d.op = "address" => Key(d) \in Emails \X Purposes
      BY DEF IInv, TypeOK, IsCall, Key, Purposes
    <2> QED
      BY <2>1, <2>2 DEF IInv, PageInv, CodeSent, Moves, form, Key
  <1> QED
    BY <1>1, <1>2, <1>3 DEF PageInv

-----------------------------------------------------------------------------
(* The codes. *)

\* Calls that go on where they are, and others that have to do with no code
\* or compare one that may be.
LEMMA CodesStay ==
  ASSUME CodesInv, NEW Old \in SUBSET calls, NEW D, calls' \subseteq Old \cup D,
         UNCHANGED <<codes, mail, crossed>>, \A d, e \in D : d = e,
         \A d \in D : Unfinished(d) =>
            \E c \in calls \ Old : c.at = d.at /\ c.row = d.row /\ Key(c) = Key(d),
         \A d \in D : d.at = "read" =>
            d.row \in DOMAIN codes /\ codes[d.row].status \in {"pending", "expired", "used"}
  PROVE  CodesInv'
  <1>1. \A d \in calls' : Unfinished(d) =>
           \E c \in calls : /\ c.at = d.at /\ c.row = d.row /\ Key(c) = Key(d)
                            /\ (d \in Old => c = d)
                            /\ (d \notin Old => c \notin Old)
    OBVIOUS
  <1>2. RowsHeld'
    <2>1. (\A c \in calls : Unfinished(c) =>
             /\ c.row \in DOMAIN codes
             /\ codes[c.row].status = "open" /\ codes[c.row].key = Key(c))'
      BY <1>1 DEF CodesInv, RowsHeld, Unfinished, Key
    <2>2. (\A c \in calls : c.at = "read" =>
             c.row \in DOMAIN codes /\ codes[c.row].status \in {"pending", "expired", "used"})'
      BY DEF CodesInv, RowsHeld
    <2>3. ASSUME NEW d \in calls', NEW e \in calls', Unfinished(d), Unfinished(e), d.row = e.row
          PROVE  d = e
      <3>1. PICK c \in calls : /\ c.at = d.at /\ c.row = d.row
                               /\ (d \in Old => c = d)
                               /\ (d \notin Old => c \notin Old)
        BY <1>1, <2>3
      <3>2. PICK b \in calls : /\ b.at = e.at /\ b.row = e.row
                               /\ (e \in Old => b = e)
                               /\ (e \notin Old => b \notin Old)
        BY <1>1, <2>3
      <3>3. c = b
        BY <2>3, <3>1, <3>2 DEF CodesInv, RowsHeld, Unfinished
      <3> QED
        BY <3>1, <3>2, <3>3
    <2> QED
      BY <2>1, <2>2, <2>3 DEF RowsHeld, Unfinished
  <1>3. OpenCrossed'
    BY DEF CodesInv, OpenCrossed
  <1>4. LastMailed'
    <2>1. \A j : Mailed(j)' => Mailed(j)
      BY <1>1 DEF Mailed, Unfinished
    <2> QED
      BY <2>1 DEF CodesInv, LastMailed, RowsOf
  <1> QED
    BY <1>2, <1>3, <1>4 DEF CodesInv

\* A code that is committed, compared, expired or lost.
LEMMA CodeSettles ==
  ASSUME CodesInv, NEW i \in DOMAIN codes, DOMAIN codes' = DOMAIN codes,
         \A j \in DOMAIN codes : codes'[j].key = codes[j].key,
         \A j \in DOMAIN codes : j # i => codes'[j].status = codes[j].status,
         codes'[i].status # "open",
         Mailed(i) \/ codes'[i].status = "lost",
         UNCHANGED <<mail, crossed>>,
         \A c \in calls' : Unfinished(c) => c \in calls /\ c.row # i,
         \A c \in calls' : c.at = "read" => c \in calls,
         \A c \in calls' : c.at = "read" /\ c.row = i => codes'[i].status # "lost",
         codes'[i].status \in {"pending", "used", "expired", "lost"}
  PROVE  CodesInv'
  <1>1. RowsHeld'
    BY DEF CodesInv, RowsHeld, Unfinished, Key
  <1>2. OpenCrossed'
    BY DEF CodesInv, OpenCrossed
  <1>3. LastMailed'
    <2>1. \A key : RowsOf(key)' = RowsOf(key)
      BY DEF RowsOf
    <2>2. \A j \in DOMAIN codes : Mailed(j)' => Mailed(j)
      <3>1. ASSUME NEW j \in DOMAIN codes, Mailed(j)', j # i PROVE Mailed(j)
        BY <3>1 DEF Mailed, Unfinished
      <3>2. ASSUME Mailed(i)' PROVE Mailed(i)
        BY <3>2 DEF Mailed, Unfinished
      <3> QED
        BY <3>1, <3>2
    <2>3. \A key : \A j \in RowsOf(key) : j \in DOMAIN codes
      BY DEF RowsOf
    <2> QED
      BY <2>1, <2>2, <2>3 DEF CodesInv, LastMailed
  <1> QED
    BY <1>1, <1>2, <1>3 DEF CodesInv

\* A code that is asked for has crossed those that are not committed.
LEMMA CodeCreated ==
  ASSUME CodesInv, NEW c \in calls, NEW d, d.at = "flushed", d.row = Len(codes) + 1,
         Key(d) = Key(c), calls' = (calls \ {c}) \cup {d}, codes \in Seq(Code),
         codes' = Append(codes, [key |-> Key(c), status |-> "open", tries |-> 0]),
         crossed' = crossed \cup (IF Open(Key(c)) = {} THEN {}
                                 ELSE Open(Key(c)) \cup {Len(codes) + 1}),
         UNCHANGED mail, mail \in [Emails \X Purposes -> 0..Len(codes)]
  PROVE  CodesInv'
  <1> PICK n \in Nat : n = Len(codes) + 1
    OBVIOUS
  <1> PICK new : new = [key |-> Key(c), status |-> "open", tries |-> 0]
    OBVIOUS
  <1>1. /\ DOMAIN codes' = (DOMAIN codes) \cup {n} /\ n \notin DOMAIN codes
        /\ codes'[n] = new /\ \A i \in DOMAIN codes : codes'[i] = codes[i] /\ i < n
    OBVIOUS
  <1>2. new.key = Key(c) /\ new.status = "open" /\ d.row = n
    OBVIOUS
  <1>4. RowsHeld'
    BY <1>1, <1>2 DEF CodesInv, RowsHeld, Unfinished, Key
  <1>5. OpenCrossed'
    <2>1. \A i \in DOMAIN codes : codes[i].key = Key(c) /\ codes[i].status = "open" => i \in crossed'
      BY DEF Open, RowsOf
    <2>2. crossed \subseteq crossed'
      OBVIOUS
    <2>3. \A i, j \in DOMAIN codes' : i < j => i \in DOMAIN codes
      <3>1. \A i \in DOMAIN codes : i \in Nat
        OBVIOUS
      <3> QED
        BY <1>1, <3>1
    <2> QED
      BY <1>1, <1>2, <2>1, <2>2, <2>3 DEF CodesInv, OpenCrossed
  <1>6. LastMailed'
    <2>1. \A key : RowsOf(key) \subseteq RowsOf(key)'
      BY <1>1 DEF RowsOf
    <2>2. \A key : \A j \in RowsOf(key)' : j = n \/ j \in RowsOf(key)
      BY <1>1 DEF RowsOf
    <2>3. \A j \in DOMAIN codes : Mailed(j)' => Mailed(j)
      BY <1>1 DEF Mailed
    <2>4. ~Mailed(n)'
      <3>1. \A e \in calls : e.at = "mailed" => e.row # n
        BY <1>1 DEF CodesInv, RowsHeld, Unfinished
      <3> QED
        BY <1>1, <1>2, <3>1 DEF Mailed
    <2>5. \A key : \A j \in RowsOf(key) : j \in DOMAIN codes
      BY DEF RowsOf
    <2> QED
      BY <2>1, <2>2, <2>3, <2>4, <2>5 DEF CodesInv, LastMailed
  <1> QED
    BY <1>4, <1>5, <1>6 DEF CodesInv

\* The code that is mailed is the last one, but for those it has crossed.
LEMMA CodeMailed ==
  ASSUME CodesInv, NEW c \in calls, NEW d, c.at = "flushed", d.at = "mailed",
         d.row = c.row, Key(d) = Key(c), calls' = (calls \ {c}) \cup {d},
         UNCHANGED <<codes, crossed>>, codes \in Seq(Code),
         mail \in [Emails \X Purposes -> 0..Len(codes)], Key(c) \in Emails \X Purposes,
         mail' = [mail EXCEPT ![Key(c)] = c.row]
  PROVE  CodesInv'
  <1>1. /\ c.row \in DOMAIN codes /\ codes[c.row].status = "open"
        /\ codes[c.row].key = Key(c)
    BY DEF CodesInv, RowsHeld, Unfinished
  <1>2. RowsHeld'
    BY DEF CodesInv, RowsHeld, Unfinished, Key
  <1>3. OpenCrossed'
    BY DEF CodesInv, OpenCrossed
  <1>4. LastMailed'
    <2>1. \A key : RowsOf(key)' = RowsOf(key) /\ RowsOf(key) \subseteq DOMAIN codes
      BY DEF RowsOf
    <2>2. \A j : Mailed(j)' => Mailed(j) \/ j = c.row
      BY DEF Mailed
    <2>3. ASSUME NEW key \in Emails \X Purposes, mail'[key] # 0
          PROVE  /\ mail'[key] \in RowsOf(key)
                 /\ \A j \in RowsOf(key) : j > mail'[key] /\ Mailed(j)' => mail'[key] \in crossed
      <3>1. CASE key = Key(c)
        <4>1. mail'[key] = c.row
          BY <3>1
        <4>2. \A j \in RowsOf(key) : j > c.row => c.row \in crossed
          BY <1>1, <3>1 DEF CodesInv, OpenCrossed, RowsOf
        <4> QED
          BY <1>1, <3>1, <4>1, <4>2 DEF RowsOf
      <3>2. CASE key # Key(c)
        <4>1. mail'[key] = mail[key]
          BY <3>2
        <4>2. \A j \in RowsOf(key) : j # c.row
          BY <1>1, <3>2 DEF RowsOf
        <4> QED
          BY <2>2, <2>3, <4>1, <4>2 DEF CodesInv, LastMailed
      <3> QED
        BY <3>1, <3>2
    <2> QED
      BY <2>1, <2>3 DEF LastMailed
  <1> QED
    BY <1>2, <1>3, <1>4 DEF CodesInv

-----------------------------------------------------------------------------
(* The backend's steps. *)

\* What a call and the backend hold.
LEMMA CallFacts ==
  ASSUME IInv, NEW c \in calls
  PROVE  /\ c \in Call /\ StageFits(c) /\ Bounded(c) /\ c.page \in Pages
         /\ c.op \notin {"login", "profile"} => Key(c) \in Emails \X Purposes
         /\ PageTyped /\ BackendTyped /\ CodesInv /\ Len(codes) \in Nat
         /\ MaxAttempts \in Nat \ {0}
  <1>1. c \in Call /\ StageFits(c) /\ IsCall(c) /\ BackendTyped /\ PageTyped /\ CodesInv
    BY TypesSplit DEF IInv, CallsTyped
  <1>2. c.op \notin {"login", "profile"} => Key(c) \in Emails \X Purposes
    BY <1>1 DEF IsCall, Key, Purposes
  <1> QED
    BY <1>1, <1>2, SignUpAssumption DEF IsCall, Bounded, BackendTyped

\* Steps that leave the codes as they are.
LEMMA QuietStep ==
  ASSUME IInv, NEW c \in calls, NEW D, Moves(c, D),
         UNCHANGED <<form, pending, switched, codes, mail, crossed>>, users' \subseteq Emails,
         \A d \in D : /\ Bounded(d) /\ ~Unfinished(d)
                      /\ (d.at \in {"sent", "free"} => c.at \in {"sent", "free"})
                      /\ (d.at = "read" =>
                            /\ d.row \in DOMAIN codes
                            /\ codes[d.row].status \in {"pending", "expired", "used"})
                      /\ (~d.heard => d.at = "read")
                      /\ (d.at = "done" => d.op # "address")
  PROVE  IInv'
  <1>1. CodesInv /\ PageTyped /\ BackendTyped /\ Len(codes) \in Nat
    BY CallFacts
  <1>2. \A d, e \in D : d = e
    BY DEF Moves, Follows
  <1>3. calls' \subseteq (calls \ {c}) \cup D
    BY DEF Moves
  <1>4. CodesInv'
    BY <1>1, <1>2, <1>3, CodesStay
  <1>5. PageInv'
    BY MovesPage DEF Unfinished, GoesOn, Begun
  <1>6. Room'
    BY MovesRoom
  <1>7. PageTyped' /\ BackendTyped'
    BY <1>1 DEF PageTyped, BackendTyped, form
  <1>8. \A d \in D : Bounded(d)'
    BY DEF Bounded
  <1>9. TypeOK' /\ CallsTyped'
    BY <1>1, <1>7, <1>8, MovesTyped
  <1> QED
    BY <1>4, <1>5, <1>6, <1>9 DEF IInv

LEMMA CheckFreeKeeps == ASSUME IInv, NEW c \in calls, CheckFree(c) PROVE IInv'
  <1>1. PICK at \in {"done", "failed", "free"} :
           /\ Ends(c, at) /\ (at = "free" => c.op = "address")
           /\ (c.op = "address" => at # "done")
    BY DEF CheckFree
  <1>2. c.at = "sent" /\ UNCHANGED <<form, pending, switched, codes, users, mail, crossed>>
    BY DEF CheckFree, Served
  <1>3. c \in Call /\ users \subseteq Emails /\ Len(codes) \in Nat /\ MaxAttempts \in Nat \ {0}
    BY CallFacts DEF BackendTyped
  <1>4. PICK D : /\ Moves(c, D)
                 /\ \A d \in D : d.at = at /\ d.row = 0 /\ d.code = 0 /\ d.tries = 0 /\ d.heard
    BY <1>1, <1>3, EndsMoves DEF Stage
  <1>5. \A d \in D : d.op = c.op
    BY <1>4 DEF Moves, Follows
  <1> QED
    BY <1>1, <1>2, <1>3, <1>4, <1>5, QuietStep DEF Bounded, Unfinished

LEMMA LogInKeeps == ASSUME IInv, NEW c \in calls, LogIn(c) PROVE IInv'
  <1>2. /\ c.at = "registered" /\ Ends(c, "done")
        /\ UNCHANGED <<form, pending, switched, codes, users, mail, crossed>>
    BY DEF LogIn, Served
  <1>3. /\ c \in Call /\ users \subseteq Emails /\ Len(codes) \in Nat
        /\ MaxAttempts \in Nat \ {0} /\ c.op = "confirm"
    BY <1>2, CallFacts DEF BackendTyped, StageFits
  <1>4. PICK D : /\ Moves(c, D)
                 /\ \A d \in D : d.at = "done" /\ d.row = 0 /\ d.code = 0 /\ d.tries = 0 /\ d.heard
    BY <1>2, <1>3, EndsMoves DEF Stage
  <1>5. \A d \in D : d.op = c.op
    BY <1>4 DEF Moves, Follows
  <1> QED
    BY <1>2, <1>3, <1>4, <1>5, QuietStep DEF Bounded, Unfinished

LEMMA RegisterKeeps == ASSUME IInv, NEW c \in calls, Register(c) PROVE IInv'
  <1>1. PICK at \in {"registered", "failed"} : Ends(c, at)
    BY DEF Register
  <1>2. /\ c.at = "verified" /\ users' \subseteq users \cup {c.email}
        /\ UNCHANGED <<form, pending, switched, codes, mail, crossed>>
    BY DEF Register, Served
  <1>3. /\ c \in Call /\ users' \subseteq Emails /\ Len(codes) \in Nat
        /\ MaxAttempts \in Nat \ {0} /\ c.op = "confirm"
    <2>1. c.op = "confirm"
      BY <1>2, CallFacts DEF StageFits
    <2>2. c.email \in Emails
      BY <2>1 DEF IInv, TypeOK, IsCall
    <2> QED
      BY <1>2, <2>1, <2>2, CallFacts DEF BackendTyped
  <1>4. PICK D : /\ Moves(c, D)
                 /\ \A d \in D : d.at = at /\ d.row = 0 /\ d.code = 0 /\ d.tries = 0 /\ d.heard
    BY <1>1, <1>3, EndsMoves DEF Stage
  <1>5. \A d \in D : d.op = c.op
    BY <1>4 DEF Moves, Follows
  <1> QED
    BY <1>1, <1>2, <1>3, <1>4, <1>5, QuietStep DEF Bounded, Unfinished

LEMMA ReadCodeKeeps == ASSUME IInv, NEW c \in calls, ReadCode(c) PROVE IInv'
  <1>1. /\ c.at = "sent" /\ c.op \in {"confirm", "password"}
        /\ UNCHANGED <<form, pending, switched, codes, users, mail, crossed>>
    BY DEF ReadCode, Served
  <1>2. /\ c \in Call /\ users \subseteq Emails /\ Len(codes) \in Nat /\ Bounded(c)
        /\ MaxAttempts \in Nat \ {0} /\ codes \in Seq(Code)
    BY CallFacts DEF BackendTyped
  <1>3. CASE Ends(c, "failed")
    <2>1. PICK D : /\ Moves(c, D)
                   /\ \A d \in D : /\ d.at = "failed" /\ d.row = 0 /\ d.code = 0
                                   /\ d.tries = 0 /\ d.heard
      BY <1>2, <1>3, EndsMoves DEF Stage
    <2> QED
      BY <1>1, <1>2, <2>1, QuietStep DEF Bounded, Unfinished
  <1>4. CASE ~Ends(c, "failed")
    <2>1. PICK row : row = LatestPending(Key(c))
      OBVIOUS
    <2>2. /\ row # 0 /\ ~(codes[row].tries >= MaxAttempts)
          /\ Replace(c, [c EXCEPT !.at = "read", !.row = row, !.tries = codes[row].tries])
      BY <1>4, <2>1 DEF ReadCode
    <2>3. row \in DOMAIN codes /\ codes[row].status \in {"pending", "expired"}
      BY <1>2, <2>1, <2>2, LatestIs DEF RowsOf
    <2>4. row \in 1..Len(codes) /\ codes[row].tries \in 0..(MaxAttempts - 1)
      <3>1. row \in 1..Len(codes) /\ codes[row] \in Code
        BY <1>2, <2>3
      <3>2. codes[row].tries \in 0..MaxAttempts
        BY <3>1 DEF Code
      <3> QED
        BY <1>2, <2>2, <3>1, <3>2
    <2>5. PICK tries \in 0..(MaxAttempts - 1) : tries = codes[row].tries
      BY <2>4
    <2>6. PICK d : d = [c EXCEPT !.at = "read", !.row = row, !.tries = tries]
      OBVIOUS
    <2>7. /\ d \in Call /\ d.at = "read" /\ d.row = row /\ d.code = c.code /\ d.tries = tries
          /\ d.page = c.page /\ d.op = c.op /\ d.email = c.email /\ d.done = c.done
          /\ d.heard = c.heard
      <3>1. row \in Nat /\ tries \in Nat
        BY <1>2, <2>4
      <3> QED
        BY <1>2, <2>6, <3>1 DEF Call
    <2>8. Moves(c, {d})
      <3>1. StageFits(d)
        BY <1>1, <2>7 DEF StageFits, Unfinished
      <3> QED
        BY <1>2, <2>2, <2>5, <2>6, <2>7, <3>1, ReplacedMoves
    <2>9. Bounded(d)
      BY <1>2, <2>4, <2>7 DEF Bounded
    <2> QED
      BY <1>1, <1>2, <2>3, <2>7, <2>8, <2>9, QuietStep DEF Unfinished
  <1> QED
    BY <1>3, <1>4

\* The row of a code that is asked for takes the room its request had.
LEMMA CreateCodeKeeps == ASSUME IInv, NEW c \in calls, CreateCode(c) PROVE IInv'
  <1>1. /\ c.op \in {"address", "reset"} /\ c.at \in {"sent", "free"}
        /\ UNCHANGED <<form, pending, switched, users, mail>>
    BY DEF CreateCode, Served
  <1>2. /\ c \in Call /\ users \subseteq Emails /\ Len(codes) \in Nat /\ Bounded(c)
        /\ MaxAttempts \in Nat \ {0} /\ codes \in Seq(Code) /\ PageTyped /\ BackendTyped
        /\ mail \in [Emails \X Purposes -> 0..Len(codes)] /\ CodesInv
        /\ Key(c) \in Emails \X Purposes
    BY <1>1, CallFacts DEF BackendTyped
  <1>3. CASE c.op = "reset" /\ c.email \notin users
    <2>1. Ends(c, "done") /\ UNCHANGED <<codes, crossed>>
      BY <1>3 DEF CreateCode
    <2>2. PICK D : /\ Moves(c, D)
                   /\ \A d \in D : /\ d.at = "done" /\ d.row = 0 /\ d.code = 0
                                   /\ d.tries = 0 /\ d.heard
      BY <1>2, <2>1, EndsMoves DEF Stage
    <2>3. \A d \in D : d.op = "reset"
      BY <1>3, <2>2 DEF Moves, Follows
    <2> QED
      BY <1>1, <1>2, <2>1, <2>2, <2>3, QuietStep DEF Bounded, Unfinished
  <1>4. CASE ~(c.op = "reset" /\ c.email \notin users)
    <2>1. PICK n \in Nat : n = Len(codes) + 1
      BY <1>2
    <2>2. PICK d : d = [c EXCEPT !.at = "flushed", !.row = n]
      OBVIOUS
    <2>3. /\ codes' = Append(codes, [key |-> Key(c), status |-> "open", tries |-> 0])
          /\ Replace(c, d)
          /\ crossed' = crossed \cup (IF Open(Key(c)) = {} THEN {}
                                      ELSE Open(Key(c)) \cup {Len(codes) + 1})
      BY <1>4, <2>1, <2>2 DEF CreateCode
    <2>4. /\ d \in Call /\ d.at = "flushed" /\ d.row = n /\ d.code = c.code /\ d.tries = c.tries
          /\ d.page = c.page /\ d.op = c.op /\ d.email = c.email /\ d.done = c.done
          /\ d.heard = c.heard
      BY <1>2, <2>2 DEF Call
    <2>5. Moves(c, {d}) /\ Key(d) = Key(c)
      <3>1. StageFits(d)
        BY <1>1, <2>4 DEF StageFits, Unfinished
      <3> QED
        BY <1>2, <2>3, <2>4, <3>1, ReplacedMoves
    <2>6. CodesInv'
      BY <1>1, <1>2, <2>1, <2>3, <2>4, <2>5, CodeCreated DEF Replace
    <2>7. PageInv'
      BY <1>1, <2>4, <2>5, MovesPage DEF Unfinished, GoesOn, Begun
    <2>8. Len(codes') = Len(codes) + 1 /\ codes' \in Seq(Code)
      <3>1. [key |-> Key(c), status |-> "open", tries |-> 0] \in Code
        BY <1>2 DEF Code
      <3> QED
        BY <1>2, <2>3, <3>1
    <2>9. Room' /\ Len(codes') <= MaxCodes
      <3>1. IsFiniteSet(calls') /\ IsFiniteSet(Asking)
        <4>1. IsFiniteSet(calls) /\ Asking \in SUBSET calls
          BY DEF IInv, Room, Asking
        <4>2. IsFiniteSet(calls \ {c})
          BY <4>1, FS_RemoveElement
        <4> QED
          BY <2>3, <4>1, <4>2, FS_AddElement, FS_Subset DEF Replace
      <3>2. c \in Asking /\ Asking' = Asking \ {c}
        BY <1>1, <2>3, <2>4 DEF Asking, Replace
      <3>3. /\ Cardinality(Asking') = Cardinality(Asking) - 1
            /\ Cardinality(Asking) \in Nat /\ Cardinality(Asking') \in Nat
        BY <3>1, <3>2, FS_RemoveElement, FS_CardinalityType
      <3> QED
        BY <1>2, <2>8, <3>1, <3>3, SignUpAssumption DEF IInv, Room
    <2>10. PageTyped' /\ BackendTyped'
      BY <1>1, <1>2, <2>8, <2>9 DEF PageTyped, BackendTyped, form
    <2>11. Bounded(d)'
      BY <1>2, <2>1, <2>4, <2>8 DEF Bounded
    <2>12. TypeOK' /\ CallsTyped'
      BY <1>2, <2>5, <2>8, <2>10, <2>11, MovesTyped
    <2> QED
      BY <2>6, <2>7, <2>9, <2>12 DEF IInv
  <1> QED
    BY <1>3, <1>4

LEMMA SendMailKeeps == ASSUME IInv, NEW c \in calls, SendMail(c) PROVE IInv'
  <1>1. /\ c.at = "flushed" /\ mail' = [mail EXCEPT ![Key(c)] = c.row]
        /\ UNCHANGED <<form, pending, switched, codes, users, crossed>>
    BY DEF SendMail, Served
  <1>2. /\ c \in Call /\ Len(codes) \in Nat /\ Bounded(c) /\ codes \in Seq(Code)
        /\ PageTyped /\ BackendTyped /\ mail \in [Emails \X Purposes -> 0..Len(codes)]
        /\ CodesInv /\ c.op \in {"address", "reset"} /\ Key(c) \in Emails \X Purposes
    BY <1>1, CallFacts DEF BackendTyped, StageFits, Unfinished
  <1>3. c.row \in 1..Len(codes)
    BY <1>1, <1>2 DEF CodesInv, RowsHeld, Unfinished
  <1>4. PICK d : d = [c EXCEPT !.at = "mailed"]
    OBVIOUS
  <1>5. /\ d \in Call /\ d.at = "mailed" /\ d.row = c.row /\ d.code = c.code
        /\ d.tries = c.tries
        /\ d.page = c.page /\ d.op = c.op /\ d.email = c.email /\ d.done = c.done
        /\ d.heard = c.heard
    BY <1>2, <1>4 DEF Call
  <1>6. Replace(c, d)
    BY <1>4 DEF SendMail, Goes
  <1>7. Moves(c, {d}) /\ Key(d) = Key(c)
    <2>1. StageFits(d)
      BY <1>2, <1>5 DEF StageFits, Unfinished
    <2> QED
      BY <1>2, <1>5, <1>6, <2>1, ReplacedMoves
  <1>8. CodesInv'
    BY <1>1, <1>2, <1>5, <1>6, <1>7, CodeMailed DEF Replace
  <1>9. PageInv'
    <2>1. mail'[Key(c)] # 0 /\ \A key \in Emails \X Purposes : mail[key] # 0 => mail'[key] # 0
      BY <1>1, <1>2, <1>3
    <2> QED
      BY <1>1, <1>5, <1>7, <2>1, MovesPage DEF Unfinished, GoesOn, Begun
  <1>10. Room'
    BY <1>1, <1>5, <1>7, MovesRoom
  <1>11. PageTyped' /\ BackendTyped'
    BY <1>1, <1>2, <1>3 DEF PageTyped, BackendTyped, form
  <1>12. TypeOK' /\ CallsTyped'
    <2>1. Bounded(d)'
      BY <1>1, <1>2, <1>5 DEF Bounded
    <2> QED
      BY <1>1, <1>2, <1>7, <1>11, <2>1, MovesTyped
  <1> QED
    BY <1>8, <1>9, <1>10, <1>12 DEF IInv

\* A code gets another status, or another number of attempts.
LEMMA StatusSet ==
  ASSUME codes \in Seq(Code), NEW i \in DOMAIN codes,
         NEW x \in {"pending", "used", "expired", "lost"},
         codes' = [codes EXCEPT ![i].status = x]
  PROVE  /\ codes' \in Seq(Code) /\ DOMAIN codes' = DOMAIN codes /\ Len(codes') = Len(codes)
         /\ \A j \in DOMAIN codes : codes'[j].key = codes[j].key
         /\ \A j \in DOMAIN codes : j # i => codes'[j].status = codes[j].status
         /\ codes'[i].status = x
  <1>1. codes[i] \in Code
    OBVIOUS
  <1>2. PICK new : new = [codes[i] EXCEPT !.status = x]
    OBVIOUS
  <1>3. new \in Code /\ new.key = codes[i].key /\ new.status = x
    BY <1>1, <1>2 DEF Code
  <1>4. codes' = [codes EXCEPT ![i] = new]
    BY <1>2
  <1> QED
    BY <1>3, <1>4

LEMMA TriesSet ==
  ASSUME codes \in Seq(Code), NEW i \in DOMAIN codes, NEW x \in 0..MaxAttempts,
         codes' = [codes EXCEPT ![i].tries = x]
  PROVE  /\ codes' \in Seq(Code) /\ DOMAIN codes' = DOMAIN codes
         /\ \A j \in DOMAIN codes : /\ codes'[j].key = codes[j].key
                                    /\ codes'[j].status = codes[j].status
  <1>1. codes[i] \in Code
    OBVIOUS
  <1>2. PICK new : new = [codes[i] EXCEPT !.tries = x]
    OBVIOUS
  <1>3. new \in Code /\ new.key = codes[i].key /\ new.status = codes[i].status
    BY <1>1, <1>2 DEF Code
  <1>4. codes' = [codes EXCEPT ![i] = new]
    BY <1>2
  <1> QED
    BY <1>3, <1>4

\* A request ends, and with it what it has to do with a code.
LEMMA SettleStep ==
  ASSUME IInv, NEW c \in calls, NEW D, Moves(c, D), NEW i \in DOMAIN codes,
         \A d \in D : /\ d.at \in {"done", "failed", "verified"} /\ d.heard
                      /\ d.row = 0 /\ d.code = 0 /\ d.tries = 0
                      /\ (d.at = "done" /\ d.op = "address" => mail[Key(d)] # 0),
         UNCHANGED <<form, pending, switched, users, mail, crossed>>,
         codes' \in Seq(Code), DOMAIN codes' = DOMAIN codes,
         \A j \in DOMAIN codes : codes'[j].key = codes[j].key,
         \A j \in DOMAIN codes : j # i => codes'[j].status = codes[j].status,
         codes'[i].status \in {"pending", "used", "expired", "lost"},
         Mailed(i) \/ codes'[i].status = "lost",
         (Unfinished(c) /\ c.row = i) \/ codes[i].status # "open",
         codes'[i].status = "lost" => codes[i].status = "open"
  PROVE  IInv'
  <1>1. /\ CodesInv /\ PageTyped /\ BackendTyped /\ Len(codes) \in Nat /\ codes \in Seq(Code)
        /\ MaxAttempts \in Nat \ {0}
    BY CallFacts DEF BackendTyped
  <1>2. Len(codes') = Len(codes)
    BY <1>1
  <1>3. \A d \in calls' : d \in calls \ {c} \/ d \in D
    BY DEF Moves
  <1>4. \A d \in calls' : Unfinished(d) => d \in calls /\ d.row # i
    <2>1. \A d \in calls \ {c} : Unfinished(d) => d.row # i
      BY <1>1 DEF CodesInv, RowsHeld
    <2> QED
      BY <1>3, <2>1 DEF Unfinished
  <1>5. /\ \A d \in calls' : d.at = "read" => d \in calls
        /\ \A d \in calls' : d.at = "read" /\ d.row = i => codes'[i].status # "lost"
    <2>1. \A d \in calls : d.at = "read" => codes[d.row].status # "open"
      BY <1>1 DEF CodesInv, RowsHeld
    <2> QED
      BY <1>3, <2>1
  <1>6. CodesInv'
    BY <1>1, <1>4, <1>5, CodeSettles
  <1>7. PageInv'
    BY MovesPage
  <1>8. Room'
    BY <1>2, MovesRoom
  <1>9. PageTyped' /\ BackendTyped'
    BY <1>1, <1>2 DEF PageTyped, BackendTyped, form
  <1>10. TypeOK' /\ CallsTyped'
    <2>1. \A d \in D : Bounded(d)'
      BY <1>1, <1>2 DEF Bounded
    <2> QED
      BY <1>1, <1>2, <1>9, <2>1, MovesTyped
  <1> QED
    BY <1>6, <1>7, <1>8, <1>10 DEF IInv

LEMMA CommitCodeKeeps == ASSUME IInv, NEW c \in calls, CommitCode(c) PROVE IInv'
  <1>1. /\ c.at = "mailed" /\ codes' = [codes EXCEPT ![c.row].status = "pending"]
        /\ Ends(c, "done")
        /\ UNCHANGED <<form, pending, switched, users, mail, crossed>>
    BY DEF CommitCode, Served
  <1>2. c \in Call /\ codes \in Seq(Code) /\ CodesInv
    BY CallFacts DEF BackendTyped
  <1>3. c.row \in DOMAIN codes
    BY <1>1, <1>2 DEF CodesInv, RowsHeld, Unfinished
  <1>4. PICK D : /\ Moves(c, D)
                 /\ \A d \in D : d.at = "done" /\ d.row = 0 /\ d.code = 0 /\ d.tries = 0 /\ d.heard
    BY <1>1, <1>2, EndsMoves DEF Stage
  <1>5. \A d \in D : d.op = "address" => mail[Key(d)] # 0
    <2>1. \A d \in D : d.op = c.op /\ Key(d) = Key(c)
      BY <1>4 DEF Moves, Follows, Key
    <2> QED
      BY <1>1, <2>1 DEF IInv, PageInv, CodeSent
  <1>6. /\ codes' \in Seq(Code) /\ DOMAIN codes' = DOMAIN codes
        /\ \A j \in DOMAIN codes : codes'[j].key = codes[j].key
        /\ \A j \in DOMAIN codes : j # c.row => codes'[j].status = codes[j].status
        /\ codes'[c.row].status = "pending"
    BY <1>1, <1>2, <1>3, StatusSet
  <1>7. Mailed(c.row) /\ Unfinished(c)
    BY <1>1 DEF Mailed, Unfinished
  <1> QED
    BY <1>1, <1>3, <1>4, <1>5, <1>6, <1>7, SettleStep

LEMMA CommitVerdictKeeps == ASSUME IInv, NEW c \in calls, CommitVerdict(c) PROVE IInv'
  <1>1. c.at = "read" /\ UNCHANGED <<form, pending, switched, users, mail, crossed>>
    BY DEF CommitVerdict, Served
  <1>2. /\ c \in Call /\ codes \in Seq(Code) /\ CodesInv /\ StageFits(c) /\ Bounded(c)
        /\ MaxAttempts \in Nat \ {0}
    BY CallFacts DEF BackendTyped
  <1>3. c.row \in DOMAIN codes /\ codes[c.row].status \in {"pending", "expired", "used"}
    BY <1>1, <1>2 DEF CodesInv, RowsHeld
  <1>4. PICK at \in {"done", "failed", "verified"} :
           Ends(c, at) /\ (at = "verified" => c.op = "confirm")
    BY DEF CommitVerdict
  <1>5. PICK D : /\ Moves(c, D)
                 /\ \A d \in D : d.at = at /\ d.row = 0 /\ d.code = 0 /\ d.tries = 0 /\ d.heard
    BY <1>2, <1>4, EndsMoves DEF Stage
  <1>6. \A d \in D : d.op # "address"
    BY <1>1, <1>2, <1>5 DEF Moves, Follows, StageFits
  <1>7. /\ codes' \in Seq(Code) /\ DOMAIN codes' = DOMAIN codes
        /\ \A j \in DOMAIN codes : codes'[j].key = codes[j].key
        /\ \A j \in DOMAIN codes : j # c.row => codes'[j].status = codes[j].status
        /\ codes'[c.row].status \in {"pending", "expired", "used"}
    <2>1. CASE codes' = [codes EXCEPT ![c.row].status = "used"]
      BY <1>2, <1>3, <2>1, StatusSet
    <2>2. CASE codes' = [codes EXCEPT ![c.row].tries = c.tries + 1]
      <3>1. c.tries + 1 \in 0..MaxAttempts
        BY <1>2 DEF Bounded
      <3> QED
        BY <1>2, <1>3, <2>2, <3>1, TriesSet
    <2> QED
      BY <2>1, <2>2 DEF CommitVerdict
  <1>8. Mailed(c.row)
    BY <1>3 DEF Mailed
  <1> QED
    BY <1>1, <1>3, <1>4, <1>5, <1>6, <1>7, <1>8, SettleStep

LEMMA CallFailsKeeps == ASSUME IInv, NEW c \in calls, CallFails(c) PROVE IInv'
  <1>1. /\ codes' = RolledBack(c) /\ Ends(c, "failed")
        /\ UNCHANGED <<form, pending, switched, users, mail, crossed>>
    BY DEF CallFails, history
  <1>2. /\ c \in Call /\ codes \in Seq(Code) /\ CodesInv /\ users \subseteq Emails
        /\ Len(codes) \in Nat /\ MaxAttempts \in Nat \ {0}
    BY CallFacts DEF BackendTyped
  <1>3. PICK D : /\ Moves(c, D)
                 /\ \A d \in D : d.at = "failed" /\ d.row = 0 /\ d.code = 0 /\ d.tries = 0 /\ d.heard
    BY <1>1, <1>2, EndsMoves DEF Stage
  <1>4. CASE ~Unfinished(c)
    <2>1. UNCHANGED codes
      BY <1>1, <1>4 DEF RolledBack, Unfinished
    <2> QED
      BY <1>1, <1>2, <1>3, <2>1, QuietStep DEF Bounded, Unfinished
  <1>5. CASE Unfinished(c)
    <2>1. c.row \in DOMAIN codes /\ codes[c.row].status = "open"
      BY <1>2, <1>5 DEF CodesInv, RowsHeld
    <2>2. codes' = [codes EXCEPT ![c.row].status = "lost"]
      BY <1>1, <1>5 DEF RolledBack, Unfinished
    <2>3. /\ codes' \in Seq(Code) /\ DOMAIN codes' = DOMAIN codes
          /\ \A j \in DOMAIN codes : codes'[j].key = codes[j].key
          /\ \A j \in DOMAIN codes : j # c.row => codes'[j].status = codes[j].status
          /\ codes'[c.row].status = "lost"
      BY <1>2, <2>1, <2>2, StatusSet
    <2> QED
      BY <1>1, <1>3, <1>5, <2>1, <2>3, SettleStep
  <1> QED
    BY <1>4, <1>5

LEMMA ExpireKeeps == ASSUME IInv, NEW i \in DOMAIN codes, Expire(i) PROVE IInv'
  <1>1. /\ codes[i].status = "pending" /\ codes' = [codes EXCEPT ![i].status = "expired"]
        /\ UNCHANGED <<form, pending, switched, calls, users, mail, crossed>>
    BY DEF Expire, Served
  <1>2. codes \in Seq(Code) /\ CodesInv /\ PageTyped /\ BackendTyped
    BY TypesSplit DEF IInv, BackendTyped
  <1>3. /\ codes' \in Seq(Code) /\ DOMAIN codes' = DOMAIN codes /\ Len(codes') = Len(codes)
        /\ \A j \in DOMAIN codes : codes'[j].key = codes[j].key
        /\ \A j \in DOMAIN codes : j # i => codes'[j].status = codes[j].status
        /\ codes'[i].status = "expired"
    BY <1>1, <1>2, StatusSet
  <1>4. CodesInv'
    <2>1. \A c \in calls' : Unfinished(c) => c \in calls /\ c.row # i
      BY <1>1, <1>2 DEF CodesInv, RowsHeld
    <2>2. Mailed(i)
      BY <1>1 DEF Mailed
    <2> QED
      BY <1>1, <1>2, <1>3, <2>1, <2>2, CodeSettles
  <1>5. PageInv'
    BY <1>1 DEF IInv, PageInv, OneHeard, StepBacked, CodeSent, Unfinished, GoesOn, Begun, Key, form
  <1>6. Room'
    BY <1>1, <1>3 DEF IInv, Room, Asking
  <1>7. TypeOK' /\ CallsTyped'
    <2>1. PageTyped' /\ BackendTyped'
      BY <1>1, <1>2, <1>3 DEF PageTyped, BackendTyped, form
    <2>2. (\A c \in calls : IsCall(c))' /\ CallsTyped'
      BY <1>1, <1>3 DEF IInv, TypeOK, IsCall, CallsTyped, StageFits, Unfinished
    <2> QED
      BY <2>1, <2>2, TypesSplit
  <1> QED
    BY <1>4, <1>5, <1>6, <1>7 DEF IInv
-----------------------------------------------------------------------------
(* The answers, and the calls that throw. *)

\* What a page has behind it at each step.
LEMMA PartsSteps ==
  /\ PartsBefore[0] = {} /\ PartsBefore[1] = {"consent"}
  /\ PartsBefore[2] = {"consent", "profile"} /\ PartsBefore[3] = Parts /\ PartsBefore[4] = Parts
  /\ \A s \in 1..4 : PartsBefore[s - 1] \subseteq PartsBefore[s]
  <1>1. /\ PartsBefore[0] = {} /\ PartsBefore[1] = {"consent"}
        /\ PartsBefore[2] = {"consent", "profile"} /\ PartsBefore[3] = Parts
        /\ PartsBefore[4] = Parts
    BY DEF PartsBefore
  <1>2. \A s \in 1..4 : s \in {1, 2, 3, 4}
    OBVIOUS
  <1>3. \A s \in 1..4 : PartsBefore[s - 1] \subseteq PartsBefore[s]
    BY <1>1, <1>2 DEF Parts
  <1> QED
    BY <1>1, <1>3

\* A call that is over leaves the codes and the other calls as they are.
LEMMA CallOver ==
  ASSUME IInv, NEW c \in calls, calls' = calls \ {c}, PageTyped',
         UNCHANGED <<codes, users, mail, crossed>>
  PROVE  TypeOK' /\ CallsTyped' /\ Room' /\ CodesInv'
  <1>1. CodesInv /\ BackendTyped /\ Len(codes) \in Nat
    BY CallFacts
  <1>2. Moves(c, {})
    BY DEF Moves, Follows
  <1> PICK D : D = {}
    OBVIOUS
  <1>3. CodesInv'
    <2>1. /\ (calls \ {c}) \in SUBSET calls /\ calls' \subseteq (calls \ {c}) \cup D
          /\ \A d \in D : FALSE
      OBVIOUS
    <2> QED
      BY <1>1, <2>1, CodesStay
  <1>4. Room'
    BY <1>2, MovesRoom
  <1>5. TypeOK' /\ CallsTyped'
    <2>1. BackendTyped'
      BY <1>1 DEF BackendTyped
    <2> QED
      BY <1>1, <1>2, <2>1, MovesTyped
  <1> QED
    BY <1>3, <1>4, <1>5

\* Who waits for an answer has asked for one thing.
LEMMA AnswerFacts ==
  ASSUME IInv, NEW c \in calls, Answer(c), c.at \in {"done", "failed"}
  PROVE  /\ calls' = calls \ {c} /\ UNCHANGED <<codes, users, mail, crossed, switched>>
         /\ c.heard /\ c.page \in Pages /\ OneHeard' /\ PageTyped
         /\ pending' \in [Pages -> BOOLEAN]
         /\ \A d \in calls' : d.page = c.page => ~d.heard /\ d.op # "profile"
  <1>1. /\ calls' = calls \ {c} /\ pending' = [pending EXCEPT ![c.page] = FALSE]
        /\ UNCHANGED <<codes, users, mail, crossed, switched>>
    BY DEF Answer, history
  <1>2. c.heard /\ c.page \in Pages /\ PageTyped /\ pending \in [Pages -> BOOLEAN]
    BY CallFacts DEF IInv, PageInv, OneHeard, Unfinished, GoesOn, Begun, PageTyped
  <1>3. \A d \in calls' : d.heard => d.page # c.page
    BY <1>1, <1>2 DEF IInv, PageInv, OneHeard
  <1>4. \A d \in calls' : d.page \in Pages
    BY <1>1 DEF IInv, TypeOK, IsCall
  <1>5. OneHeard'
    BY <1>1, <1>2, <1>3, <1>4 DEF IInv, PageInv, OneHeard
  <1>6. \A d \in calls' : ~d.heard => d.op # "profile"
    BY <1>1 DEF IInv, CallsTyped, StageFits, PageInv, OneHeard, Unfinished, GoesOn, Begun
  <1> QED
    BY <1>1, <1>2, <1>3, <1>5, <1>6

LEMMA ProfileAnsweredKeeps ==
  ASSUME IInv, NEW c \in calls, ProfileAnswered(c) PROVE IInv'
  <1> PICK p \in Pages : p = c.page
    BY CallFacts
  <1>1. /\ c.op = "profile" /\ Answer(c) /\ c.at = "done"
        /\ draft' = [draft EXCEPT ![p].done = draft[p].done \cup {"profile"}]
        /\ step' = [step EXCEPT ![p] = step[p] + 1] /\ UNCHANGED <<mode, resetEmail>>
    BY DEF ProfileAnswered
  <1>2. /\ calls' = calls \ {c} /\ UNCHANGED <<codes, users, mail, crossed, switched>>
        /\ OneHeard' /\ PageTyped /\ pending' \in [Pages -> BOOLEAN]
        /\ \A d \in calls' : d.page = p => ~d.heard /\ d.op # "profile"
    BY <1>1, AnswerFacts
  <1>3. /\ step[p] \in {0, 1} /\ (~switched[p] => "consent" \in draft[p].done)
        /\ draft[p] \in [done : SUBSET Parts, email : Emails \cup {NoEmail}]
    <2>1. step[p] <= 1 /\ (~switched[p] => "consent" \in draft[p].done)
      BY <1>1 DEF IInv, PageInv, StepBacked
    <2>2. step[p] \in 0..4 /\ draft[p] \in [done : SUBSET Parts, email : Emails \cup {NoEmail}]
      BY <1>2 DEF PageTyped
    <2> QED
      BY <2>1, <2>2
  <1>4. /\ \A q \in Pages : q # p => step'[q] = step[q] /\ draft'[q] = draft[q]
        /\ step'[p] = step[p] + 1 /\ draft'[p].done = draft[p].done \cup {"profile"}
        /\ draft'[p].email = draft[p].email
    BY <1>1, <1>2 DEF PageTyped
  <1>5. PageTyped'
    <2>1. PICK new : new = [draft[p] EXCEPT !.done = draft[p].done \cup {"profile"}]
      OBVIOUS
    <2>2. new \in [done : SUBSET Parts, email : Emails \cup {NoEmail}]
      BY <1>3, <2>1 DEF Parts
    <2>3. draft' = [draft EXCEPT ![p] = new] /\ step[p] + 1 \in 0..4
      BY <1>1, <1>3, <2>1
    <2> QED
      BY <1>1, <1>2, <2>2, <2>3 DEF PageTyped
  <1>6. StepBacked'
    <2>1. ~switched[p] => PartsBefore[step[p] + 1] \subseteq draft[p].done \cup {"profile"}
      BY <1>3, PartsSteps
    <2>2. \A d \in calls' : d.page \in Pages
      BY <1>2 DEF IInv, TypeOK, IsCall
    <2> QED
      BY <1>2, <1>4, <2>1, <2>2 DEF IInv, PageInv, StepBacked
  <1>7. CodeSent'
    BY <1>2, <1>3, <1>4 DEF IInv, PageInv, CodeSent, Key
  <1>8. TypeOK' /\ CallsTyped' /\ Room' /\ CodesInv'
    BY <1>2, <1>5, CallOver
  <1> QED
    BY <1>2, <1>6, <1>7, <1>8 DEF IInv, PageInv

LEMMA AddressAnsweredKeeps ==
  ASSUME IInv, NEW c \in calls, AddressAnswered(c) PROVE IInv'
  <1> PICK p \in Pages : p = c.page
    BY CallFacts
  <1>1. /\ c.op = "address" /\ Answer(c) /\ c.at = "done"
        /\ draft' = [draft EXCEPT ![p].email = c.email]
        /\ step' = [step EXCEPT ![p] = 4] /\ UNCHANGED <<mode, resetEmail>>
    BY DEF AddressAnswered
  <1>2. /\ calls' = calls \ {c} /\ UNCHANGED <<codes, users, mail, crossed, switched>>
        /\ OneHeard' /\ PageTyped /\ pending' \in [Pages -> BOOLEAN] /\ c.heard
        /\ \A d \in calls' : d.page = p => ~d.heard /\ d.op # "profile"
    BY <1>1, AnswerFacts
  <1>3. /\ c.email \in Emails /\ mail[<<c.email, "SIGNUP">>] # 0
        /\ (~switched[p] => draft[p].done = Parts)
        /\ draft[p] \in [done : SUBSET Parts, email : Emails \cup {NoEmail}]
    BY <1>1, <1>2 DEF IInv, TypeOK, IsCall, PageInv, StepBacked, CodeSent, Key, PageTyped
  <1>4. /\ \A q \in Pages : q # p => step'[q] = step[q] /\ draft'[q] = draft[q]
        /\ step'[p] = 4 /\ draft'[p].done = draft[p].done /\ draft'[p].email = c.email
    BY <1>1, <1>2 DEF PageTyped
  <1>5. PageTyped'
    <2>1. PICK new : new = [draft[p] EXCEPT !.email = c.email]
      OBVIOUS
    <2>2. new \in [done : SUBSET Parts, email : Emails \cup {NoEmail}]
      BY <1>3, <2>1
    <2>3. draft' = [draft EXCEPT ![p] = new]
      BY <1>1, <2>1
    <2> QED
      BY <1>1, <1>2, <2>2, <2>3 DEF PageTyped
  <1>6. StepBacked'
    <2>1. \A d \in calls' : d.page \in Pages
      BY <1>2 DEF IInv, TypeOK, IsCall
    <2> QED
      BY <1>2, <1>3, <1>4, <2>1, PartsSteps DEF IInv, PageInv, StepBacked
  <1>7. CodeSent'
    BY <1>2, <1>3, <1>4 DEF IInv, PageInv, CodeSent, Key
  <1>8. TypeOK' /\ CallsTyped' /\ Room' /\ CodesInv'
    BY <1>2, <1>5, CallOver
  <1> QED
    BY <1>2, <1>6, <1>7, <1>8 DEF IInv, PageInv

LEMMA WelcomedKeeps == ASSUME IInv, NEW c \in calls, Welcomed(c) PROVE IInv'
  <1> PICK p \in Pages : p = c.page
    BY CallFacts
  <1>1. /\ Answer(c) /\ c.at = "done" /\ mode' = [mode EXCEPT ![p] = "gone"]
        /\ step' = [step EXCEPT ![p] = 0] /\ draft' = [draft EXCEPT ![p] = NoDraft]
        /\ resetEmail' = [resetEmail EXCEPT ![p] = NoEmail]
    BY DEF Welcomed
  <1>2. /\ calls' = calls \ {c} /\ UNCHANGED <<codes, users, mail, crossed, switched>>
        /\ OneHeard' /\ PageTyped /\ pending' \in [Pages -> BOOLEAN]
        /\ \A d \in calls' : d.page = p => ~d.heard /\ d.op # "profile"
    BY <1>1, AnswerFacts
  <1>3. /\ \A q \in Pages : q # p => step'[q] = step[q] /\ draft'[q] = draft[q]
        /\ step'[p] = 0
    BY <1>1, <1>2 DEF PageTyped
  <1>4. PageTyped'
    <2>1. NoDraft \in [done : SUBSET Parts, email : Emails \cup {NoEmail}]
      BY DEF NoDraft
    <2> QED
      BY <1>1, <1>2, <2>1 DEF PageTyped
  <1>5. StepBacked'
    <2>1. \A d \in calls' : d.page \in Pages
      BY <1>2 DEF IInv, TypeOK, IsCall
    <2> QED
      BY <1>2, <1>3, <2>1, PartsSteps DEF IInv, PageInv, StepBacked
  <1>6. CodeSent'
    BY <1>2, <1>3 DEF IInv, PageInv, CodeSent, Key
  <1>7. TypeOK' /\ CallsTyped' /\ Room' /\ CodesInv'
    BY <1>2, <1>4, CallOver
  <1> QED
    BY <1>2, <1>5, <1>6, <1>7 DEF IInv, PageInv

\* The answers that leave the draft and the step as they are.
LEMMA OtherAnswersKeep ==
  ASSUME IInv, NEW c \in calls,
         ResetRequested(c) \/ ResetConfirmed(c) \/ FailureAnswered(c)
  PROVE  IInv'
  <1>1. Answer(c) /\ c.at \in {"done", "failed"} /\ UNCHANGED <<step, draft>>
    BY DEF ResetRequested, ResetConfirmed, FailureAnswered, form
  <1>2. /\ calls' = calls \ {c} /\ UNCHANGED <<codes, users, mail, crossed, switched>>
        /\ OneHeard' /\ PageTyped /\ pending' \in [Pages -> BOOLEAN] /\ c.page \in Pages
    BY <1>1, AnswerFacts
  <1>3. PageTyped'
    <2>1. CASE ResetRequested(c)
      <3>1. c.email \in Emails
        BY <2>1 DEF IInv, TypeOK, IsCall, ResetRequested
      <3> QED
        BY <1>2, <2>1, <3>1 DEF ResetRequested, PageTyped
    <2>2. CASE ResetConfirmed(c)
      BY <1>2, <2>2 DEF ResetConfirmed, PageTyped
    <2>3. CASE FailureAnswered(c)
      BY <1>2, <2>3 DEF FailureAnswered, form, PageTyped
    <2> QED
      BY <2>1, <2>2, <2>3
  <1>4. StepBacked' /\ CodeSent'
    BY <1>1, <1>2 DEF IInv, PageInv, StepBacked, CodeSent, Key
  <1>5. TypeOK' /\ CallsTyped' /\ Room' /\ CodesInv'
    BY <1>2, <1>3, CallOver
  <1> QED
    BY <1>2, <1>4, <1>5 DEF IInv, PageInv

\* The backend goes on with a call that nobody waits for any more.
LEMMA CallThrowsKeeps == ASSUME IInv, NEW c \in calls, CallThrows(c) PROVE IInv'
  <1>1. /\ c.heard /\ \/ calls' = calls \ {c}
                      \/ GoesOn(c) /\ calls' = (calls \ {c}) \cup {[c EXCEPT !.heard = FALSE]}
        /\ UNCHANGED <<form, codes, users, mail, switched, crossed>>
        /\ pending' = pending \/ pending' = [pending EXCEPT ![c.page] = FALSE]
    BY DEF CallThrows, Replace
  <1>2. /\ c \in Call /\ StageFits(c) /\ CodesInv /\ PageTyped /\ BackendTyped
        /\ c.page \in Pages /\ Len(codes) \in Nat /\ Bounded(c)
    BY CallFacts
  <1>3. PICK d : d = [c EXCEPT !.heard = FALSE]
    OBVIOUS
  <1>4. /\ d \in Call /\ d.at = c.at /\ d.row = c.row /\ d.code = c.code /\ d.tries = c.tries
        /\ d.page = c.page /\ d.op = c.op /\ d.email = c.email /\ d.done = c.done /\ ~d.heard
    BY <1>2, <1>3 DEF Call
  <1>5. PICK D \in {{}, {d}} : /\ calls' = (calls \ {c}) \cup D
                               /\ (D = {d} => GoesOn(c))
    BY <1>1, <1>3
  <1>6. Moves(c, D)
    <2>1. StageFits(d)
      BY <1>2, <1>4 DEF StageFits, Unfinished
    <2> QED
      BY <1>4, <1>5, <2>1 DEF Moves, Follows
  <1>7. CodesInv'
    <2>1. /\ \A e \in D : Unfinished(e) => Unfinished(c) /\ Key(c) = Key(e)
          /\ \A e, b \in D : e = b
          /\ \A e \in D : e.at = c.at /\ c.row = e.row
      BY <1>4, <1>5 DEF Unfinished, Key
    <2>2. \A e \in D : Unfinished(e) =>
            \E b \in calls \ (calls \ {c}) : b.at = e.at /\ b.row = e.row /\ Key(b) = Key(e)
      BY <2>1
    <2>3. \A e \in D : e.at = "read" =>
            e.row \in DOMAIN codes /\ codes[e.row].status \in {"pending", "expired", "used"}
      BY <1>2, <2>1 DEF CodesInv, RowsHeld
    <2>4. (calls \ {c}) \in SUBSET calls /\ calls' \subseteq (calls \ {c}) \cup D
      BY <1>5
    <2> QED
      BY <1>1, <1>2, <2>1, <2>2, <2>3, <2>4, CodesStay
  <1>8. Room'
    BY <1>1, <1>4, <1>5, <1>6, MovesRoom
  <1>9. TypeOK' /\ CallsTyped'
    <2>1. PageTyped' /\ BackendTyped'
      BY <1>1, <1>2 DEF PageTyped, BackendTyped, form
    <2>2. \A e \in D : Bounded(e)'
      BY <1>1, <1>2, <1>4, <1>5 DEF Bounded
    <2> QED
      BY <1>1, <1>2, <1>6, <2>1, <2>2, MovesTyped
  <1>10. OneHeard'
    <2>1. \A e \in calls' : e.heard => e \in calls /\ e.page # c.page
      BY <1>1, <1>4, <1>5 DEF IInv, PageInv, OneHeard
    <2>2. \A e \in calls' : e.heard => pending'[e.page]
      <3>1. \A e \in calls : e.heard => pending[e.page] /\ e.page \in Pages
        BY DEF IInv, PageInv, OneHeard, TypeOK, IsCall
      <3>2. \A q \in Pages : q # c.page => pending'[q] = pending[q]
        BY <1>1, <1>2 DEF PageTyped
      <3> QED
        BY <2>1, <3>1, <3>2
    <2>3. \A e \in calls' : ~e.heard => GoesOn(e)
      BY <1>4, <1>5 DEF IInv, PageInv, OneHeard, Unfinished, GoesOn, Begun
    <2> QED
      BY <2>1, <2>2, <2>3 DEF IInv, PageInv, OneHeard, Unfinished, GoesOn, Begun
  <1>11. StepBacked' /\ CodeSent'
    <2>1. \A e \in calls' : \E b \in calls : /\ b.op = e.op /\ b.page = e.page /\ b.at = e.at
                                             /\ b.email = e.email /\ (e.heard => b.heard)
      BY <1>4, <1>5
    <2>2. \A e \in calls' : \E b \in calls : /\ b.op = e.op /\ b.page = e.page /\ b.at = e.at
                                             /\ Key(b) = Key(e) /\ (e.heard => b.heard)
      BY <2>1 DEF Key
    <2>3. StepBacked'
      BY <1>1, <2>1 DEF IInv, PageInv, StepBacked, form
    <2>4. CodeSent'
      BY <1>1, <2>2 DEF IInv, PageInv, CodeSent, Key, form
    <2> QED
      BY <2>3, <2>4
  <1> QED
    BY <1>7, <1>8, <1>9, <1>10, <1>11 DEF IInv, PageInv

-----------------------------------------------------------------------------
(* The pages. *)

\* What a page does by itself leaves the calls and the codes as they are.
LEMMA PageAlone ==
  ASSUME IInv, UNCHANGED <<pending, calls, codes, users, mail, crossed>>, PageTyped'
  PROVE  TypeOK' /\ CallsTyped' /\ Room' /\ CodesInv' /\ OneHeard'
  <1>1. BackendTyped' /\ (\A c \in calls : IsCall(c))'
    BY TypesSplit DEF IInv, BackendTyped, IsCall
  <1>2. CallsTyped'
    BY DEF IInv, CallsTyped
  <1>3. Room' /\ OneHeard'
    BY DEF IInv, Room, Asking, PageInv, OneHeard
  <1>4. CodesInv'
    BY DEF IInv, CodesInv, RowsHeld, OpenCrossed, LastMailed, Mailed, RowsOf
  <1> QED
    BY <1>1, <1>2, <1>3, <1>4, TypesSplit

\* An operation that goes on unheard is none of the first two steps'.
LEMMA UnheardCalls ==
  ASSUME IInv
  PROVE  /\ \A c \in calls : c.page \in Pages
         /\ \A c \in calls : c.op \in {"login", "profile"} => c.heard
         /\ \A p \in Pages : ~pending[p] => \A c \in calls : c.page = p => ~c.heard
  BY DEF IInv, TypeOK, IsCall, CallsTyped, StageFits, PageInv, OneHeard, Unfinished, GoesOn, Begun

LEMMA ChangeModeKeeps ==
  ASSUME IInv, NEW p \in Pages, NEW m \in {"login", "register", "reset"}, ChangeMode(p, m)
  PROVE  IInv'
  <1>1. /\ mode' = [mode EXCEPT ![p] = m] /\ draft' = [draft EXCEPT ![p] = NoDraft]
        /\ step' = [step EXCEPT ![p] = 0]
        /\ UNCHANGED <<resetEmail, pending, calls, codes, users, mail, crossed>>
    BY DEF ChangeMode
  <1>2. PageTyped
    BY TypesSplit DEF IInv
  <1>3. PageTyped'
    <2>1. NoDraft \in [done : SUBSET Parts, email : Emails \cup {NoEmail}]
      BY DEF NoDraft
    <2> QED
      BY <1>1, <1>2, <2>1 DEF PageTyped
  <1>4. /\ \A q \in Pages : q # p => step'[q] = step[q] /\ draft'[q] = draft[q]
        /\ step'[p] = 0
    BY <1>1, <1>2 DEF PageTyped
  <1>5. StepBacked'
    <2>1. PICK x : x = (\E c \in calls : /\ c.page = p /\ c.heard
                                          /\ c.op \in {"profile", "address"})
      OBVIOUS
    <2>2. x \in BOOLEAN /\ switched' = [switched EXCEPT ![p] = x]
      BY <2>1 DEF ChangeMode
    <2>3. /\ switched' \in [Pages -> BOOLEAN] /\ switched'[p] = x
          /\ \A q \in Pages : q # p => switched'[q] = switched[q]
      BY <2>2 DEF IInv, PageInv, StepBacked
    <2>4. ~x => \A c \in calls : c.page = p => ~(c.heard /\ c.op \in {"profile", "address"})
      BY <2>1
    <2> QED
      BY <1>1, <1>4, <2>3, <2>4, PartsSteps, UnheardCalls DEF IInv, PageInv, StepBacked
  <1>6. CodeSent'
    BY <1>1, <1>4 DEF IInv, PageInv, CodeSent, Key
  <1>7. TypeOK' /\ CallsTyped' /\ Room' /\ CodesInv' /\ OneHeard'
    BY <1>1, <1>3, PageAlone
  <1> QED
    BY <1>5, <1>6, <1>7 DEF IInv, PageInv

LEMMA BackKeeps == ASSUME IInv, NEW p \in Pages, Back(p) PROVE IInv'
  <1>1. /\ step[p] > 0 /\ step' = [step EXCEPT ![p] = step[p] - 1]
        /\ UNCHANGED <<mode, draft, resetEmail, pending, calls, codes, users, mail,
                       crossed, switched>>
    BY DEF Back, history
  <1>2. PageTyped
    BY TypesSplit DEF IInv
  <1>3. step[p] \in 1..4
    BY <1>1, <1>2 DEF PageTyped
  <1>4. \A q \in Pages : step'[q] = IF q = p THEN step[p] - 1 ELSE step[q]
    BY <1>1, <1>2 DEF PageTyped
  <1>5. PageTyped'
    <2>1. step[p] - 1 \in 0..4
      BY <1>3
    <2> QED
      BY <1>1, <1>2, <2>1 DEF PageTyped
  <1>6. StepBacked'
    <2>1. \A q \in Pages : ~switched[q] => PartsBefore[step'[q]] \subseteq draft[q].done
      BY <1>3, <1>4, PartsSteps DEF IInv, PageInv, StepBacked
    <2>2. \A c \in calls : c.op = "profile" => step'[c.page] <= 1
      BY <1>3, <1>4, UnheardCalls DEF IInv, PageInv, StepBacked
    <2> QED
      BY <1>1, <2>1, <2>2 DEF IInv, PageInv, StepBacked
  <1>7. CodeSent'
    BY <1>1, <1>3, <1>4 DEF IInv, PageInv, CodeSent, Key
  <1>8. TypeOK' /\ CallsTyped' /\ Room' /\ CodesInv' /\ OneHeard'
    BY <1>1, <1>5, PageAlone
  <1> QED
    BY <1>6, <1>7, <1>8 DEF IInv, PageInv

LEMMA FillKeeps == ASSUME IInv, NEW p \in Pages, Fill(p) PROVE IInv'
  <1>1. PICK s \in {0, 2} :
          /\ Registering(p, s)
          /\ draft' = [draft EXCEPT ![p].done =
                         draft[p].done \cup {IF s = 0 THEN "consent" ELSE "password"}]
          /\ step' = [step EXCEPT ![p] = s + 1]
    BY DEF Fill
  <1>2. PICK part \in Parts : /\ part = IF s = 0 THEN "consent" ELSE "password"
                              /\ draft' = [draft EXCEPT ![p].done = draft[p].done \cup {part}]
    BY <1>1 DEF Parts
  <1>3. UNCHANGED <<mode, resetEmail, pending, calls, codes, users, mail, crossed, switched>>
    BY DEF Fill, history
  <1>4. PageTyped
    BY TypesSplit DEF IInv
  <1>5. /\ draft[p] \in [done : SUBSET Parts, email : Emails \cup {NoEmail}]
        /\ step[p] = s /\ ~pending[p]
    BY <1>1, <1>4 DEF PageTyped, Registering
  <1>6. /\ \A q \in Pages : q # p => step'[q] = step[q] /\ draft'[q] = draft[q]
        /\ step'[p] = s + 1 /\ draft'[p].done = draft[p].done \cup {part}
    BY <1>1, <1>2, <1>4 DEF PageTyped
  <1>7. PageTyped'
    <2>1. PICK new : new = [draft[p] EXCEPT !.done = draft[p].done \cup {part}]
      OBVIOUS
    <2>2. new \in [done : SUBSET Parts, email : Emails \cup {NoEmail}]
      BY <1>5, <2>1
    <2>3. draft' = [draft EXCEPT ![p] = new] /\ s + 1 \in 0..4
      BY <1>2, <2>1
    <2> QED
      BY <1>1, <1>3, <1>4, <2>2, <2>3 DEF PageTyped
  <1>8. StepBacked'
    <2>1. ~switched[p] => PartsBefore[s + 1] \subseteq draft[p].done \cup {part}
      <3>1. ~switched[p] => PartsBefore[s] \subseteq draft[p].done
        BY <1>5 DEF IInv, PageInv, StepBacked
      <3> QED
        BY <1>2, <3>1, PartsSteps DEF Parts
    <2>2. \A c \in calls : c.page = p => ~c.heard /\ c.op # "profile"
      BY <1>5, UnheardCalls
    <2> QED
      BY <1>3, <1>6, <2>1, <2>2, UnheardCalls DEF IInv, PageInv, StepBacked
  <1>9. CodeSent'
    BY <1>3, <1>6 DEF IInv, PageInv, CodeSent, Key
  <1>10. TypeOK' /\ CallsTyped' /\ Room' /\ CodesInv' /\ OneHeard'
    BY <1>3, <1>7, PageAlone
  <1> QED
    BY <1>8, <1>9, <1>10 DEF IInv, PageInv

LEMMA OtherAddressKeeps == ASSUME IInv, NEW p \in Pages, OtherAddress(p) PROVE IInv'
  <1>1. /\ resetEmail' = [resetEmail EXCEPT ![p] = NoEmail]
        /\ UNCHANGED <<mode, step, draft, pending, calls, codes, users, mail, crossed, switched>>
    BY DEF OtherAddress, history
  <1>2. PageTyped'
    BY <1>1, TypesSplit DEF IInv, PageTyped
  <1>3. StepBacked' /\ CodeSent'
    BY <1>1 DEF IInv, PageInv, StepBacked, CodeSent, Key
  <1>4. TypeOK' /\ CallsTyped' /\ Room' /\ CodesInv' /\ OneHeard'
    BY <1>1, <1>2, PageAlone
  <1> QED
    BY <1>3, <1>4 DEF IInv, PageInv

\* A page that is not pending makes a call, which has room for the code it asks for.
LEMMA SubmitKeeps ==
  ASSUME IInv, NEW c \in Call, Submit(c), c.at = "sent", c.heard, ~pending[c.page], Bounded(c),
         c.op \notin {"login", "profile"} => c.email \in Emails,
         c.op = "profile" => step[c.page] = 1,
         c.op = "address" => step[c.page] = 3,
         c.op \in {"address", "reset"} => RoomForCode
  PROVE  IInv'
  <1>1. /\ calls' = calls \cup {c} /\ pending' = [pending EXCEPT ![c.page] = TRUE]
        /\ UNCHANGED <<form, codes, users, mail, crossed, switched>>
    BY DEF Submit, history
  <1>2. /\ PageTyped /\ BackendTyped /\ CodesInv /\ c.page \in Pages
        /\ Len(codes) \in Nat
    BY TypesSplit DEF IInv, Call, BackendTyped
  <1>3. PageTyped' /\ BackendTyped'
    BY <1>1, <1>2 DEF PageTyped, BackendTyped, form
  <1>4. TypeOK' /\ CallsTyped'
    <2>1. IsCall(c)'
      BY <1>1, <1>2 DEF IsCall, Bounded, Call
    <2>2. \A d \in calls : IsCall(d)'
      BY <1>1 DEF IInv, TypeOK, IsCall
    <2>3. StageFits(c)
      BY DEF StageFits, Unfinished
    <2> QED
      BY <1>1, <1>3, <2>1, <2>2, <2>3, TypesSplit DEF IInv, CallsTyped
  <1>5. Room'
    <2>1. IsFiniteSet(calls) /\ IsFiniteSet(calls')
      BY <1>1, FS_AddElement DEF IInv, Room
    <2>2. IsFiniteSet(Asking) /\ IsFiniteSet(Asking') /\ Cardinality(Asking) \in Nat
      <3>1. Asking \in SUBSET calls /\ Asking' \in SUBSET calls'
        BY DEF Asking
      <3> QED
        BY <2>1, <3>1, FS_Subset, FS_CardinalityType
    <2>3. CASE c.op \in {"address", "reset"}
      <3>1. Asking' = Asking \cup {c}
        BY <1>1, <2>3 DEF Asking
      <3>2. Len(codes) + Cardinality(Asking) < MaxCodes
        BY <2>3 DEF RoomForCode, Asking
      <3>3. Cardinality(Asking') <= Cardinality(Asking) + 1 /\ Cardinality(Asking') \in Nat
        <4>1. Cardinality(Asking \cup {c}) = IF c \in Asking THEN Cardinality(Asking)
                                             ELSE Cardinality(Asking) + 1
          BY <2>2, FS_AddElement
        <4> QED
          BY <2>2, <3>1, <4>1, FS_CardinalityType
      <3> QED
        BY <1>1, <1>2, <2>1, <2>2, <3>2, <3>3, SignUpAssumption DEF Room
    <2>4. CASE c.op \notin {"address", "reset"}
      <3>1. Asking' = Asking
        BY <1>1, <2>4 DEF Asking
      <3> QED
        BY <1>1, <2>1, <3>1 DEF IInv, Room
    <2> QED
      BY <2>3, <2>4
  <1>6. CodesInv'
    <2> PICK D : D = {c}
      OBVIOUS
    <2>1. /\ calls \in SUBSET calls /\ calls' \subseteq calls \cup D
          /\ \A d \in D : ~Unfinished(d) /\ d.at # "read"
          /\ \A d, e \in D : d = e
      BY <1>1 DEF Unfinished
    <2> QED
      BY <1>1, <1>2, <2>1, CodesStay
  <1>7. OneHeard'
    <2>1. \A d \in calls : d.page = c.page => ~d.heard
      BY <1>2, UnheardCalls
    <2>2. \A d \in calls' : d.heard => pending'[d.page]
      <3>1. \A q \in Pages : (q = c.page => pending'[q]) /\ (pending[q] => pending'[q])
        BY <1>1, <1>2 DEF PageTyped
      <3> QED
        BY <1>1, <1>2, <3>1, UnheardCalls DEF IInv, PageInv, OneHeard
    <2> QED
      BY <1>1, <2>1, <2>2 DEF IInv, PageInv, OneHeard, Unfinished, GoesOn, Begun
  <1>8. StepBacked'
    <2>1. /\ c.op = "profile" /\ ~switched[c.page] => "consent" \in draft[c.page].done
          /\ c.op = "address" /\ ~switched[c.page] => draft[c.page].done = Parts
      <3>1. ~switched[c.page] => PartsBefore[step[c.page]] \subseteq draft[c.page].done
        BY <1>2 DEF IInv, PageInv, StepBacked
      <3>2. draft[c.page].done \subseteq Parts
        BY <1>2 DEF PageTyped
      <3>3. CASE c.op = "profile"
        BY <3>1, <3>3, PartsSteps
      <3>4. CASE c.op = "address"
        BY <3>1, <3>2, <3>4, PartsSteps
      <3> QED
        BY <3>3, <3>4
    <2> QED
      BY <1>1, <2>1 DEF IInv, PageInv, StepBacked, form
  <1>9. CodeSent'
    BY <1>1 DEF IInv, PageInv, CodeSent, Key, form
  <1> QED
    BY <1>4, <1>5, <1>6, <1>7, <1>8, <1>9 DEF IInv, PageInv

\* What a page sends.
LEMMA NewCallIs ==
  ASSUME IInv, NEW p \in Pages,
         NEW op \in {"login", "profile", "address", "confirm", "reset", "password"},
         NEW email \in Emails \cup {NoEmail}, NEW code \in 0..Len(codes),
         NEW c, c = NewCall(p, op, email, code)
  PROVE  /\ c \in Call /\ c.page = p /\ c.op = op /\ c.at = "sent" /\ c.email = email /\ c.heard
         /\ Bounded(c)
  <1>1. draft[p].done \in SUBSET Parts /\ Len(codes) \in Nat /\ MaxAttempts \in Nat \ {0}
    BY SignUpAssumption DEF IInv, TypeOK
  <1>2. PICK done \in SUBSET Parts : done = IF op = "confirm" THEN draft[p].done ELSE {}
    BY <1>1
  <1>3. c = [page |-> p, op |-> op, at |-> "sent", email |-> email, code |-> code,
             row |-> 0, tries |-> 0, heard |-> TRUE, done |-> done]
    BY <1>2 DEF NewCall
  <1>4. c \in Call
    BY <1>1, <1>3 DEF Call
  <1> QED
    BY <1>1, <1>3, <1>4 DEF Bounded

LEMMA SubmitsAlone ==
  ASSUME IInv, NEW p \in Pages, SubmitLogin(p) \/ SubmitProfile(p)
  PROVE  IInv'
  <1>1. Len(codes) \in Nat /\ 0 \in 0..Len(codes)
    BY TypesSplit DEF IInv, BackendTyped
  <1>2. CASE SubmitLogin(p)
    <2>1. PICK c : c = NewCall(p, "login", NoEmail, 0)
      OBVIOUS
    <2>2. ~pending[p] /\ Submit(c)
      BY <1>2, <2>1 DEF SubmitLogin
    <2> QED
      BY <1>1, <2>1, <2>2, NewCallIs, SubmitKeeps
  <1>3. CASE SubmitProfile(p)
    <2>1. PICK c : c = NewCall(p, "profile", NoEmail, 0)
      OBVIOUS
    <2>2. ~pending[p] /\ step[p] = 1 /\ Submit(c)
      BY <1>3, <2>1 DEF SubmitProfile, Registering
    <2> QED
      BY <1>1, <2>1, <2>2, NewCallIs, SubmitKeeps
  <1> QED
    BY <1>2, <1>3

LEMMA SubmitsAddress ==
  ASSUME IInv, NEW p \in Pages, NEW e \in Emails, SubmitAddress(p, e) \/ RequestReset(p, e)
  PROVE  IInv'
  <1>1. Len(codes) \in Nat /\ 0 \in 0..Len(codes)
    BY TypesSplit DEF IInv, BackendTyped
  <1>2. CASE SubmitAddress(p, e)
    <2>1. PICK c : c = NewCall(p, "address", e, 0)
      OBVIOUS
    <2>2. ~pending[p] /\ step[p] = 3 /\ RoomForCode /\ Submit(c)
      BY <1>2, <2>1 DEF SubmitAddress, Registering
    <2> QED
      BY <1>1, <2>1, <2>2, NewCallIs, SubmitKeeps
  <1>3. CASE RequestReset(p, e)
    <2>1. PICK c : c = NewCall(p, "reset", e, 0)
      OBVIOUS
    <2>2. ~pending[p] /\ RoomForCode /\ Submit(c)
      BY <1>3, <2>1 DEF RequestReset
    <2> QED
      BY <1>1, <2>1, <2>2, NewCallIs, SubmitKeeps
  <1> QED
    BY <1>2, <1>3

LEMMA SubmitsCode ==
  ASSUME IInv, NEW p \in Pages, NEW code \in 0..Len(codes),
         SubmitCode(p, code) \/ ConfirmReset(p, code)
  PROVE  IInv'
  <1>1. CASE SubmitCode(p, code)
    <2>1. PICK email : email = draft[p].email
      OBVIOUS
    <2>2. PICK c : c = NewCall(p, "confirm", email, code)
      OBVIOUS
    <2>3. ~pending[p] /\ step[p] = 4 /\ Submit(c)
      BY <1>1, <2>1, <2>2 DEF SubmitCode, Registering
    <2>4. email \in Emails
      BY <2>1, <2>3 DEF IInv, PageInv, CodeSent
    <2> QED
      BY <2>2, <2>3, <2>4, NewCallIs, SubmitKeeps
  <1>2. CASE ConfirmReset(p, code)
    <2>1. PICK email : email = resetEmail[p]
      OBVIOUS
    <2>2. PICK c : c = NewCall(p, "password", email, code)
      OBVIOUS
    <2>3. ~pending[p] /\ email # NoEmail /\ Submit(c)
      BY <1>2, <2>1, <2>2 DEF ConfirmReset
    <2>4. email \in Emails
      BY <2>1, <2>3 DEF IInv, TypeOK
    <2> QED
      BY <2>2, <2>3, <2>4, NewCallIs, SubmitKeeps
  <1> QED
    BY <1>1, <1>2

-----------------------------------------------------------------------------
(* Every step. *)

LEMMA InitInv == Init => IInv
  <1> SUFFICES ASSUME Init PROVE IInv
    OBVIOUS
  <1>1. /\ calls = {} /\ codes = <<>> /\ Len(codes) = 0
        /\ mode = [p \in Pages |-> "login"] /\ step = [p \in Pages |-> 0]
        /\ draft = [p \in Pages |-> NoDraft] /\ resetEmail = [p \in Pages |-> NoEmail]
        /\ pending = [p \in Pages |-> FALSE] /\ users \subseteq Emails
        /\ mail = [key \in Emails \X Purposes |-> 0] /\ switched = [p \in Pages |-> FALSE]
        /\ MaxCodes \in Nat
    BY SignUpAssumption DEF Init
  <1>2. TypeOK /\ CallsTyped
    <2>1. PageTyped
      <3>1. NoDraft \in [done : SUBSET Parts, email : Emails \cup {NoEmail}]
        BY DEF NoDraft
      <3> QED
        BY <1>1, <3>1 DEF PageTyped
    <2>2. BackendTyped
      BY <1>1 DEF BackendTyped
    <2> QED
      BY <1>1, <2>1, <2>2, TypesSplit DEF CallsTyped
  <1>3. Room
    <2>1. Asking = {}
      BY <1>1 DEF Asking
    <2> QED
      BY <1>1, <2>1, FS_EmptySet DEF Room
  <1>4. PageInv
    BY <1>1, PartsSteps DEF PageInv, OneHeard, StepBacked, CodeSent
  <1>5. CodesInv
    BY <1>1 DEF CodesInv, RowsHeld, OpenCrossed, LastMailed
  <1> QED
    BY <1>2, <1>3, <1>4, <1>5 DEF IInv

LEMMA PagesKeepInv == ASSUME IInv, NEW p \in Pages, PageNext(p) PROVE IInv'
  <1>1. CASE \E m \in {"login", "register", "reset"} : ChangeMode(p, m)
    BY <1>1, ChangeModeKeeps
  <1>2. CASE Back(p) \/ Fill(p) \/ OtherAddress(p)
    BY <1>2, BackKeeps, FillKeeps, OtherAddressKeeps
  <1>3. CASE SubmitLogin(p) \/ SubmitProfile(p)
    BY <1>3, SubmitsAlone
  <1>4. CASE \E e \in Emails : SubmitAddress(p, e) \/ RequestReset(p, e)
    BY <1>4, SubmitsAddress
  <1>5. CASE \E code \in 0..Len(codes) : SubmitCode(p, code) \/ ConfirmReset(p, code)
    BY <1>5, SubmitsCode
  <1> QED
    BY <1>1, <1>2, <1>3, <1>4, <1>5 DEF PageNext

LEMMA NextInv == IInv /\ [Next]_vars => IInv'
  <1> SUFFICES ASSUME IInv, [Next]_vars PROVE IInv'
    OBVIOUS
  <1>1. ASSUME NEW p \in Pages, PageNext(p) PROVE IInv'
    BY <1>1, PagesKeepInv
  <1>2. ASSUME NEW c \in calls, Serve(c) PROVE IInv'
    BY <1>2, CheckFreeKeeps, CreateCodeKeeps, SendMailKeeps, CommitCodeKeeps, ReadCodeKeeps,
       CommitVerdictKeeps, RegisterKeeps, LogInKeeps DEF Serve
  <1>3. ASSUME NEW c \in calls, Answered(c) PROVE IInv'
    BY <1>3, ProfileAnsweredKeeps, AddressAnsweredKeeps, WelcomedKeeps, OtherAnswersKeep
       DEF Answered
  <1>4. ASSUME NEW c \in calls, CallFails(c) \/ CallThrows(c) PROVE IInv'
    BY <1>4, CallFailsKeeps, CallThrowsKeeps
  <1>5. ASSUME NEW i \in DOMAIN codes, Expire(i) PROVE IInv'
    BY <1>5, ExpireKeeps
  <1>6. CASE UNCHANGED vars
    <2>1. UNCHANGED <<form, pending, calls, codes, users, mail, crossed, switched>>
      BY <1>6 DEF vars, history
    <2>2. PageTyped'
      BY <2>1, TypesSplit DEF IInv, PageTyped, form
    <2>3. StepBacked' /\ CodeSent'
      BY <2>1 DEF IInv, PageInv, StepBacked, CodeSent, Key, form
    <2> QED
      BY <2>1, <2>2, <2>3, PageAlone DEF IInv, PageInv
  <1> QED
    BY <1>1, <1>2, <1>3, <1>4, <1>5, <1>6 DEF Next

-----------------------------------------------------------------------------
(* The pages, the calls under way and the codes keep their shapes: in         *)
(* particular no attempt is counted beyond verification_max_attempts          *)
(* (services/auth.py:108), and a request in flight has room for its code.     *)
THEOREM SignUpTypes == Spec => []TypeOK
  <1>1. IInv => TypeOK
    BY DEF IInv
  <1> QED
    BY <1>1, InitInv, NextInv, PTL DEF Spec

(* A page at a step of the sign-up has all that the steps before it ask for,  *)
(* unless the mode was changed during a call (login/page.tsx:93, 94), and the *)
(* last code mailed to its address is the one that the backend compares,      *)
(* unless two requests overlapped, or it has been used, has expired or was    *)
(* mailed for nothing (services/auth.py:83).                                  *)
THEOREM ReadyPagesCanConfirm == Spec => []ReadyToConfirm
  <1>1. IInv => ReadyToConfirm
    <2> SUFFICES ASSUME IInv, NEW p \in Pages
                 PROVE  /\ ~switched[p] => PartsBefore[step[p]] \subseteq draft[p].done
                        /\ step[p] = 4 =>
                             LET key == <<draft[p].email, "SIGNUP">>
                                 last == mail[key]
                             IN  /\ last # 0
                                 /\ (last \notin crossed /\ codes[last].status = "pending") =>
                                      LatestPending(key) = last
      BY Zenon DEF ReadyToConfirm
    <2>1. ~switched[p] => PartsBefore[step[p]] \subseteq draft[p].done
      BY DEF IInv, PageInv, StepBacked
    <2>2. ASSUME step[p] = 4, NEW key, key = <<draft[p].email, "SIGNUP">>
          PROVE  /\ mail[key] # 0
                 /\ (mail[key] \notin crossed /\ codes[mail[key]].status = "pending") =>
                      LatestPending(key) = mail[key]
      <3>1. key \in Emails \X Purposes /\ mail[key] # 0
        BY <2>2 DEF IInv, PageInv, CodeSent, Purposes
      <3>2. /\ mail[key] \in RowsOf(key)
            /\ \A j \in RowsOf(key) : j > mail[key] /\ Mailed(j) => mail[key] \in crossed
        BY <3>1 DEF IInv, CodesInv, LastMailed
      <3>3. /\ codes \in Seq(Code) /\ Len(codes) \in Nat /\ mail[key] \in 0..Len(codes)
            /\ \A j \in RowsOf(key) : j \in 1..Len(codes)
        BY <3>1, TypesSplit DEF IInv, BackendTyped, RowsOf
      <3>4. ASSUME mail[key] \notin crossed, codes[mail[key]].status = "pending"
            PROVE  LatestPending(key) = mail[key]
        <4> DEFINE S == {0} \cup {i \in RowsOf(key) : codes[i].status \in {"pending", "expired"}}
        <4>1. LatestPending(key) \in S /\ \A i \in S : i <= LatestPending(key)
          BY <3>3, LatestIs
        <4>2. mail[key] <= LatestPending(key)
          BY <3>2, <3>4, <4>1
        <4>3. LatestPending(key) > mail[key] => mail[key] \in crossed
          <5>1. LatestPending(key) > mail[key] =>
                  LatestPending(key) \in RowsOf(key) /\ Mailed(LatestPending(key))
            BY <3>3, <4>1 DEF Mailed
          <5> QED
            BY <3>2, <5>1
        <4>4. LatestPending(key) \in 0..Len(codes)
          BY <3>3, <4>1
        <4> QED
          BY <3>3, <3>4, <4>2, <4>3, <4>4
      <3> QED
        BY <3>1, <3>4
    <2> QED
      BY <2>1, <2>2
  <1> QED
    BY <1>1, InitInv, NextInv, PTL DEF Spec

=============================================================================
