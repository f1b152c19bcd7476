------------------------- MODULE RecruitmentProofs -------------------------
(***************************************************************************)
(* Proofs about Recruitment, for any users, threads, capacities and days:  *)
(* the rows are consistent and, when the author's requests come one at a   *)
(* time, the seats of a post are never overbooked and Recruitment          *)
(* implements SeatBoard.                                                   *)
(***************************************************************************)
EXTENDS Recruitment, TLAPS, FiniteSetTheorems

\* The fixed values of the model have the right types.
LEMMA IdleType == Idle \in Request /\ NoRow \in Row /\ Idle.object \in Post
  BY RecruitmentAssumption
  DEF Idle, Request, Ops, OrganizerOps, NoRow, Row, NewPost, Post, RecruitStatus,
      Capacities, Days

\* What a flush writes is a post again.
LEMMA WriteColumnsType ==
  ASSUME post \in Post, NEW r \in Request
  PROVE  WriteColumns(r) \in Post
  BY DEF WriteColumns, Request, Post

\* A request that begins leaves the types right.
LEMMA BeginType ==
  ASSUME TypeOK, NEW w \in Workers, NEW op \in Ops, NEW u \in Users \cup {NoUser},
         NEW loaded \in Row, NEW object \in Post, NEW dirty \in SUBSET Columns,
         Begin(w, op, u, loaded, object, dirty)
  PROVE  TypeOK'
  BY DEF TypeOK, Begin, Request

\* So does one that ends.
LEMMA FinishType ==
  ASSUME TypeOK, NEW w \in Workers, Finish(w)
  PROVE  req' \in [Workers -> Request]
  BY IdleType DEF TypeOK, Finish

\* The types of the variables, for every value of the constants.
THEOREM TypeCorrect == Spec => []TypeOK
<1>1. Init => TypeOK
  BY IdleType, RecruitmentAssumption
  DEF Init, TypeOK, Idle, Post, NewPost, RecruitStatus, Capacities, Days
<1>2. TypeOK /\ [Next]_vars => TypeOK'
  <2> SUFFICES ASSUME TypeOK, [Next]_vars PROVE TypeOK'
    OBVIOUS
  <2>1. ASSUME NEW c \in Capacities, NEW d \in Days, CreatePost(c, d)
        PROVE TypeOK'
    BY <2>1 DEF TypeOK, CreatePost, NewPost, Post, RecruitStatus
  <2>2. ASSUME NEW w \in Workers, NEW u \in Users, BeginApply(w, u) PROVE TypeOK'
    BY <2>2, IdleType, BeginType DEF BeginApply, TypeOK, Ops
  <2>3. ASSUME NEW w \in Workers, NEW u \in Users, BeginCancel(w, u) PROVE TypeOK'
    BY <2>3, IdleType, BeginType DEF BeginCancel, Ops
  <2>4. ASSUME NEW w \in Workers, NEW u \in Users, BeginAccept(w, u) PROVE TypeOK'
    <3> DEFINE fills == CountAccepted + 1 >= post.capacity /\ post.status # "CLOSED"
               obj == [Idle.object EXCEPT !.status =
                          IF fills THEN "CLOSED" ELSE "RECRUITING"]
               dirty == IF fills THEN {"status"} ELSE {}
    <3>1. Begin(w, "accept", u, NoRow, obj, dirty)
      BY <2>4 DEF BeginAccept
    <3>2. obj \in Post /\ dirty \in SUBSET Columns
      BY IdleType DEF Post, RecruitStatus, Columns
    <3>3. QED
      BY <3>1, <3>2, IdleType, BeginType DEF Ops, OrganizerOps
  <2>5. ASSUME NEW w \in Workers, NEW u \in Users, BeginReject(w, u) PROVE TypeOK'
    BY <2>5, IdleType, BeginType DEF BeginReject, Ops, OrganizerOps
  <2>6. ASSUME NEW w \in Workers, NEW new \in Post, BeginUpdate(w, new)
        PROVE TypeOK'
    BY <2>6, IdleType, BeginType DEF BeginUpdate, Ops, OrganizerOps
  <2>7. ASSUME NEW w \in Workers, BeginDelete(w) PROVE TypeOK'
    BY <2>7, IdleType, BeginType DEF BeginDelete, Ops
  <2>8. ASSUME NEW w \in Workers, CommitNewApplication(w) PROVE TypeOK'
    BY <2>8, FinishType DEF CommitNewApplication, TypeOK, Row
  <2>9. ASSUME NEW w \in Workers, CommitReapplication(w) PROVE TypeOK'
    BY <2>9, FinishType DEF CommitReapplication, TypeOK, Row
  <2>10. ASSUME NEW w \in Workers, CommitCancel(w) PROVE TypeOK'
    BY <2>10, FinishType DEF CommitCancel, TypeOK, Row
  <2>11. ASSUME NEW w \in Workers, CommitAccept(w) PROVE TypeOK'
    BY <2>11, FinishType, WriteColumnsType DEF CommitAccept, TypeOK, Row
  <2>12. ASSUME NEW w \in Workers, CommitReject(w) PROVE TypeOK'
    BY <2>12, FinishType DEF CommitReject, TypeOK, Row
  <2>13. ASSUME NEW w \in Workers, CommitUpdate(w) PROVE TypeOK'
    BY <2>13, FinishType, WriteColumnsType DEF CommitUpdate, TypeOK
  <2>14. ASSUME NEW w \in Workers, CommitDelete(w) PROVE TypeOK'
    BY <2>14, FinishType, IdleType DEF CommitDelete, DropPost, TypeOK
  <2>15. ASSUME NEW w \in Workers, CommitFails(w) PROVE TypeOK'
    BY <2>15, FinishType DEF CommitFails, TypeOK
  <2>16. ASSUME NEW u \in Users, WithdrawApplicant(u) PROVE TypeOK'
    BY <2>16, IdleType DEF WithdrawApplicant, TypeOK
  <2>17. CASE WithdrawAuthor
    BY <2>17, IdleType DEF WithdrawAuthor, DropPost, TypeOK
  <2>18. CASE NextDay
    BY <2>18, RecruitmentAssumption DEF NextDay, TypeOK, Days
  <2>19. CASE UNCHANGED vars
    BY <2>19 DEF vars, TypeOK
  <2>20. QED
    BY <2>1, <2>2, <2>3, <2>4, <2>5, <2>6, <2>7, <2>8, <2>9, <2>10, <2>11, <2>12,
       <2>13, <2>14, <2>15, <2>16, <2>17, <2>18, <2>19 DEF Next
<1>3. QED
  BY <1>1, <1>2, PTL DEF Spec

-----------------------------------------------------------------------------
(* Facts that hold however many requests the author has in flight. *)

\* A request about a participant names one, an acceptance writes no column
\* of the post but its status, and before the post there are no requests.
RequestShape ==
    \A w \in Workers :
       /\ req[w].op \in {"apply", "cancel", "accept", "reject"}
             => req[w].user \in Users
       /\ req[w].op = "accept" => req[w].dirty \subseteq {"status"}
       /\ stage = "absent" => req[w].op = "idle"

RowInv == TypeOK /\ RequestShape /\ NoOrphanRows /\ DecidedHaveResponse

\* No participant and no request is there at first.
LEMMA RowInvInit == Init => RequestShape /\ NoOrphanRows /\ DecidedHaveResponse
  BY DEF Init, RequestShape, NoOrphanRows, DecidedHaveResponse, NoRow, Idle

\* Every step keeps the rows consistent, whatever was loaded before it.
LEMMA RowInvStep ==
  ASSUME RowInv, TypeOK', [Next]_vars
  PROVE  RowInv'
<1> USE DEF RowInv
<1>1. ASSUME NEW c \in Capacities, NEW d \in Days, CreatePost(c, d)
      PROVE (RequestShape /\ NoOrphanRows /\ DecidedHaveResponse)'
  BY <1>1 DEF CreatePost, RequestShape, NoOrphanRows, DecidedHaveResponse
<1>2. ASSUME NEW w \in Workers, NEW op \in Ops, NEW u \in Users \cup {NoUser},
             NEW loaded, NEW object, NEW dirty,
             Begin(w, op, u, loaded, object, dirty), stage # "absent",
             op \in {"apply", "cancel", "accept", "reject"} => u \in Users,
             op = "accept" => dirty \subseteq {"status"}
      PROVE (RequestShape /\ NoOrphanRows /\ DecidedHaveResponse)'
  BY <1>2 DEF Begin, RequestShape, NoOrphanRows, DecidedHaveResponse, TypeOK
<1>3. ASSUME NEW w \in Workers, NEW u \in Users,
             BeginApply(w, u) \/ BeginCancel(w, u) \/ BeginReject(w, u)
      PROVE (RequestShape /\ NoOrphanRows /\ DecidedHaveResponse)'
  BY <1>2, <1>3
  DEF BeginApply, BeginCancel, BeginReject, Ops, OrganizerOps, NoOrphanRows
<1>4. ASSUME NEW w \in Workers, NEW u \in Users, BeginAccept(w, u)
      PROVE (RequestShape /\ NoOrphanRows /\ DecidedHaveResponse)'
  <2> DEFINE fills == CountAccepted + 1 >= post.capacity /\ post.status # "CLOSED"
             obj == [Idle.object EXCEPT !.status =
                        IF fills THEN "CLOSED" ELSE "RECRUITING"]
             dirty == IF fills THEN {"status"} ELSE {}
  <2>1. Begin(w, "accept", u, NoRow, obj, dirty) /\ stage = "live"
    BY <1>4 DEF BeginAccept
  <2>2. dirty \subseteq {"status"}
    OBVIOUS
  <2> HIDE DEF dirty, obj
  <2>3. QED
    BY <1>2, <2>1, <2>2 DEF Ops, OrganizerOps
<1>5. ASSUME NEW w \in Workers, NEW new \in Post, BeginUpdate(w, new)
      PROVE (RequestShape /\ NoOrphanRows /\ DecidedHaveResponse)'
  BY <1>2, <1>5 DEF BeginUpdate, Ops, OrganizerOps
<1>6. ASSUME NEW w \in Workers, BeginDelete(w)
      PROVE (RequestShape /\ NoOrphanRows /\ DecidedHaveResponse)'
  BY <1>2, <1>6 DEF BeginDelete, Ops
<1>7. ASSUME NEW w \in Workers, Finish(w), stage' = "absent" => stage = "absent"
      PROVE RequestShape'
  BY <1>7 DEF Finish, RequestShape, Idle, TypeOK
<1>8. ASSUME NEW w \in Workers,
             CommitNewApplication(w) \/ CommitReapplication(w) \/ CommitReject(w)
      PROVE (RequestShape /\ NoOrphanRows /\ DecidedHaveResponse)'
  BY <1>7, <1>8 DEF CommitNewApplication, CommitReapplication, CommitReject,
     RequestShape, NoOrphanRows, DecidedHaveResponse, TypeOK, Row
<1>9. ASSUME NEW w \in Workers, CommitCancel(w)
      PROVE (RequestShape /\ NoOrphanRows /\ DecidedHaveResponse)'
  BY <1>7, <1>9
  DEF CommitCancel, RequestShape, NoOrphanRows, DecidedHaveResponse, TypeOK, Row
<1>10. ASSUME NEW w \in Workers, CommitAccept(w)
       PROVE (RequestShape /\ NoOrphanRows /\ DecidedHaveResponse)'
  BY <1>7, <1>10
  DEF CommitAccept, RequestShape, NoOrphanRows, DecidedHaveResponse, TypeOK, Row
<1>11. ASSUME NEW w \in Workers, CommitUpdate(w) \/ CommitFails(w)
       PROVE (RequestShape /\ NoOrphanRows /\ DecidedHaveResponse)'
  BY <1>7, <1>11 DEF CommitUpdate, CommitFails, NoOrphanRows, DecidedHaveResponse
<1>12. ASSUME NEW w \in Workers, CommitDelete(w)
       PROVE (RequestShape /\ NoOrphanRows /\ DecidedHaveResponse)'
  BY <1>7, <1>12
  DEF CommitDelete, DropPost, NoOrphanRows, DecidedHaveResponse, NoRow
<1>13. ASSUME NEW u \in Users, WithdrawApplicant(u)
       PROVE (RequestShape /\ NoOrphanRows /\ DecidedHaveResponse)'
  BY <1>13 DEF WithdrawApplicant, RequestShape, NoOrphanRows, DecidedHaveResponse,
     TypeOK, NoRow
<1>14. ASSUME WithdrawAuthor
       PROVE (RequestShape /\ NoOrphanRows /\ DecidedHaveResponse)'
  BY <1>14 DEF WithdrawAuthor, DropPost, RequestShape, NoOrphanRows,
     DecidedHaveResponse, NoRow
<1>15. ASSUME NextDay \/ UNCHANGED vars
       PROVE (RequestShape /\ NoOrphanRows /\ DecidedHaveResponse)'
  BY <1>15 DEF NextDay, vars, RequestShape, NoOrphanRows, DecidedHaveResponse
<1>16. QED
  BY <1>1, <1>3, <1>4, <1>5, <1>6, <1>8, <1>9, <1>10, <1>11, <1>12, <1>13,
     <1>14, <1>15 DEF Next

\* However many requests are in flight, for whomever, decided applications
\* keep their response time and no participant outlives its post or its user.
THEOREM RowsAreConsistent == Spec => []RowsConsistent
<1>1. Init /\ TypeOK => RowInv
  BY RowInvInit DEF RowInv
<1>2. RowInv /\ TypeOK' /\ [Next]_vars => RowInv'
  BY RowInvStep
<1>3. RowInv => RowsConsistent
  BY DEF RowInv, RowsConsistent
<1>4. QED
  BY <1>1, <1>2, <1>3, TypeCorrect, PTL DEF Spec

-----------------------------------------------------------------------------
(* The seats. *)

\* The accepted participants can be counted.
LEMMA AcceptedFinite ==
  /\ IsFiniteSet(Accepted) /\ CountAccepted \in Nat
  /\ IsFiniteSet(Accepted') /\ CountAccepted' \in Nat
<1>1. Accepted \in SUBSET Users /\ Accepted' \in SUBSET Users
  BY DEF Accepted
<1>2. QED
  BY <1>1, RecruitmentAssumption, FS_Subset, FS_CardinalityType DEF CountAccepted

\* A step after which no new user is accepted does not raise the count.
LEMMA FewerAccepted ==
  ASSUME \A u \in Users : row'[u].status = "ACCEPTED" => row[u].status = "ACCEPTED"
  PROVE  CountAccepted' <= CountAccepted
<1>1. Accepted' \in SUBSET Accepted
  BY DEF Accepted
<1>2. QED
  BY <1>1, AcceptedFinite, FS_Subset DEF CountAccepted

\* An acceptance adds its user to the accepted ones.
LEMMA AcceptAdds ==
  ASSUME RowInv, NEW w \in Workers, CommitAccept(w)
  PROVE  /\ stage = "live" /\ stage' = "live"
         /\ req[w].user \in Users
         /\ Accepted' = Accepted \cup {req[w].user}
         /\ CountAccepted' <= CountAccepted + 1
<1>1. req[w].user \in Users /\ stage = "live" /\ stage' = "live"
  BY DEF CommitAccept, RowInv, RequestShape, NoOrphanRows
<1>2. Accepted' = Accepted \cup {req[w].user}
  BY <1>1 DEF CommitAccept, Accepted, RowInv, TypeOK
<1>3. CountAccepted = Cardinality(Accepted) /\ CountAccepted' = Cardinality(Accepted')
  BY DEF CountAccepted
<1>4. CountAccepted' <= CountAccepted + 1
  <2>1. CASE req[w].user \in Accepted
    <3>1. Accepted' = Accepted
      BY <1>2, <2>1
    <3>2. CountAccepted' = CountAccepted
      BY <1>3, <3>1
    <3>3. QED
      BY <3>2, AcceptedFinite
  <2>2. CASE req[w].user \notin Accepted
    <3>1. Cardinality(Accepted') = Cardinality(Accepted) + 1
      BY <1>2, <2>2, AcceptedFinite, FS_AddElement
    <3>2. QED
      BY <1>3, <3>1, AcceptedFinite
  <2>3. QED
    BY <2>1, <2>2
<1>5. QED
  BY <1>1, <1>2, <1>4

SeatInv == RowInv /\ CountsStayGood /\ WithinCapacity

\* No seat is taken and no request in flight at first.
LEMMA SeatInvInit ==
  Init => CountsStayGood /\ WithinCapacity
  BY DEF Init, CountsStayGood, WithinCapacity, Idle, OrganizerOps

\* A request that writes neither seats nor decisions may begin at any time.
LEMMA BeginKeeps ==
  ASSUME SeatInv, NEW w \in Workers, NEW op \in Ops \ OrganizerOps,
         NEW u, NEW loaded, NEW object, NEW dirty,
         Begin(w, op, u, loaded, object, dirty)
  PROVE  (CountsStayGood /\ WithinCapacity)'
  BY DEF SeatInv, RowInv, TypeOK, Begin, OrganizerOps, CountsStayGood, Ops,
     WithinCapacity, CountAccepted, Accepted, WriteColumns

\* A commit or a withdrawal that leaves the post alone, decides nothing and
\* frees seats at most.
LEMMA FreeingKeeps ==
  ASSUME SeatInv, UNCHANGED <<stage, post>>,
         req' = req \/ \E w \in Workers : Finish(w),
         \A u \in Users :
            row'[u].status # row[u].status
               => row'[u].status \notin {"ACCEPTED", "REJECTED"}
  PROVE  (CountsStayGood /\ WithinCapacity)'
<1>1. CountAccepted' <= CountAccepted
  BY FewerAccepted
<1>2. ASSUME NEW v \in Workers
      PROVE req'[v] = req[v] \/ req'[v].op = "idle"
  BY DEF Finish, Idle, SeatInv, RowInv, TypeOK
<1>3. ASSUME NEW v \in Workers, req'[v] = req[v]
      PROVE WriteColumns(req[v])' = WriteColumns(req[v])
  BY <1>3 DEF WriteColumns
<1>4. \A v, w \in Workers :
         req'[v].op \in OrganizerOps /\ req'[w].op \in OrganizerOps => v = w
  BY <1>2 DEF SeatInv, CountsStayGood, OrganizerOps
<1>5. ASSUME NEW v \in Workers, stage = "live", req'[v].op # "idle"
      PROVE LET r == req[v]
            IN /\ r.op = "accept" =>
                     /\ CountAccepted' < post.capacity
                     /\ \/ CountAccepted' + 1 < post.capacity
                        \/ WriteColumns(r)'.status = "CLOSED"
               /\ r.op = "update" => CountAccepted' <= WriteColumns(r)'.capacity
               /\ r.op = "accept" => row'[r.user].status # "REJECTED"
               /\ r.op = "reject" => row'[r.user].status # "ACCEPTED"
  <2>1. req'[v] = req[v] /\ WriteColumns(req[v])' = WriteColumns(req[v])
    BY <1>2, <1>3, <1>5
  <2>2. WriteColumns(req[v]) \in Post /\ post \in Post
    BY WriteColumnsType DEF SeatInv, RowInv, TypeOK
  <2>3. req[v].op \in {"accept", "reject"} => req[v].user \in Users
    BY DEF SeatInv, RowInv, RequestShape
  <2>4. QED
    BY <1>1, <1>5, <2>1, <2>2, <2>3, AcceptedFinite
    DEF SeatInv, CountsStayGood, Post, Capacities
<1>6. CountsStayGood'
  BY <1>2, <1>4, <1>5 DEF CountsStayGood
<1>7. WithinCapacity'
  BY <1>1, AcceptedFinite
  DEF SeatInv, RowInv, TypeOK, Post, Capacities, WithinCapacity
<1>8. QED
  BY <1>6, <1>7

\* The author's request begins when no other one of the author's is in
\* flight; what it counts it counts now.
LEMMA OrganizerBegins ==
  ASSUME SeatInv, SerialOrganizer, OrganizerFree, NEW w \in Workers,
         NEW op \in OrganizerOps, NEW u \in Users \cup {NoUser}, NEW object, NEW dirty,
         Begin(w, op, u, NoRow, object, dirty),
         op = "accept" =>
            /\ u \in Users /\ row[u].status = "APPLIED"
            /\ CountAccepted < post.capacity
            /\ \/ CountAccepted + 1 < post.capacity
               \/ WriteColumns([op |-> op, user |-> u, loaded |-> NoRow,
                                object |-> object, dirty |-> dirty]).status = "CLOSED",
         op = "reject" => u \in Users /\ row[u].status = "APPLIED",
         op = "update" =>
            CountAccepted <= WriteColumns([op |-> op, user |-> u, loaded |-> NoRow,
                                object |-> object, dirty |-> dirty]).capacity
  PROVE  (CountsStayGood /\ WithinCapacity)'
<1> DEFINE r == [op |-> op, user |-> u, loaded |-> NoRow,
                 object |-> object, dirty |-> dirty]
<1>1. /\ req'[w] = r
      /\ \A v \in Workers : v # w => req'[v] = req[v] /\ req[v].op \notin OrganizerOps
      /\ UNCHANGED <<stage, post, row>>
  BY DEF Begin, SeatInv, RowInv, TypeOK, OrganizerFree
<1>2. CountAccepted' = CountAccepted /\ WriteColumns(r)' = WriteColumns(r)
  BY <1>1 DEF CountAccepted, Accepted, WriteColumns
<1>3. WithinCapacity'
  BY <1>1, <1>2 DEF SeatInv, WithinCapacity
<1>4. CountsStayGood'
  <2>1. \A v, x \in Workers :
           req'[v].op \in OrganizerOps /\ req'[x].op \in OrganizerOps => v = x
    BY <1>1
  <2>2. ASSUME NEW v \in Workers, req'[v].op \in OrganizerOps
        PROVE  req'[v] = r
    BY <1>1, <2>2
  <2>3. r.op = op /\ r.user = u
    OBVIOUS
  <2> HIDE DEF r
  <2>4. QED
    BY <1>1, <1>2, <2>1, <2>2, <2>3 DEF r, CountsStayGood, OrganizerOps
<1>5. QED
  BY <1>3, <1>4

\* An acceptance finds a seat and, if it is the last, will close the post.
LEMMA AcceptBegins ==
  ASSUME SeatInv, SerialOrganizer, NEW w \in Workers, NEW u \in Users,
         BeginAccept(w, u)
  PROVE  (CountsStayGood /\ WithinCapacity)'
<1> DEFINE fills == CountAccepted + 1 >= post.capacity /\ post.status # "CLOSED"
           obj == [Idle.object EXCEPT !.status =
                      IF fills THEN "CLOSED" ELSE "RECRUITING"]
           dirty == IF fills THEN {"status"} ELSE {}
           r == [op |-> "accept", user |-> u, loaded |-> NoRow,
                 object |-> obj, dirty |-> dirty]
<1>1. /\ Begin(w, "accept", u, NoRow, obj, dirty)
      /\ OrganizerFree /\ row[u].status = "APPLIED"
      /\ CountAccepted < post.capacity
  BY DEF BeginAccept
<1>2. fills => obj.status = "CLOSED" /\ dirty = {"status"}
  BY IdleType DEF Post
<1>3. ~fills => dirty = {}
  OBVIOUS
<1>4. CountAccepted + 1 < post.capacity \/ WriteColumns(r).status = "CLOSED"
  <2>1. CASE fills
    BY <2>1, <1>2 DEF WriteColumns
  <2>2. CASE ~fills
    <3>1. CountAccepted + 1 < post.capacity \/ post.status = "CLOSED"
      BY <2>2, AcceptedFinite DEF SeatInv, RowInv, TypeOK, Post, Capacities
    <3>2. WriteColumns(r).status = post.status
      BY <2>2 DEF WriteColumns
    <3>3. QED
      BY <3>1, <3>2
  <2>3. QED
    BY <2>1, <2>2
<1> HIDE DEF obj, dirty
<1>5. QED
  BY <1>1, <1>4, OrganizerBegins DEF OrganizerOps

\* An update that changes the capacity counted the accepted participants.
LEMMA UpdateBegins ==
  ASSUME SeatInv, SerialOrganizer, NEW w \in Workers, NEW new \in Post,
         BeginUpdate(w, new)
  PROVE  (CountsStayGood /\ WithinCapacity)'
<1> DEFINE dirty == {c \in Columns : new[c] # post[c]}
           r == [op |-> "update", user |-> NoUser, loaded |-> NoRow,
                 object |-> new, dirty |-> dirty]
<1>1. /\ Begin(w, "update", NoUser, NoRow, new, dirty)
      /\ OrganizerFree /\ stage = "live"
      /\ "capacity" \in dirty => new.capacity >= CountAccepted
  BY DEF BeginUpdate
<1>2. CountAccepted <= post.capacity
  BY <1>1 DEF SeatInv, WithinCapacity
<1>3. CountAccepted <= WriteColumns(r).capacity
  BY <1>1, <1>2, AcceptedFinite
  DEF WriteColumns, SeatInv, RowInv, TypeOK, Post, Capacities
<1> HIDE DEF dirty
<1>4. QED
  BY <1>1, <1>3, OrganizerBegins DEF OrganizerOps

\* The acceptance in flight is the author's only request, so nothing else
\* relies on the count it raises.
LEMMA AcceptCommits ==
  ASSUME SeatInv, NEW w \in Workers, CommitAccept(w)
  PROVE  (CountsStayGood /\ WithinCapacity)'
<1>1. /\ stage = "live" /\ stage' = "live"
      /\ CountAccepted' <= CountAccepted + 1
  BY AcceptAdds DEF SeatInv
<1>2. /\ req[w].op = "accept" /\ post' = WriteColumns(req[w])
      /\ req' = [req EXCEPT ![w] = Idle]
  BY DEF CommitAccept, Finish
<1>3. post'.capacity = post.capacity
  BY <1>2 DEF SeatInv, RowInv, RequestShape, WriteColumns
<1>4. CountAccepted < post.capacity
  BY <1>1, <1>2 DEF SeatInv, CountsStayGood
<1>5. WithinCapacity'
  BY <1>1, <1>3, <1>4, AcceptedFinite
  DEF WithinCapacity, SeatInv, RowInv, TypeOK, Post, Capacities
<1>6. \A v \in Workers : req'[v].op \notin OrganizerOps
  BY <1>2 DEF SeatInv, RowInv, TypeOK, CountsStayGood, OrganizerOps, Idle
<1>7. CountsStayGood'
  BY <1>6 DEF CountsStayGood, OrganizerOps
<1>8. QED
  BY <1>5, <1>7

\* Nobody was accepted since, so the new capacity fits them still.
LEMMA UpdateCommits ==
  ASSUME SeatInv, NEW w \in Workers, CommitUpdate(w)
  PROVE  (CountsStayGood /\ WithinCapacity)'
<1>1. /\ req[w].op = "update" /\ stage = "live" /\ post' = WriteColumns(req[w])
      /\ req' = [req EXCEPT ![w] = Idle]
      /\ UNCHANGED <<stage, row>>
  BY DEF CommitUpdate, Finish
<1>2. CountAccepted' = CountAccepted
  BY <1>1 DEF CountAccepted, Accepted
<1>3. WithinCapacity'
  BY <1>1, <1>2 DEF SeatInv, CountsStayGood, WithinCapacity
<1>4. \A v \in Workers : req'[v].op \notin OrganizerOps
  BY <1>1 DEF SeatInv, RowInv, TypeOK, CountsStayGood, OrganizerOps, Idle
<1>5. CountsStayGood'
  BY <1>4 DEF CountsStayGood, OrganizerOps
<1>6. QED
  BY <1>3, <1>5

\* With the post its participants go.
LEMMA PostGoes ==
  ASSUME SeatInv, stage' = "deleted", req' = req \/ \E w \in Workers : Finish(w)
  PROVE  (CountsStayGood /\ WithinCapacity)'
  BY DEF SeatInv, RowInv, TypeOK, Finish, Idle, CountsStayGood, WithinCapacity,
     OrganizerOps

\* A new post has no request in flight and nobody accepted.
LEMMA PostAppears ==
  ASSUME SeatInv, NEW c \in Capacities, NEW d \in Days, CreatePost(c, d)
  PROVE  (CountsStayGood /\ WithinCapacity)'
<1>1. /\ stage = "absent" /\ post'.capacity = c /\ UNCHANGED <<row, req>>
  BY DEF CreatePost, NewPost
<1>2. CountAccepted' = 0
  BY <1>1, FS_EmptySet
  DEF SeatInv, RowInv, NoOrphanRows, CountAccepted, Accepted
<1>3. QED
  BY <1>1, <1>2
  DEF SeatInv, RowInv, RequestShape, CountsStayGood, WithinCapacity, OrganizerOps,
      Capacities

\* Every step keeps the seats and the counts in flight good.
LEMMA SeatInvStep ==
  ASSUME SeatInv, RowInv', SerialOrganizer, [Next]_vars
  PROVE  (CountsStayGood /\ WithinCapacity)'
<1>1. ASSUME NEW w \in Workers, NEW u \in Users,
             BeginApply(w, u) \/ BeginCancel(w, u)
      PROVE (CountsStayGood /\ WithinCapacity)'
  BY <1>1, BeginKeeps DEF BeginApply, BeginCancel, Ops, OrganizerOps
<1>2. ASSUME NEW w \in Workers, NEW u \in Users, BeginReject(w, u)
      PROVE (CountsStayGood /\ WithinCapacity)'
  BY <1>2, OrganizerBegins DEF BeginReject, OrganizerOps
<1>3. ASSUME NEW w \in Workers, BeginDelete(w)
      PROVE (CountsStayGood /\ WithinCapacity)'
  BY <1>3, BeginKeeps DEF BeginDelete, Ops, OrganizerOps
<1>4. ASSUME NEW w \in Workers, CommitNewApplication(w) \/ CommitReapplication(w)
      PROVE (CountsStayGood /\ WithinCapacity)'
  BY <1>4, FreeingKeeps
  DEF CommitNewApplication, CommitReapplication, SeatInv, RowInv, TypeOK
<1>5. ASSUME NEW w \in Workers, CommitCancel(w)
      PROVE (CountsStayGood /\ WithinCapacity)'
  BY <1>5, FreeingKeeps DEF CommitCancel, SeatInv, RowInv, TypeOK, Row
<1>6. ASSUME NEW w \in Workers, CommitReject(w)
      PROVE (CountsStayGood /\ WithinCapacity)'
  <2>1. CountAccepted' <= CountAccepted
    BY <1>6, FewerAccepted DEF CommitReject, SeatInv, RowInv, TypeOK
  <2>2. \A v \in Workers : req'[v].op \notin OrganizerOps
    BY <1>6
    DEF CommitReject, Finish, SeatInv, RowInv, TypeOK, CountsStayGood,
        OrganizerOps, Idle
  <2>3. QED
    BY <1>6, <2>1, <2>2, AcceptedFinite
    DEF CommitReject, SeatInv, RowInv, TypeOK, Post, Capacities, CountsStayGood,
        WithinCapacity, OrganizerOps
<1>7. ASSUME NEW w \in Workers, CommitFails(w)
      PROVE (CountsStayGood /\ WithinCapacity)'
  BY <1>7, FreeingKeeps DEF CommitFails
<1>8. ASSUME NEW w \in Workers, CommitDelete(w)
      PROVE (CountsStayGood /\ WithinCapacity)'
  BY <1>8, PostGoes DEF CommitDelete, DropPost
<1>9. ASSUME NEW u \in Users, WithdrawApplicant(u)
      PROVE (CountsStayGood /\ WithinCapacity)'
  BY <1>9, FreeingKeeps DEF WithdrawApplicant, SeatInv, RowInv, TypeOK, NoRow
<1>10. CASE WithdrawAuthor
  BY <1>10, PostGoes DEF WithdrawAuthor, DropPost
<1>11. CASE NextDay \/ UNCHANGED vars
  BY <1>11, FreeingKeeps DEF NextDay, vars
<1>12. QED
  BY <1>1, <1>2, <1>3, <1>4, <1>5, <1>6, <1>7, <1>8, <1>9, <1>10, <1>11,
     AcceptBegins, UpdateBegins, AcceptCommits, UpdateCommits, PostAppears
  DEF Next

\* The strengthened invariant holds of every behaviour.
LEMMA SeatInvariant == SerialOrganizer => (Spec => [](TypeOK /\ SeatInv))
<1> SUFFICES ASSUME SerialOrganizer PROVE Spec => [](TypeOK /\ SeatInv)
  OBVIOUS
<1>1. Init /\ TypeOK => SeatInv
  BY RowInvInit, SeatInvInit DEF RowInv, SeatInv
<1>2. SeatInv /\ TypeOK' /\ [Next]_vars => SeatInv'
  BY RowInvStep, SeatInvStep DEF SeatInv
<1>3. QED
  BY <1>1, <1>2, TypeCorrect, PTL DEF Spec

\* No post is overbooked while its author waits for each answer before
\* sending the next decision or update, whatever everyone else does.
THEOREM SerialOrganizerWithinCapacity ==
  SerialOrganizer => (Spec => [](WithinCapacity /\ CountsStayGood))
<1>1. SeatInv => WithinCapacity /\ CountsStayGood
  BY DEF SeatInv
<1>2. QED
  BY <1>1, SeatInvariant, PTL

\* Under the same condition the seats that a decision or an update in flight
\* has counted are still enough when it commits.
THEOREM SerialOrganizerCountsStayGood ==
  SerialOrganizer => (Spec => []CountsStayGood)
<1>1. QED
  BY SerialOrganizerWithinCapacity, PTL

\* No other commit makes a user accepted.
LEMMA OnlyAcceptAccepts ==
  ASSUME RowInv, [Next]_vars, NEW u \in Users,
         row[u].status # "ACCEPTED", row'[u].status = "ACCEPTED"
  PROVE  \E w \in Workers : CommitAccept(w)
<1> SUFFICES ASSUME \A w \in Workers : ~CommitAccept(w)
             PROVE  row'[u].status # "ACCEPTED"
  OBVIOUS
<1>1. CASE row' = row
  BY <1>1
<1>2. ASSUME NEW w \in Workers,
             \/ CommitNewApplication(w) \/ CommitReapplication(w)
             \/ CommitCancel(w) \/ CommitReject(w)
      PROVE  row'[u].status # "ACCEPTED"
  BY <1>2
  DEF CommitNewApplication, CommitReapplication, CommitCancel, CommitReject, RowInv,
      TypeOK, Row
<1>3. CASE \/ \E w \in Workers : CommitDelete(w)
           \/ \E v \in Users : WithdrawApplicant(v)
           \/ WithdrawAuthor
  BY <1>3 DEF CommitDelete, WithdrawApplicant, WithdrawAuthor, DropPost, NoRow,
     RowInv, TypeOK
<1>4. QED
  BY <1>1, <1>2, <1>3
  DEF Next, vars, CreatePost, BeginApply, BeginCancel, BeginAccept, BeginReject,
      BeginUpdate, BeginDelete, Begin, CommitUpdate, CommitFails, NextDay

\* Under the same condition the acceptance that takes the last seat closes
\* the post, also when seats were freed since it counted.
THEOREM SerialOrganizerFillingCloses == SerialOrganizer => (Spec => FillingCloses)
<1> SUFFICES ASSUME SerialOrganizer PROVE Spec => FillingCloses
  OBVIOUS
<1>1. ASSUME SeatInv, SeatInv', [Next]_vars, NEW u \in Users,
             row[u].status # "ACCEPTED", row'[u].status = "ACCEPTED",
             Cardinality({v \in Users : row'[v].status = "ACCEPTED"})
                >= post'.capacity
      PROVE  post'.status = "CLOSED"
  <2>1. PICK w \in Workers : CommitAccept(w)
    BY <1>1, OnlyAcceptAccepts DEF SeatInv
  <2>2. /\ stage = "live" /\ CountAccepted' <= CountAccepted + 1
        /\ req[w].op = "accept" /\ post' = WriteColumns(req[w])
    BY <2>1, <1>1, AcceptAdds DEF SeatInv, CommitAccept
  <2>3. post'.capacity = post.capacity
    BY <2>2, <1>1 DEF SeatInv, RowInv, RequestShape, WriteColumns
  <2>4. CountAccepted' >= post.capacity
    BY <1>1, <2>3 DEF CountAccepted, Accepted
  <2>5. ~(CountAccepted + 1 < post.capacity)
    BY <1>1, <2>2, <2>4, AcceptedFinite
    DEF SeatInv, RowInv, TypeOK, Post, Capacities
  <2>6. QED
    BY <1>1, <2>2, <2>5 DEF SeatInv, CountsStayGood
<1>2. SeatInv /\ SeatInv' /\ [Next]_vars
        => [\A u \in Users :
              /\ row[u].status # "ACCEPTED" /\ row'[u].status = "ACCEPTED"
              /\ Cardinality({v \in Users : row'[v].status = "ACCEPTED"})
                    >= post'.capacity
              => post'.status = "CLOSED"]_vars
  BY <1>1
<1>3. QED
  BY <1>2, SeatInvariant, PTL DEF Spec, FillingCloses

\* A decision in flight finds its application undecided, so no decision
\* reverses another one while the author sends them one at a time.
THEOREM SerialOrganizerDecisionStands == SerialOrganizer => (Spec => DecisionStands)
<1> SUFFICES ASSUME SerialOrganizer PROVE Spec => DecisionStands
  OBVIOUS
<1>1. ASSUME SeatInv, [Next]_vars, NEW u \in Users,
             row[u].status = "REJECTED", row'[u].status = "ACCEPTED"
      PROVE  FALSE
  <2>1. PICK w \in Workers : CommitAccept(w)
    BY <1>1, OnlyAcceptAccepts DEF SeatInv
  <2>2. u = req[w].user
    BY <1>1, <2>1, AcceptAdds DEF SeatInv, Accepted
  <2>3. QED
    BY <1>1, <2>1, <2>2, AcceptAdds DEF CommitAccept, SeatInv, CountsStayGood
<1>2. ASSUME SeatInv, [Next]_vars, NEW u \in Users,
             row[u].status = "ACCEPTED", row'[u].status = "REJECTED"
      PROVE  FALSE
  <2>1. row' # row
    BY <1>2
  <2>2. ASSUME NEW w \in Workers, CommitReject(w) PROVE FALSE
    <3>1. /\ req[w].op = "reject" /\ req[w].user \in Users
          /\ row' = [row EXCEPT ![req[w].user] = [status |-> "REJECTED",
                                                  responded |-> TRUE]]
      BY <1>2, <2>2 DEF CommitReject, SeatInv, RowInv, RequestShape
    <3>2. row[req[w].user].status \notin {"none", "ACCEPTED"} /\ u = req[w].user
      BY <1>2, <2>2, <3>1
      DEF CommitReject, SeatInv, RowInv, TypeOK, NoOrphanRows, CountsStayGood
    <3>3. QED
      BY <1>2, <3>2
  <2>3. ASSUME NEW w \in Workers,
               \/ CommitNewApplication(w) \/ CommitReapplication(w)
               \/ CommitCancel(w) \/ CommitAccept(w) \/ CommitDelete(w)
        PROVE FALSE
    BY <1>2, <2>3
    DEF CommitNewApplication, CommitReapplication, CommitCancel, CommitAccept,
        CommitDelete, DropPost, NoRow, SeatInv, RowInv, TypeOK, Row
  <2>4. CASE WithdrawAuthor \/ \E v \in Users : WithdrawApplicant(v)
    BY <1>2, <2>4
    DEF WithdrawAuthor, WithdrawApplicant, DropPost, NoRow, SeatInv, RowInv, TypeOK
  <2>5. QED
    BY <1>2, <2>1, <2>2, <2>3, <2>4
    DEF Next, vars, CreatePost, BeginApply, BeginCancel, BeginAccept, BeginReject,
        BeginUpdate, BeginDelete, Begin, CommitUpdate, CommitFails, NextDay
<1>3. ASSUME SeatInv, [Next]_vars, NEW u \in Users
      PROVE  {row[u].status, row'[u].status} # {"ACCEPTED", "REJECTED"}
  BY <1>1, <1>2, <1>3
<1>4. SeatInv /\ [Next]_vars
        => [\A u \in Users : {row[u].status, row'[u].status}
                                # {"ACCEPTED", "REJECTED"}]_vars
  BY <1>3
<1>5. QED
  BY <1>4, SeatInvariant, PTL DEF Spec, DecisionStands

-----------------------------------------------------------------------------
(* Refinement: every commit is a SeatBoard step or leaves its state alone. *)

\* Counting the next state is counting in the next state.
LEMMA SameCardinality == ASSUME NEW S PROVE Seats!Cardinality(S) = Cardinality(S)
  BY DEF Cardinality, Seats!Cardinality

\* Every step is a step of SeatBoard or changes nothing there.
LEMMA SeatStep ==
  ASSUME SeatInv, SeatInv', [Next]_vars
  PROVE  [Seats!Next]_<<stage = "live", Accepted, post.capacity>>
<1> DEFINE seatVars == <<stage = "live", Accepted, post.capacity>>
<1>1. ASSUME NEW c \in Capacities, NEW d \in Days, CreatePost(c, d)
      PROVE Seats!Publish(c)
  BY <1>1 DEF CreatePost, NewPost, Accepted, Seats!Publish
<1>2. ASSUME NEW u \in Users, UNCHANGED <<stage, post>>,
             row' = [row EXCEPT ![u] = row'[u]], row'[u].status # "ACCEPTED"
      PROVE Seats!Leave(u)
  BY <1>2 DEF Accepted, Seats!Leave, SeatInv, RowInv, TypeOK
<1>3. ASSUME NEW w \in Workers,
             \/ CommitNewApplication(w) \/ CommitReapplication(w)
             \/ CommitCancel(w) \/ CommitReject(w)
      PROVE Seats!Leave(req[w].user)
  <2>1. req[w].user \in Users
    BY <1>3 DEF CommitNewApplication, CommitReapplication, CommitCancel,
       CommitReject, SeatInv, RowInv, RequestShape
  <2>2. QED
    BY <1>2, <1>3, <2>1 DEF CommitNewApplication, CommitReapplication, CommitCancel,
       CommitReject, SeatInv, RowInv, TypeOK, Row
<1>4. ASSUME NEW u \in Users, WithdrawApplicant(u) PROVE Seats!Leave(u)
  BY <1>2, <1>4 DEF WithdrawApplicant, NoRow, SeatInv, RowInv, TypeOK
<1>5. ASSUME NEW w \in Workers, CommitAccept(w)
      PROVE Seats!Admit(req[w].user) \/ UNCHANGED seatVars
  <2>1. /\ stage = "live" /\ stage' = "live" /\ req[w].user \in Users
        /\ Accepted' = Accepted \cup {req[w].user}
    BY <1>5, AcceptAdds DEF SeatInv
  <2>2. req[w].op = "accept" /\ post'.capacity = post.capacity
    BY <1>5 DEF CommitAccept, WriteColumns, SeatInv, RowInv, RequestShape
  <2>3. Cardinality(Accepted) < post.capacity
    BY <2>1, <2>2 DEF SeatInv, CountsStayGood, CountAccepted
  <2>4. CASE req[w].user \in Accepted
    BY <2>1, <2>2, <2>4
  <2>5. CASE req[w].user \notin Accepted
    <3>1. UNCHANGED <<stage = "live", post.capacity>>
      BY <2>1, <2>2
    <3>2. Seats!Admit(req[w].user)
      BY <2>1, <2>3, <2>5, <3>1, SameCardinality DEF Seats!Admit
    <3>3. QED
      BY <3>2
  <2>6. QED
    BY <2>4, <2>5
<1>6. ASSUME NEW w \in Workers, CommitUpdate(w)
      PROVE Seats!Resize(post'.capacity) /\ post'.capacity \in 1..MaxCapacity
  <2>1. /\ stage = "live" /\ stage' = stage /\ row' = row
        /\ req[w].op = "update" /\ post' = WriteColumns(req[w])
    BY <1>6 DEF CommitUpdate
  <2>2. Cardinality(Accepted) <= post'.capacity
    BY <2>1 DEF SeatInv, CountsStayGood, CountAccepted
  <2>3. UNCHANGED <<stage = "live", Accepted>>
    BY <2>1 DEF Accepted
  <2>4. post'.capacity \in 1..MaxCapacity
    BY DEF SeatInv, RowInv, TypeOK, Post, Capacities
  <2>5. QED
    BY <2>1, <2>2, <2>3, <2>4, SameCardinality DEF Seats!Resize
<1>7. ASSUME WithdrawAuthor \/ \E w \in Workers : CommitDelete(w)
      PROVE Seats!Remove
  BY <1>7
  DEF WithdrawAuthor, CommitDelete, DropPost, NoRow, Accepted, Idle, NewPost,
      Seats!Remove
<1>8. CASE UNCHANGED <<stage, post, row>>
  BY <1>8 DEF Accepted
<1>9. ASSUME NEW w \in Workers,
             \/ CommitNewApplication(w) \/ CommitReapplication(w)
             \/ CommitCancel(w) \/ CommitReject(w) \/ CommitAccept(w)
      PROVE req[w].user \in Users
  BY <1>9 DEF CommitNewApplication, CommitReapplication, CommitCancel, CommitReject,
     CommitAccept, SeatInv, RowInv, RequestShape
<1>10. QED
  BY <1>1, <1>3, <1>4, <1>5, <1>6, <1>7, <1>8, <1>9
  DEF Next, vars, BeginApply, BeginCancel, BeginAccept, BeginReject, BeginUpdate,
      BeginDelete, Begin, CommitFails, NextDay, Seats!Next, Capacities

\* Whatever requests are interleaved, the seats change as SeatBoard allows.
THEOREM ImplementsSeats == SerialOrganizer => (Spec => ImplementsSeatBoard)
<1> SUFFICES ASSUME SerialOrganizer PROVE Spec => ImplementsSeatBoard
  OBVIOUS
<1>1. Init => Seats!Init
  BY DEF Init, NewPost, NoRow, Accepted, Seats!Init
<1>2. SeatInv /\ SeatInv' /\ [Next]_vars => [Seats!Next]_(Seats!seatVars)
  BY SeatStep DEF Seats!seatVars
<1>3. QED
  BY <1>1, <1>2, SeatInvariant, PTL DEF Spec, ImplementsSeatBoard, Seats!Spec
=============================================================================
