---------------------------- MODULE Recruitment ----------------------------
(***************************************************************************)
(* The recruitment board (services/community.py) for one post.  Every      *)
(* endpoint is a synchronous function run by a thread of FastAPI's pool on *)
(* a database session of its own.  A request therefore has two atomic      *)
(* parts: a consistent read of the post and of the participants (InnoDB's  *)
(* default REPEATABLE READ), on which it validates, and one commit, which  *)
(* writes only the columns it changed and takes no lock before it.         *)
(* Everything of other requests may happen between the two.  A request     *)
(* that validation turns down changes nothing and is not a step.           *)
(***************************************************************************)
EXTENDS Naturals, FiniteSets

CONSTANTS Users,            \* the users who may apply; the author is not one
          Workers,          \* threads of the pool that serve requests
          NoUser,
          MaxCapacity,      \* bound on recruit_capacity
          MaxDay,           \* bound on the calendar
          SerialOrganizer   \* the author's client awaits each answer

ASSUME RecruitmentAssumption ==
    /\ IsFiniteSet(Users)
    /\ NoUser \notin Users
    /\ MaxCapacity \in Nat \ {0}
    /\ MaxDay \in Nat \ {0}
    /\ SerialOrganizer \in BOOLEAN

VARIABLES stage,        \* is there a row in board_posts?
          post,         \* its recruiting columns
          row,          \* post_participants, unique per user
          registered,   \* applicants with a row in users
          today,
          req           \* what each thread has loaded and will write

vars == <<stage, post, row, registered, today, req>>

Days == 1..MaxDay
Capacities == 1..MaxCapacity
RecruitStatus == {"RECRUITING", "CLOSED"}
Columns == {"status", "capacity", "deadline"}
Post == [status: RecruitStatus, capacity: Capacities, deadline: Days]

Row == [status: {"none", "APPLIED", "ACCEPTED", "REJECTED", "CANCELED"},
        responded: BOOLEAN]
NoRow == [status |-> "none", responded |-> FALSE]

OrganizerOps == {"accept", "reject", "update"}
Ops == {"idle", "apply", "cancel", "delete"} \cup OrganizerOps

\* "object" is the post as the session sees it after the handler's
\* assignments and "dirty" the columns the flush will write.
Request == [op: Ops, user: Users \cup {NoUser}, loaded: Row,
            object: Post, dirty: SUBSET Columns]

NewPost(c, d) == [status |-> "RECRUITING", capacity |-> c, deadline |-> d]

Idle == [op |-> "idle", user |-> NoUser, loaded |-> NoRow,
         object |-> NewPost(1, 1), dirty |-> {}]

Accepted == {u \in Users : row[u].status = "ACCEPTED"}
CountAccepted == Cardinality(Accepted)

TypeOK ==
    /\ stage \in {"absent", "live", "deleted"}
    /\ post \in Post
    /\ row \in [Users -> Row]
    /\ registered \in SUBSET Users
    /\ today \in Days
    /\ req \in [Workers -> Request]

Init ==
    /\ stage = "absent"
    /\ post = NewPost(1, 1)
    /\ row = [u \in Users |-> NoRow]
    /\ registered = Users
    /\ today = 1
    /\ req = [w \in Workers |-> Idle]

-----------------------------------------------------------------------------
(* The reading half of each handler. *)

OrganizerFree ==
    SerialOrganizer => \A w \in Workers : req[w].op \notin OrganizerOps

Begin(w, op, u, loaded, object, dirty) ==
    /\ req[w].op = "idle"
    /\ req' = [req EXCEPT ![w] = [op |-> op, user |-> u, loaded |-> loaded,
                                  object |-> object, dirty |-> dirty]]
    /\ UNCHANGED <<stage, post, row, registered, today>>

\* apply_to_post: RECRUIT_CLOSED, RECRUIT_FULL, PARTICIPANT_ALREADY_EXISTS.
\* The access token outlives the account, so u need not be registered.
BeginApply(w, u) ==
    /\ stage = "live"
    /\ post.status = "RECRUITING"
    /\ post.deadline >= today
    /\ CountAccepted < post.capacity
    /\ row[u].status \notin {"APPLIED", "ACCEPTED"}
    /\ Begin(w, "apply", u, row[u], Idle.object, {})

BeginCancel(w, u) ==
    /\ row[u].status \in {"APPLIED", "ACCEPTED"}
    /\ Begin(w, "cancel", u, NoRow, Idle.object, {})

\* Mutants of BeginAccept: a full post still accepts one; the last seat is
\* missed by one; a decided application is decided again; nothing closes.
BeginAcceptPastFull(w, u) ==
    /\ OrganizerFree /\ stage = "live"
    /\ row[u].status = "APPLIED"
    /\ CountAccepted <= post.capacity
    /\ Begin(w, "accept", u, NoRow, Idle.object, {})

BeginAcceptClosesLate(w, u) ==
    LET fills == CountAccepted >= post.capacity /\ post.status # "CLOSED"
    IN /\ OrganizerFree /\ stage = "live"
       /\ row[u].status = "APPLIED"
       /\ CountAccepted < post.capacity
       /\ Begin(w, "accept", u, NoRow,
                [Idle.object EXCEPT !.status =
                     IF fills THEN "CLOSED" ELSE "RECRUITING"],
                IF fills THEN {"status"} ELSE {})

BeginAcceptDecided(w, u) ==
    LET fills == CountAccepted + 1 >= post.capacity /\ post.status # "CLOSED"
    IN /\ OrganizerFree /\ stage = "live"
       /\ row[u].status \in {"APPLIED", "REJECTED"}
       /\ CountAccepted < post.capacity
       /\ Begin(w, "accept", u, NoRow,
                [Idle.object EXCEPT !.status =
                     IF fills THEN "CLOSED" ELSE "RECRUITING"],
                IF fills THEN {"status"} ELSE {})

BeginAcceptNeverCloses(w, u) ==
    /\ OrganizerFree /\ stage = "live"
    /\ row[u].status = "APPLIED"
    /\ CountAccepted < post.capacity
    /\ Begin(w, "accept", u, NoRow, Idle.object, {})

\* decide_participant(ACCEPTED): the last seat also closes the post; an
\* assignment that repeats the loaded value is not written.
BeginAccept(w, u) ==
    LET fills == CountAccepted + 1 >= post.capacity /\ post.status # "CLOSED"
    IN /\ OrganizerFree
       /\ stage = "live"
       /\ row[u].status = "APPLIED"
       /\ CountAccepted < post.capacity
       /\ Begin(w, "accept", u, NoRow,
                [Idle.object EXCEPT !.status =
                     IF fills THEN "CLOSED" ELSE "RECRUITING"],
                IF fills THEN {"status"} ELSE {})

BeginReject(w, u) ==
    /\ OrganizerFree
    /\ stage = "live"
    /\ row[u].status = "APPLIED"
    /\ Begin(w, "reject", u, NoRow, Idle.object, {})

\* Mutant of BeginUpdate: the accepted participants are not counted.
BeginUpdateUncounted(w, new) ==
    LET dirty == {c \in Columns : new[c] # post[c]}
    IN /\ OrganizerFree /\ stage = "live" /\ dirty # {}
       /\ Begin(w, "update", NoUser, NoRow, new, dirty)

\* update_post: any subset of the columns (PATCH); only those whose value
\* differs from the loaded one are written.
BeginUpdate(w, new) ==
    LET dirty == {c \in Columns : new[c] # post[c]}
    IN /\ OrganizerFree
       /\ stage = "live"
       /\ dirty # {}
       /\ "capacity" \in dirty => new.capacity >= CountAccepted
       /\ Begin(w, "update", NoUser, NoRow, new, dirty)

\* delete_post by the author, delete_post_as_admin by an administrator.
BeginDelete(w) ==
    /\ stage = "live"
    /\ Begin(w, "delete", NoUser, NoRow, Idle.object, {})

-----------------------------------------------------------------------------
(* The committing half. *)

Finish(w) == req' = [req EXCEPT ![w] = Idle]

\* The UPDATE of board_posts that the flush emits for r.
WriteColumns(r) ==
    [status   |-> IF "status" \in r.dirty THEN r.object.status ELSE post.status,
     capacity |-> IF "capacity" \in r.dirty THEN r.object.capacity
                                            ELSE post.capacity,
     deadline |-> IF "deadline" \in r.dirty THEN r.object.deadline
                                            ELSE post.deadline]

\* Mutant of CommitNewApplication: no foreign key to the post.
CommitNewApplicationUnchecked(w) ==
    LET r == req[w]
    IN /\ r.op = "apply" /\ r.loaded.status = "none"
       /\ r.user \in registered
       /\ row[r.user].status = "none"
       /\ row' = [row EXCEPT ![r.user] = [status |-> "APPLIED",
                                          responded |-> FALSE]]
       /\ Finish(w)
       /\ UNCHANGED <<stage, post, registered, today>>

\* No application was loaded: INSERT, under uk_post_participants and the
\* foreign keys to the post and to the user.
CommitNewApplication(w) ==
    LET r == req[w]
    IN /\ r.op = "apply" /\ r.loaded.status = "none"
       /\ stage = "live" /\ r.user \in registered
       /\ row[r.user].status = "none"
       /\ row' = [row EXCEPT ![r.user] = [status |-> "APPLIED",
                                          responded |-> FALSE]]
       /\ Finish(w)
       /\ UNCHANGED <<stage, post, registered, today>>

\* A rejected or canceled one was: UPDATE; responded_at is cleared only if
\* the loaded row had it.
CommitReapplication(w) ==
    LET r == req[w]
    IN /\ r.op = "apply" /\ r.loaded.status # "none"
       /\ row[r.user].status # "none"
       /\ row' = [row EXCEPT ![r.user] =
                      [status |-> "APPLIED",
                       responded |-> @.responded /\ ~r.loaded.responded]]
       /\ Finish(w)
       /\ UNCHANGED <<stage, post, registered, today>>

CommitCancel(w) ==
    LET r == req[w]
    IN /\ r.op = "cancel"
       /\ row[r.user].status # "none"
       /\ row' = [row EXCEPT ![r.user].status = "CANCELED"]
       /\ Finish(w)
       /\ UNCHANGED <<stage, post, registered, today>>

CommitAccept(w) ==
    LET r == req[w]
    IN /\ r.op = "accept"
       /\ row[r.user].status # "none"
       /\ row' = [row EXCEPT ![r.user] = [status |-> "ACCEPTED",
                                          responded |-> TRUE]]
       /\ post' = WriteColumns(r)
       /\ Finish(w)
       /\ UNCHANGED <<stage, registered, today>>

CommitReject(w) ==
    LET r == req[w]
    IN /\ r.op = "reject"
       /\ row[r.user].status # "none"
       /\ row' = [row EXCEPT ![r.user] = [status |-> "REJECTED",
                                          responded |-> TRUE]]
       /\ Finish(w)
       /\ UNCHANGED <<stage, post, registered, today>>

CommitUpdate(w) ==
    /\ req[w].op = "update"
    /\ stage = "live"
    /\ post' = WriteColumns(req[w])
    /\ Finish(w)
    /\ UNCHANGED <<stage, row, registered, today>>

\* The post's row goes and the database cascades to its participants.
DropPost ==
    /\ stage' = "deleted"
    /\ post' = Idle.object
    /\ row' = [u \in Users |-> NoRow]

CommitDelete(w) ==
    /\ req[w].op = "delete"
    /\ stage = "live"
    /\ DropPost
    /\ Finish(w)
    /\ UNCHANGED <<registered, today>>

\* The row to update or delete has gone (StaleDataError), or the INSERT
\* breaks a unique or foreign key (IntegrityError): 500, rolled back.  A
\* delete that meets no row is only warned of and answered 204: no state differs.
CommitFails(w) ==
    LET r == req[w]
    IN /\ r.op # "idle"
       /\ CASE r.op = "apply" /\ r.loaded.status = "none" ->
                 \/ stage # "live" \/ r.user \notin registered
                 \/ row[r.user].status # "none"
            [] r.op \in {"update", "delete"} -> stage # "live"
            [] OTHER -> row[r.user].status = "none"
       /\ Finish(w)
       /\ UNCHANGED <<stage, post, row, registered, today>>

-----------------------------------------------------------------------------
\* Mutant of CreatePost: the request's lower bound on the capacity is 0.
CreatePostFromZero(c, d) ==
    /\ stage = "absent"
    /\ stage' = "live"
    /\ post' = NewPost(c - 1, d)
    /\ UNCHANGED <<row, registered, today, req>>

CreatePost(c, d) ==
    /\ stage = "absent"
    /\ stage' = "live"
    /\ post' = NewPost(c, d)
    /\ UNCHANGED <<row, registered, today, req>>

\* users.withdraw: the user's row and, by cascade, what belongs to it.
WithdrawApplicant(u) ==
    /\ u \in registered
    /\ registered' = registered \ {u}
    /\ row' = [row EXCEPT ![u] = NoRow]
    /\ UNCHANGED <<stage, post, today, req>>

WithdrawAuthor ==
    /\ stage = "live"
    /\ DropPost
    /\ UNCHANGED <<registered, today, req>>

NextDay ==
    /\ today < MaxDay
    /\ today' = today + 1
    /\ UNCHANGED <<stage, post, row, registered, req>>

Next ==
    \/ \E c \in Capacities, d \in Days : CreatePost(c, d)
    \/ \E w \in Workers, u \in Users :
          \/ BeginApply(w, u) \/ BeginCancel(w, u)
          \/ BeginAccept(w, u) \/ BeginReject(w, u)
    \/ \E w \in Workers, new \in Post : BeginUpdate(w, new)
    \/ \E w \in Workers :
          \/ BeginDelete(w)
          \/ CommitNewApplication(w) \/ CommitReapplication(w)
          \/ CommitCancel(w) \/ CommitAccept(w) \/ CommitReject(w)
          \/ CommitUpdate(w) \/ CommitDelete(w) \/ CommitFails(w)
    \/ \E u \in Users : WithdrawApplicant(u)
    \/ WithdrawAuthor
    \/ NextDay

Spec == Init /\ [][Next]_vars

-----------------------------------------------------------------------------
(* What the board promises. *)

\* The accepted participants fit the capacity (db/README.md:181,
\* RECRUIT_FULL and RECRUIT_CAPACITY_TOO_LOW).  A decision and an update each
\* count the accepted rows before they commit; applications, cancellations
\* and withdrawals of any number of users run in between.
WithinCapacity == stage = "live" => CountAccepted <= post.capacity

DecidedHaveResponse ==
    \A u \in Users :
        row[u].status \in {"ACCEPTED", "REJECTED"} => row[u].responded

NoOrphanRows ==
    \A u \in Users :
        row[u].status # "none" => stage = "live" /\ u \in registered

\* The participant lists sort decided applications by responded_at
\* (list_participating_posts): an accepted or rejected one has it, whichever
\* stale session wrote the row last.  And a participant's row exists only
\* under a post that exists and for a user that exists, although sessions that
\* loaded the row or the post before the deletion or the withdrawal commit
\* after it.
RowsConsistent == DecidedHaveResponse /\ NoOrphanRows

\* An acceptance that takes the last seat leaves the post CLOSED
\* (backend/TESTING.md:121), whatever happened since the seats were counted.
FillingCloses ==
    [][\A u \in Users :
          /\ row[u].status # "ACCEPTED" /\ row'[u].status = "ACCEPTED"
          /\ Cardinality({v \in Users : row'[v].status = "ACCEPTED"})
                >= post'.capacity
          => post'.status = "CLOSED"]_vars

\* A decision is not reversed by another one (PARTICIPANT_NOT_PENDING):
\* rejected applicants are accepted, and accepted ones rejected, only after
\* a new application.
DecisionStands ==
    [][\A u \in Users :
          {row[u].status, row'[u].status} # {"ACCEPTED", "REJECTED"}]_vars

\* Why those hold: with the author's requests one at a time, what a decision
\* or an update in flight counted stays good until it commits, because every
\* other request can only free seats.  The seat is still there, a commit that
\* takes the last one closes the post, a new capacity still fits, and the
\* application has not been decided the other way.
CountsStayGood ==
    /\ \A v, w \in Workers :
          req[v].op \in OrganizerOps /\ req[w].op \in OrganizerOps => v = w
    /\ \A w \in Workers :
          LET r == req[w]
          IN stage = "live" =>
             /\ r.op = "accept" =>
                   /\ CountAccepted < post.capacity
                   /\ \/ CountAccepted + 1 < post.capacity
                      \/ WriteColumns(r).status = "CLOSED"
             /\ r.op = "update" => CountAccepted <= WriteColumns(r).capacity
             /\ r.op = "accept" => row[r.user].status # "REJECTED"
             /\ r.op = "reject" => row[r.user].status # "ACCEPTED"

\* To the participants the board is SeatBoard: when the author's requests come
\* one at a time, each commit grants, frees or resizes seats as SeatBoard
\* would in one step, or changes nothing there.
Seats == INSTANCE SeatBoard WITH
            listed <- stage = "live",
            members <- Accepted,
            seats <- post.capacity

ImplementsSeatBoard == Seats!Spec
=============================================================================
