-------------------------------- MODULE SignUp --------------------------------
(***************************************************************************)
(* Becoming a member: the pages for signing up and for a new password      *)
(* (frontend/app/login/page.tsx), and the codes that the backend mails and *)
(* compares (backend/app/services/auth.py).  A request for a code is split *)
(* where another may come between: its row, its mail and its commit; so is *)
(* the comparison of a code: its read and its commit.                      *)
(***************************************************************************)
EXTENDS Integers, Sequences, FiniteSets, FiniteSetsExt

CONSTANTS Pages, Emails, NoEmail,
          MaxAttempts,   \* verification_max_attempts (5)
          MaxCodes,      \* bound: codes ever asked for
          MaxTurns,      \* bound: changes of mode and steps back
          MaxFaults      \* bound: calls that fail for no reason of their own

ASSUME SignUpAssumption ==
    /\ NoEmail \notin Emails
    /\ MaxAttempts \in Nat \ {0} /\ MaxCodes \in Nat
    /\ MaxTurns \in Nat /\ MaxFaults \in Nat

VARIABLES mode, step, draft,   \* per page: mode, registerStep, registerWizardDraft
          resetEmail, pending, \* per page
          calls,               \* calls under way
          codes,               \* email_verifications, by id
          users,               \* addresses that have an account
          mail,                \* the last code mailed for an address and a purpose
          turns, faults,       \* counters of the bounds
          switched,            \* history: the mode changed during a step's call
          crossed              \* history: codes asked for at the same time

form == <<mode, step, draft, resetEmail>>
history == <<switched, crossed>>
vars == <<form, pending, calls, codes, users, mail, turns, faults, history>>

Purposes == {"SIGNUP", "PASSWORD_RESET"}
Parts == {"consent", "profile", "password"}
PartsBefore == [s \in 0..4 |-> CASE s = 0 -> {} [] s = 1 -> {"consent"}
                                 [] s = 2 -> {"consent", "profile"} [] OTHER -> Parts]
NoDraft == [done |-> {}, email |-> NoEmail]

(* A call, of which the page hears unless fetch rejects; code is what the user
   types, row and tries what the backend has read. *)
NewCall(p, op, email, code) ==
    [page |-> p, op |-> op, at |-> "sent", email |-> email, code |-> code,
     row |-> 0, tries |-> 0, heard |-> TRUE,
     done |-> IF op = "confirm" THEN draft[p].done ELSE {}]

Key(c) == <<c.email, IF c.op \in {"address", "confirm"} THEN "SIGNUP"
                     ELSE "PASSWORD_RESET">>
RowsOf(key) == {i \in DOMAIN codes : codes[i].key = key}
Open(key) == {i \in RowsOf(key) : codes[i].status = "open"}
Received(key) == {i \in RowsOf(key) : codes[i].status \in {"pending", "used", "expired"}}
                 \cup ({mail[key]} \ {0})

(* Mutant: the oldest. *)
OldestPending(key) ==
    LET open == {i \in RowsOf(key) : codes[i].status \in {"pending", "expired"}}
    IN  IF open = {} THEN 0 ELSE Min(open)

(* find_latest_pending_verification: the codes already used do not count, those
   expired do. *)
LatestPending(key) ==
    Max({0} \cup {i \in RowsOf(key) : codes[i].status \in {"pending", "expired"}})

Init ==
    /\ mode = [p \in Pages |-> "login"] /\ step = [p \in Pages |-> 0]
    /\ draft = [p \in Pages |-> NoDraft]
    /\ resetEmail = [p \in Pages |-> NoEmail]
    /\ pending = [p \in Pages |-> FALSE]
    /\ calls = {} /\ codes = <<>> /\ users \in SUBSET Emails
    /\ mail = [key \in Emails \X Purposes |-> 0]
    /\ turns = 0 /\ faults = 0
    /\ switched = [p \in Pages |-> FALSE] /\ crossed = {}

-----------------------------------------------------------------------------
(* The page. *)

Turn == turns < MaxTurns /\ turns' = turns + 1

(* changeMode, by a tab that is never disabled: the answer to a call under way
   will be taken all the same. *)
ChangeMode(p, m) ==
    /\ mode[p] # "gone" /\ Turn
    /\ mode' = [mode EXCEPT ![p] = m]
    /\ draft' = [draft EXCEPT ![p] = NoDraft]
    /\ step' = [step EXCEPT ![p] = 0]
    /\ switched' = [switched EXCEPT ![p] =
         \E c \in calls : c.page = p /\ c.heard /\ c.op \in {"profile", "address"}]
    /\ UNCHANGED <<resetEmail, pending, calls, codes, users, mail, faults, crossed>>

(* The button for the step before, while a call is pending too *)
Back(p) ==
    /\ mode[p] = "register" /\ step[p] > 0 /\ Turn
    /\ step' = [step EXCEPT ![p] = @ - 1]
    /\ UNCHANGED <<mode, draft, resetEmail, pending, calls, codes, users, mail,
                   faults, history>>

Registering(p, s) == mode[p] = "register" /\ step[p] = s /\ ~pending[p]

(* submitRegisterStep where it asks nobody: consent and password *)
Fill(p) ==
    /\ \E s \in {0, 2} :
         /\ Registering(p, s)
         /\ draft' = [draft EXCEPT ![p].done =
                        @ \cup {IF s = 0 THEN "consent" ELSE "password"}]
         /\ step' = [step EXCEPT ![p] = s + 1]
    /\ UNCHANGED <<mode, resetEmail, pending, calls, codes, users, mail, turns,
                   faults, history>>

Submit(c) ==
    /\ calls' = calls \cup {c} /\ pending' = [pending EXCEPT ![c.page] = TRUE]
    /\ UNCHANGED <<form, codes, users, mail, turns, faults, history>>

RoomForCode ==          \* bound
    Len(codes) + Cardinality({c \in calls : /\ c.op \in {"address", "reset"}
                                            /\ c.at \in {"sent", "free"}}) < MaxCodes

SubmitLogin(p) ==
    /\ mode[p] = "login" /\ ~pending[p] /\ Submit(NewCall(p, "login", NoEmail, 0))

SubmitProfile(p) == Registering(p, 1) /\ Submit(NewCall(p, "profile", NoEmail, 0))

SubmitAddress(p, e) ==
    /\ Registering(p, 3) /\ RoomForCode /\ Submit(NewCall(p, "address", e, 0))

(* confirmRegisterWizard: with a code from a mail, or one that is wrong *)
SubmitCode(p, code) ==
    /\ Registering(p, 4) /\ code \in {0} \cup Received(<<draft[p].email, "SIGNUP">>)
    /\ Submit(NewCall(p, "confirm", draft[p].email, code))

RequestReset(p, e) ==
    /\ mode[p] = "reset" /\ ~pending[p] /\ resetEmail[p] = NoEmail /\ RoomForCode
    /\ Submit(NewCall(p, "reset", e, 0))

ConfirmReset(p, code) ==
    /\ mode[p] = "reset" /\ ~pending[p] /\ resetEmail[p] # NoEmail
    /\ code \in {0} \cup Received(<<resetEmail[p], "PASSWORD_RESET">>)
    /\ Submit(NewCall(p, "password", resetEmail[p], code))

OtherAddress(p) ==
    /\ mode[p] = "reset" /\ resetEmail[p] # NoEmail
    /\ resetEmail' = [resetEmail EXCEPT ![p] = NoEmail]
    /\ UNCHANGED <<mode, step, draft, pending, calls, codes, users, mail, turns,
                   faults, history>>

-----------------------------------------------------------------------------
(* The backend. *)

Replace(c, d) == calls' = (calls \ {c}) \cup {d}
Goes(c, at) == Replace(c, [c EXCEPT !.at = at])

(* The request is over; nobody may be there to hear of it. *)
Ends(c, at) ==
    IF c.heard THEN Replace(c, [c EXCEPT !.at = at, !.code = 0, !.row = 0, !.tries = 0])
    ELSE calls' = calls \ {c}

Served == UNCHANGED <<form, pending, turns, faults, switched>>

(* The availability of a nickname or an address, as it is now; login, whose
   outcome depends on the password *)
CheckFree(c) ==
    /\ c.at = "sent"
    /\ \/ c.op \in {"profile", "login"} /\ \E at \in {"done", "failed"} : Ends(c, at)
       \/ c.op = "address" /\ Ends(c, IF c.email \in users THEN "failed" ELSE "free")
    /\ UNCHANGED <<codes, users, mail, crossed>> /\ Served

(* request_verification: the row gets its id ... *)
CreateCode(c) ==
    /\ <<c.op, c.at>> \in {<<"address", "free">>, <<"reset", "sent">>}
    /\ IF c.op = "reset" /\ c.email \notin users
       THEN Ends(c, "done") /\ UNCHANGED <<codes, crossed>>
       ELSE LET row == Len(codes) + 1
            IN  /\ codes' = Append(codes, [key |-> Key(c), status |-> "open", tries |-> 0])
                /\ Replace(c, [c EXCEPT !.at = "flushed", !.row = row])
                /\ crossed' = crossed \cup (IF Open(Key(c)) = {} THEN {}
                                            ELSE Open(Key(c)) \cup {row})
    /\ UNCHANGED <<users, mail>> /\ Served

(* ... is mailed ... *)
SendMail(c) ==
    /\ c.at = "flushed"
    /\ mail' = [mail EXCEPT ![Key(c)] = c.row]
    /\ Goes(c, "mailed")
    /\ UNCHANGED <<codes, users, crossed>> /\ Served

(* ... and committed. *)
CommitCode(c) ==
    /\ c.at = "mailed"
    /\ codes' = [codes EXCEPT ![c.row].status = "pending"]
    /\ Ends(c, "done")
    /\ UNCHANGED <<users, mail, crossed>> /\ Served

(* Mutant: as often as one likes. *)
ReadCodeAnyTry(c) ==
    /\ c.op \in {"confirm", "password"} /\ c.at = "sent"
    /\ LET row == LatestPending(Key(c))
       IN  IF row = 0 \/ codes[row].status = "expired"
           THEN Ends(c, "failed")
           ELSE Replace(c, [c EXCEPT !.at = "read", !.row = row, !.tries = codes[row].tries])
    /\ UNCHANGED <<codes, users, mail, crossed>> /\ Served

(* _find_verification up to the comparison *)
ReadCode(c) ==
    /\ c.op \in {"confirm", "password"} /\ c.at = "sent"
    /\ LET row == LatestPending(Key(c))
       IN  IF row = 0 \/ codes[row].tries >= MaxAttempts \/ codes[row].status = "expired"
           THEN Ends(c, "failed")
           ELSE Replace(c, [c EXCEPT !.at = "read", !.row = row,
                                              !.tries = codes[row].tries])
    /\ UNCHANGED <<codes, users, mail, crossed>> /\ Served

(* confirm_verification, reset_password: used, or one more attempt than read *)
CommitVerdict(c) ==
    /\ c.at = "read"
    /\ IF c.code = c.row
       THEN /\ codes' = [codes EXCEPT ![c.row].status = "used"]
            /\ Ends(c, IF c.op = "confirm" THEN "verified" ELSE "done")
       ELSE /\ codes' = [codes EXCEPT ![c.row].tries = c.tries + 1]
            /\ Ends(c, "failed")
    /\ UNCHANGED <<users, mail, crossed>> /\ Served

(* register, which the page calls with the token: what is missing in the draft
   or has an account is refused; so may the nickname be. *)
Register(c) ==
    /\ c.at = "verified"
    /\ \/ /\ c.done = Parts /\ c.email \notin users
          /\ users' = users \cup {c.email} /\ Ends(c, "registered")
       \/ UNCHANGED users /\ Ends(c, "failed")
    /\ UNCHANGED <<codes, mail, crossed>> /\ Served

(* The adapter logs in and asks for the profile. *)
LogIn(c) ==
    /\ c.at = "registered" /\ Ends(c, "done")
    /\ UNCHANGED <<codes, users, mail, crossed>> /\ Served

Expire(i) ==
    /\ codes[i].status = "pending" /\ codes' = [codes EXCEPT ![i].status = "expired"]
    /\ UNCHANGED <<calls, users, mail, crossed>> /\ Served

-----------------------------------------------------------------------------
(* Failures. *)

Fault == faults < MaxFaults /\ faults' = faults + 1
RolledBack(c) == IF c.at \in {"flushed", "mailed"}
                 THEN [codes EXCEPT ![c.row].status = "lost"] ELSE codes

(* Mail, database or proxy: the page is told. *)
CallFails(c) ==
    /\ c.at # "failed" /\ Fault
    /\ codes' = RolledBack(c) /\ Ends(c, "failed")
    /\ UNCHANGED <<form, pending, users, mail, turns, history>>

(* fetch rejects.  What the backend has begun goes on, and so may a request
   with an effect that it has yet to begin.  The two handlers for a new password
   have no `finally`: the page stays pending. *)
Begun(c) == c.at \in {"flushed", "mailed", "read"}
GoesOn(c) == \/ Begun(c) \/ c.at \in {"free", "verified"}
             \/ c.at = "sent" /\ c.op \in {"confirm", "reset", "password"}

CallThrows(c) ==
    /\ c.heard /\ c.at # "failed" /\ Fault
    /\ \/ ~Begun(c) /\ calls' = calls \ {c}
       \/ GoesOn(c) /\ Replace(c, [c EXCEPT !.heard = FALSE])
    /\ IF c.op \in {"reset", "password"}
       THEN UNCHANGED pending
       ELSE pending' = [pending EXCEPT ![c.page] = FALSE]
    /\ UNCHANGED <<form, codes, users, mail, turns, switched, crossed>>

-----------------------------------------------------------------------------
(* Answers, as the page takes them: the mode may be another by now. *)

Answer(c) ==
    /\ calls' = calls \ {c} /\ pending' = [pending EXCEPT ![c.page] = FALSE]
    /\ UNCHANGED <<codes, users, mail, turns, faults, history>>

ProfileAnswered(c) ==
    /\ c.op = "profile" /\ c.at = "done" /\ Answer(c)
    /\ draft' = [draft EXCEPT ![c.page].done = @ \cup {"profile"}]
    /\ step' = [step EXCEPT ![c.page] = @ + 1]
    /\ UNCHANGED <<mode, resetEmail>>

AddressAnswered(c) ==
    /\ c.op = "address" /\ c.at = "done" /\ Answer(c)
    /\ draft' = [draft EXCEPT ![c.page].email = c.email]
    /\ step' = [step EXCEPT ![c.page] = 4]
    /\ UNCHANGED <<mode, resetEmail>>

(* router.push *)
Welcomed(c) ==
    /\ c.op \in {"login", "confirm"} /\ c.at = "done" /\ Answer(c)
    /\ mode' = [mode EXCEPT ![c.page] = "gone"]
    /\ step' = [step EXCEPT ![c.page] = 0]
    /\ draft' = [draft EXCEPT ![c.page] = NoDraft]
    /\ resetEmail' = [resetEmail EXCEPT ![c.page] = NoEmail]

ResetRequested(c) ==
    /\ c.op = "reset" /\ c.at = "done" /\ Answer(c)
    /\ resetEmail' = [resetEmail EXCEPT ![c.page] = c.email]
    /\ UNCHANGED <<mode, step, draft>>

ResetConfirmed(c) ==
    /\ c.op = "password" /\ c.at = "done" /\ Answer(c)
    /\ mode' = [mode EXCEPT ![c.page] = "login"]
    /\ resetEmail' = [resetEmail EXCEPT ![c.page] = NoEmail]
    /\ UNCHANGED <<step, draft>>

FailureAnswered(c) == c.at = "failed" /\ Answer(c) /\ UNCHANGED form

-----------------------------------------------------------------------------
PageNext(p) ==
    \/ \E m \in {"login", "register", "reset"} : ChangeMode(p, m)
    \/ Back(p) \/ Fill(p) \/ OtherAddress(p) \/ SubmitLogin(p) \/ SubmitProfile(p)
    \/ \E e \in Emails : SubmitAddress(p, e) \/ RequestReset(p, e)
    \/ \E code \in 0..Len(codes) : SubmitCode(p, code) \/ ConfirmReset(p, code)

Serve(c) ==
    \/ CheckFree(c) \/ CreateCode(c) \/ SendMail(c) \/ CommitCode(c)
    \/ ReadCode(c) \/ CommitVerdict(c) \/ Register(c) \/ LogIn(c)
Answered(c) ==
    \/ ProfileAnswered(c) \/ AddressAnswered(c) \/ Welcomed(c)
    \/ ResetRequested(c) \/ ResetConfirmed(c) \/ FailureAnswered(c)

Next ==
    \/ \E p \in Pages : PageNext(p)
    \/ \E c \in calls : Serve(c) \/ Answered(c) \/ CallFails(c) \/ CallThrows(c)
    \/ \E i \in DOMAIN codes : Expire(i)

Spec == Init /\ [][Next]_vars

-----------------------------------------------------------------------------
IsCall(c) ==
    /\ c.page \in Pages
    /\ c.op \in {"login", "profile", "address", "confirm", "reset", "password"}
    /\ c.at \in {"sent", "free", "flushed", "mailed", "read", "verified",
                 "registered", "done", "failed"}
    /\ c.op \notin {"login", "profile"} => c.email \in Emails
    /\ c.code \in 0..Len(codes) /\ c.row \in 0..Len(codes)
    /\ c.tries \in 0..(MaxAttempts - 1) /\ c.done \subseteq Parts

TypeOK ==
    /\ mode \in [Pages -> {"login", "register", "reset", "gone"}]
    /\ step \in [Pages -> 0..4]
    /\ draft \in [Pages -> [done : SUBSET Parts, email : Emails \cup {NoEmail}]]
    /\ resetEmail \in [Pages -> Emails \cup {NoEmail}]
    /\ pending \in [Pages -> BOOLEAN]
    /\ \A c \in calls : IsCall(c)
    /\ codes \in Seq([key : Emails \X Purposes, tries : 0..MaxAttempts,
                      status : {"open", "pending", "used", "expired", "lost"}])
    /\ Len(codes) <= MaxCodes
    /\ users \subseteq Emails
    /\ mail \in [Emails \X Purposes -> 0..Len(codes)]

(* A page at a step of the sign-up has all that the steps before it ask for,  *)
(* whatever was pressed while a call was under way, unless the mode was       *)
(* changed meanwhile (login/page.tsx:93, 94).  A page that asks for the code  *)
(* has one to wait for: the last mailed to its address is the one that the    *)
(* backend compares, whoever else asked for codes for it before or failed to, *)
(* unless two requests for a code overlapped, or it has been used, has        *)
(* expired or was mailed for nothing (services/auth.py:83).                   *)
ReadyToConfirm ==
    \A p \in Pages :
        /\ ~switched[p] => PartsBefore[step[p]] \subseteq draft[p].done
        /\ step[p] = 4 =>
             LET key == <<draft[p].email, "SIGNUP">>
                 last == mail[key]
             IN  /\ last # 0
                 /\ (last \notin crossed /\ codes[last].status = "pending") =>
                      LatestPending(key) = last

=============================================================================
