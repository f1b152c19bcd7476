------------------------ MODULE BrowserSessionProofs ------------------------
(***************************************************************************)
(* What an ended session and a renewal leave behind, for any number of     *)
(* tabs, accounts, tokens and calls in flight.                             *)
(***************************************************************************)
EXTENDS BrowserSession, TLAPS

-----------------------------------------------------------------------------
(* Calls. *)

Ops == {"refresh", "login", "logout", "close"}
Stages == {"sent", "granted", "refused", "me"}

\* The fields of a call.
LEMMA CallFields ==
  ASSUME NEW c \in Call
  PROVE  /\ c.tab \in Tabs /\ c.op \in Ops /\ c.at \in Stages
         /\ c.account \in SomeAccount /\ c.arg \in Tokens \cup {NoToken}
         /\ c.late \in BOOLEAN
  BY DEF Call, Ops, Stages

\* A call that moves on stays the call of its tab.
LEMMA Moved ==
  ASSUME NEW c \in Call, NEW at \in Stages, NEW arg \in Tokens \cup {NoToken}
  PROVE  LET d == [c EXCEPT !.at = at, !.arg = arg]
         IN  /\ d \in Call /\ d.tab = c.tab /\ d.op = c.op /\ d.late = c.late
             /\ d.at = at /\ d.arg = arg /\ d.account = c.account
  BY DEF Call, Stages

\* So does one that is granted a token ...
LEMMA Granted ==
  ASSUME NEW c \in Call, NEW a \in SomeAccount, NEW arg \in Tokens \cup {NoToken}
  PROVE  LET d == [c EXCEPT !.at = "granted", !.account = a, !.arg = arg]
         IN  /\ d \in Call /\ d.tab = c.tab /\ d.op = c.op /\ d.late = c.late
             /\ d.at = "granted" /\ d.arg = arg /\ d.account = a
  BY DEF Call

\* ... and one the page no longer waits for.
LEMMA Belated ==
  ASSUME NEW c \in Call
  PROVE  LET d == [c EXCEPT !.late = TRUE]
         IN  /\ d \in Call /\ d.tab = c.tab /\ d.op = c.op /\ d.late = TRUE
             /\ d.at = c.at /\ d.arg = c.arg /\ d.account = c.account
  BY DEF Call

\* A call that is sent is a call.
LEMMA Sent ==
  ASSUME NEW t \in Tabs, NEW op \in Ops, NEW a \in SomeAccount,
         NEW arg \in Tokens \cup {NoToken}
  PROVE  [tab |-> t, op |-> op, at |-> "sent", account |-> a, arg |-> arg,
          late |-> FALSE] \in Call
  BY DEF Call, Ops

\* The accounts that the backend keeps, and its numbers.
LEMMA Bounds == /\ MaxTokens \in Nat \ {0} /\ 1 \in Tokens
                /\ \A k \in Tokens : k \in Nat /\ k # NoToken
                /\ NoToken \notin Tokens /\ NoAccount \notin Accounts
                /\ \A k \in 0..MaxTokens : k < MaxTokens => k + 1 \in Tokens /\ k + 1 \in 0..MaxTokens
  BY SessionAssumption DEF Tokens, NoToken

-----------------------------------------------------------------------------
(* The invariant. *)

\* A refresh brings a token; a login is of an account; only they wait for
\* /users/me, and nothing the page has given up does.
Fits(c) ==
    /\ c.op = "refresh" => c.arg \in Tokens
    /\ c.op = "login" => c.account \in Accounts
    /\ c.at = "me" => c.op \in {"refresh", "login"} /\ ~c.late
CallsFit == \A c \in calls : Fits(c)

\* A session that was ended has left neither a timer nor an answer that
\* could bring one back.
EndedQuiet ==
    \A t \in Tabs : ended[t] =>
        status[t] = "anonymous" /\ ~timer[t] /\ ~Arriving(t)

-----------------------------------------------------------------------------
(* Types. *)

\* The parts of TypeOK that belong to the page, the backend and the calls
PageType ==
    /\ status \in [Tabs -> {"loading", "authenticated", "anonymous"}]
    /\ user \in [Tabs -> SomeAccount]
    /\ due \in [Tabs -> BOOLEAN] /\ timer \in [Tabs -> BOOLEAN]
BackendType == live \in [Tokens -> SomeAccount] /\ issued \in 0..MaxTokens
HistoryType == ended \in [Tabs -> BOOLEAN] /\ calm \in BOOLEAN /\ last \in {"kept", "removed"}

LEMMA TypeParts ==
  /\ TypeOK <=> /\ PageType /\ BackendType /\ HistoryType
                /\ stored \in Tokens \cup {NoToken} /\ calls \subseteq Call
  /\ TypeOK' <=> /\ PageType' /\ BackendType' /\ HistoryType'
                 /\ stored' \in Tokens \cup {NoToken} /\ calls' \subseteq Call
  BY DEF TypeOK, PageType, BackendType, HistoryType

\* A page that becomes anonymous, or gets a session, has values it may have.
LEMMA AnonymousType ==
  ASSUME PageType, NEW t \in Tabs, Anonymous(t)
  PROVE  /\ status' \in [Tabs -> {"loading", "authenticated", "anonymous"}]
         /\ user' \in [Tabs -> SomeAccount]
  BY DEF PageType, Anonymous, SomeAccount

LEMMA AuthenticatedType ==
  ASSUME PageType, NEW t \in Tabs, NEW a \in SomeAccount, Authenticated(t, a)
  PROVE  PageType'
  BY DEF PageType, Authenticated

\* A refresh that starts, or is refused for want of a token, is well typed.
LEMMA RefreshType ==
  ASSUME TypeOK, NEW t \in Tabs, Refresh(t)
  PROVE  /\ status' \in [Tabs -> {"loading", "authenticated", "anonymous"}]
         /\ user' \in [Tabs -> SomeAccount]
         /\ calls' \subseteq Call /\ calm' \in BOOLEAN
  <1>0. PageType /\ calls \subseteq Call /\ calm \in BOOLEAN /\ stored \in Tokens \cup {NoToken}
    BY TypeParts DEF HistoryType
  <1>1. CASE stored = NoToken
    BY <1>0, <1>1, AnonymousType DEF Refresh
  <1>2. CASE stored # NoToken
    <2>1. NoAccount \in SomeAccount /\ "refresh" \in Ops
      BY DEF SomeAccount, Ops
    <2>2. [tab |-> t, op |-> "refresh", at |-> "sent", account |-> NoAccount,
           arg |-> stored, late |-> FALSE] \in Call
      BY <1>0, <2>1, Sent
    <2>3. Start(t, "refresh", NoAccount, stored) /\ UNCHANGED <<status, user>>
      BY <1>2 DEF Refresh
    <2> QED
      BY <1>0, <2>2, <2>3 DEF Start, PageType
  <1> QED
    BY <1>1, <1>2

\* What a token that is issued does to the types.
LEMMA IssueType ==
  ASSUME TypeOK, NEW c \in calls, NEW a \in SomeAccount, Issue(c, a)
  PROVE  BackendType' /\ calls' \subseteq Call
  <1>1. c \in Call /\ calls \subseteq Call /\ BackendType
    BY TypeParts
  <1>2. issued + 1 \in Tokens /\ issued + 1 \in 0..MaxTokens
    BY <1>1, Bounds DEF Issue, BackendType
  <1>3. [c EXCEPT !.at = "granted", !.account = a, !.arg = issued + 1] \in Call
    BY <1>1, <1>2, Granted
  <1>4. live' \in [Tokens -> SomeAccount]
    BY <1>1 DEF Issue, BackendType, SomeAccount
  <1> QED
    BY <1>1, <1>2, <1>3, <1>4 DEF Issue, BackendType

\* One call is replaced by another, or by none.
LEMMA CallsType ==
  ASSUME TypeOK, NEW c \in calls, NEW at \in Stages, NEW arg \in Tokens \cup {NoToken},
         Done(c) \/ Becomes(c, at, arg)
  PROVE  calls' \subseteq Call
  <1>1. c \in Call /\ calls \subseteq Call
    BY TypeParts
  <1>2. [c EXCEPT !.at = at, !.arg = arg] \in Call
    BY <1>1, Moved
  <1> QED
    BY <1>1, <1>2 DEF Done, Becomes

\* A step of a page keeps the types.
LEMMA PageKeepsTypes ==
  ASSUME TypeOK, NEW t \in Tabs, PageNext(t)
  PROVE  TypeOK'
  <1>0. /\ PageType /\ BackendType /\ HistoryType /\ stored \in Tokens \cup {NoToken}
        /\ calls \subseteq Call /\ NoAccount \in SomeAccount /\ Accounts \subseteq SomeAccount
        /\ NoToken \in Tokens \cup {NoToken} /\ {"logout", "close", "login"} \subseteq Ops
    BY TypeParts DEF SomeAccount, Ops
  <1>1. CASE Load(t) \/ BecomesVisible(t)
    <2>1. Refresh(t) /\ UNCHANGED <<due, timer, stored, backend, ended, last>>
      BY <1>1 DEF Load, BecomesVisible
    <2> QED
      BY <1>0, <2>1, RefreshType, TypeParts DEF PageType, BackendType, HistoryType, backend
  <1>2. CASE TimerFires(t)
    <2>1. CASE Refreshing(t)
      BY <1>0, <1>2, <2>1, TypeParts
         DEF TimerFires, PageType, BackendType, HistoryType, backend
    <2>2. CASE ~Refreshing(t)
      <3>1. Refresh(t) /\ UNCHANGED <<due, stored, backend, ended, last>>
            /\ timer' = [timer EXCEPT ![t] = FALSE]
        BY <1>2, <2>2 DEF TimerFires
      <3> QED
        BY <1>0, <3>1, RefreshType, TypeParts DEF PageType, BackendType, HistoryType, backend
    <2> QED
      BY <2>1, <2>2
  <1>3. CASE Reload(t)
    BY <1>0, <1>3, TypeParts
       DEF Reload, PageType, BackendType, HistoryType, backend, SomeAccount
  <1>4. ASSUME NEW a \in Accounts, Login(t, a)
        PROVE  TypeOK'
    <2>1. [tab |-> t, op |-> "login", at |-> "sent", account |-> a, arg |-> NoToken,
           late |-> FALSE] \in Call
      BY <1>0, Sent
    <2>2. calls' \subseteq Call /\ calm' \in BOOLEAN
      BY <1>0, <1>4, <2>1 DEF Login, Start, HistoryType
    <2> QED
      BY <1>0, <1>4, <2>2, TypeParts
         DEF Login, PageType, BackendType, HistoryType, page, backend
  <1>5. ASSUME NEW op \in {"logout", "close"}, Use(t, op)
        PROVE  TypeOK'
    <2>0. user[t] \in SomeAccount /\ op \in Ops
      BY <1>0 DEF PageType
    <2>1. [tab |-> t, op |-> op, at |-> "sent", account |-> user[t], arg |-> NoToken,
           late |-> FALSE] \in Call
      BY <1>0, <2>0, Sent
    <2>2. calls' \subseteq Call /\ calm' \in BOOLEAN
      BY <1>0, <1>5, <2>1 DEF Use, Start, HistoryType
    <2> QED
      BY <1>0, <1>5, <2>2, TypeParts
         DEF Use, PageType, BackendType, HistoryType, page, backend
  <1> QED
    BY <1>1, <1>2, <1>3, <1>4, <1>5 DEF PageNext

\* A step of a call keeps the types.
LEMMA CallKeepsTypes ==
  ASSUME TypeOK, CallsFit, NEW c \in calls, Serve(c) \/ Answered(c) \/ Fails(c)
  PROVE  TypeOK'
  <1>0. /\ PageType /\ BackendType /\ HistoryType /\ stored \in Tokens \cup {NoToken}
        /\ calls \subseteq Call /\ c \in Call /\ NoAccount \in SomeAccount
        /\ NoToken \in Tokens \cup {NoToken} /\ Stages = {"sent", "granted", "refused", "me"}
    BY TypeParts DEF SomeAccount, Stages
  <1>c. /\ c.tab \in Tabs /\ c.account \in SomeAccount /\ c.arg \in Tokens \cup {NoToken}
        /\ c.at \in Stages
    BY <1>0, CallFields
  <1>1. CASE ServeRefresh(c)
    <2>1. CASE live[c.arg] # NoAccount /\ c.arg \in Tokens
      <3>1. live[c.arg] \in SomeAccount /\ Issue(c, live[c.arg])
        BY <1>0, <1>1, <2>1 DEF ServeRefresh, BackendType
      <3> QED
        BY <1>0, <1>1, <3>1, IssueType, TypeParts
           DEF ServeRefresh, PageType, HistoryType, page, history
    <2>2. c.arg \in Tokens
      BY <1>1 DEF CallsFit, Fits, ServeRefresh
    <2>3. CASE live[c.arg] = NoAccount
      <3>1. Becomes(c, "refused", c.arg) /\ UNCHANGED backend
        BY <1>1, <2>3 DEF ServeRefresh
      <3>2. calls' \subseteq Call
        BY <1>0, <1>c, <3>1, CallsType
      <3> QED
        BY <1>0, <1>1, <3>1, <3>2, TypeParts
           DEF ServeRefresh, PageType, HistoryType, BackendType, page, history, backend
    <2> QED
      BY <2>1, <2>2, <2>3
  <1>2. CASE ServeLogin(c)
    <2>1. BackendType' /\ calls' \subseteq Call
      BY <1>c, <1>2, IssueType DEF ServeLogin
    <2> QED
      BY <1>0, <1>2, <2>1, TypeParts DEF ServeLogin, PageType, HistoryType, page, history
  <1>3. CASE ServeEnd(c)
    <2>1. calls' \subseteq Call
      BY <1>0, <1>c, <1>3, CallsType DEF ServeEnd
    <2>2. live' \in [Tokens -> SomeAccount]
      BY <1>0, <1>3 DEF ServeEnd, BackendType
    <2> QED
      BY <1>0, <1>3, <2>1, <2>2, TypeParts
         DEF ServeEnd, PageType, HistoryType, BackendType, page, history
  <1>4. CASE Refuse(c)
    BY <1>0, <1>4, TypeParts
       DEF Refuse, PageType, HistoryType, BackendType, page, history, backend
  <1>5. CASE KeepToken(c)
    <2>1. calls' \subseteq Call
      BY <1>0, <1>c, <1>5, CallsType DEF KeepToken
    <2> QED
      BY <1>0, <1>c, <1>5, <2>1, TypeParts
         DEF KeepToken, PageType, HistoryType, BackendType, page, backend
  <1>6. CASE TakeSession(c)
    <2>1. PageType'
      BY <1>0, <1>c, <1>6, AuthenticatedType DEF TakeSession
    <2> QED
      BY <1>0, <1>6, <2>1, TypeParts
         DEF TakeSession, Done, HistoryType, BackendType, history, backend
  <1>7. CASE RefreshRefused(c)
    <2>1. PageType'
      BY <1>0, <1>c, <1>7, AnonymousType DEF RefreshRefused, PageType
    <2> QED
      BY <1>0, <1>7, <2>1, TypeParts
         DEF RefreshRefused, Done, HistoryType, BackendType, history, backend
  <1>8. CASE SessionEnds(c)
    <2>1. PageType'
      BY <1>0, <1>c, <1>8, AnonymousType DEF SessionEnds, PageType
    <2>2. HistoryType'
      BY <1>0, <1>c, <1>8 DEF SessionEnds, HistoryType
    <2> QED
      BY <1>0, <1>8, <2>1, <2>2, TypeParts
         DEF SessionEnds, Done, BackendType, backend
  <1>9. CASE AnswerFails(c)
    <2>1. calls' \subseteq Call
      BY <1>0, <1>c, <1>9, CallsType DEF AnswerFails
    <2> QED
      BY <1>0, <1>9, <2>1, TypeParts
         DEF AnswerFails, Fault, PageType, HistoryType, BackendType, page, backend
  <1>10. CASE MeFails(c) \/ CallThrows(c)
    <2>1. GivenUp(c) /\ Done(c) /\ calm' = FALSE
          /\ UNCHANGED <<due, timer, stored, backend, ended, last>>
      BY <1>10 DEF MeFails, CallThrows, Fault
    <2>2. PageType'
      BY <1>0, <1>c, <2>1, AnonymousType DEF GivenUp, PageType
    <2> QED
      BY <1>0, <2>1, <2>2, TypeParts DEF Done, HistoryType, BackendType, backend
  <1>11. CASE TimeOut(c)
    <2>1. PageType'
      BY <1>0, <1>c, <1>11, AnonymousType DEF TimeOut, PageType
    <2>2. [c EXCEPT !.late = TRUE] \in Call
      BY <1>0, Belated
    <2>3. calls' \subseteq Call
      BY <1>0, <1>11, <2>2 DEF TimeOut
    <2> QED
      BY <1>0, <1>11, <2>1, <2>3, TypeParts
         DEF TimeOut, HistoryType, BackendType, backend
  <1> QED
    BY <1>1, <1>2, <1>3, <1>4, <1>5, <1>6, <1>7, <1>8, <1>9, <1>10, <1>11
       DEF Serve, Answered, Fails

-----------------------------------------------------------------------------
(* Calls in flight. *)

\* A page sends calls that fit.
LEMMA PageCalls ==
  ASSUME TypeOK, NEW t \in Tabs, PageNext(t), NEW d \in calls'
  PROVE  d \in calls \/ (d.tab = t /\ Fits(d))
  <1>0. stored \in Tokens \cup {NoToken}
    BY TypeParts
  <1>1. ASSUME Refresh(t)
        PROVE  d \in calls \/ (d.tab = t /\ Fits(d))
    BY <1>0, <1>1 DEF Refresh, Start, Fits
  <1>2. CASE Load(t) \/ BecomesVisible(t) \/ TimerFires(t)
    BY <1>1, <1>2 DEF Load, BecomesVisible, TimerFires
  <1>3. CASE Reload(t)
    BY <1>3 DEF Reload
  <1>4. ASSUME NEW a \in Accounts, Login(t, a)
        PROVE  d \in calls \/ (d.tab = t /\ Fits(d))
    BY <1>4 DEF Login, Start, Fits
  <1>5. ASSUME NEW op \in {"logout", "close"}, Use(t, op)
        PROVE  d \in calls \/ (d.tab = t /\ Fits(d))
    BY <1>5 DEF Use, Start, Fits
  <1> QED
    BY <1>2, <1>3, <1>4, <1>5 DEF PageNext

\* A call that is served, answered or fails gives way to one that fits and
\* can bring no more than it could.
LEMMA CallSteps ==
  ASSUME TypeOK, CallsFit, NEW c \in calls, Serve(c) \/ Answered(c) \/ Fails(c),
         NEW d \in calls'
  PROVE  d \in calls \/ (d.tab = c.tab /\ d.op = c.op /\ (c.late => d.late) /\ Fits(d))
  <1> DEFINE Goal == d \in calls \/ (d.tab = c.tab /\ d.op = c.op /\ (c.late => d.late) /\ Fits(d))
  <1>0. /\ c \in Call /\ Fits(c) /\ BackendType
        /\ c.arg \in Tokens \cup {NoToken} /\ c.at \in Stages
        /\ Stages = {"sent", "granted", "refused", "me"}
    BY TypeParts, CallFields DEF CallsFit, Stages
  <1>1. ASSUME NEW at \in Stages, Becomes(c, at, c.arg),
               at = "me" => c.op \in {"refresh", "login"} /\ ~c.late
        PROVE  Goal
    <2> DEFINE e == [c EXCEPT !.at = at, !.arg = c.arg]
    <2>1. /\ e.tab = c.tab /\ e.op = c.op /\ e.late = c.late
          /\ e.at = at /\ e.arg = c.arg /\ e.account = c.account
      BY <1>0 DEF Call
    <2>2. d \in calls \/ d = e
      BY <1>1 DEF Becomes
    <2> HIDE DEF e
    <2> QED
      BY <1>0, <1>1, <2>1, <2>2 DEF Fits
  <1>2. ASSUME NEW a \in SomeAccount, Issue(c, a), c.op = "login" => a = c.account
        PROVE  Goal
    <2> DEFINE e == [c EXCEPT !.at = "granted", !.account = a, !.arg = issued + 1]
    <2>0. issued + 1 \in Tokens
      BY <1>0, <1>2, Bounds DEF Issue, BackendType
    <2>1. /\ e.tab = c.tab /\ e.op = c.op /\ e.late = c.late
          /\ e.at = "granted" /\ e.arg = issued + 1 /\ e.account = a
      BY <1>0 DEF Call
    <2>2. d \in calls \/ d = e
      BY <1>2 DEF Issue
    <2> HIDE DEF e
    <2> QED
      BY <1>0, <1>2, <2>0, <2>1, <2>2 DEF Fits
  <1>3. CASE Done(c)
    BY <1>3 DEF Done
  <1>4. CASE ServeRefresh(c)
    <2>1. CASE live[c.arg] # NoAccount
      <3>1. live[c.arg] \in SomeAccount
        BY <1>0, <1>4 DEF ServeRefresh, Fits, BackendType
      <3> QED
        BY <1>2, <1>4, <2>1, <3>1 DEF ServeRefresh
    <2>2. CASE live[c.arg] = NoAccount
      BY <1>0, <1>1, <1>4, <2>2 DEF ServeRefresh
    <2> QED
      BY <2>1, <2>2
  <1>5. CASE ServeLogin(c)
    <2>1. c.account \in SomeAccount
      BY <1>0, CallFields
    <2> QED
      BY <1>2, <1>5, <2>1 DEF ServeLogin
  <1>6. CASE ServeEnd(c) \/ KeepToken(c) \/ AnswerFails(c)
    BY <1>0, <1>1, <1>3, <1>6 DEF ServeEnd, KeepToken, AnswerFails
  <1>7. CASE Refuse(c) \/ TakeSession(c) \/ RefreshRefused(c) \/ SessionEnds(c)
                \/ MeFails(c) \/ CallThrows(c)
    BY <1>3, <1>7 DEF Refuse, Done, TakeSession, RefreshRefused, SessionEnds,
                      MeFails, CallThrows
  <1>8. CASE TimeOut(c)
    <2> DEFINE e == [c EXCEPT !.late = TRUE]
    <2>1. /\ e.tab = c.tab /\ e.op = c.op /\ e.late = TRUE
          /\ e.at = c.at /\ e.arg = c.arg /\ e.account = c.account
      BY <1>0, Belated
    <2>2. d \in calls \/ (d = e /\ c.at # "me")
      BY <1>8 DEF TimeOut
    <2> HIDE DEF e
    <2> QED
      BY <1>0, <2>1, <2>2 DEF Fits
  <1> QED
    BY <1>4, <1>5, <1>6, <1>7, <1>8 DEF Serve, Answered, Fails

\* So no call in flight does more for a tab after the step of a call.
LEMMA NothingArrives ==
  ASSUME TypeOK, CallsFit, NEW c \in calls, Serve(c) \/ Answered(c) \/ Fails(c),
         NEW t \in Tabs, Arriving(t)'
  PROVE  Arriving(t)
  <1>1. PICK d \in calls' : d.tab = t /\ d.op \in {"refresh", "login"} /\ ~d.late
    BY DEF Arriving, Ours
  <1>2. d \in calls \/ (d.tab = c.tab /\ d.op = c.op /\ (c.late => d.late) /\ Fits(d))
    BY <1>1, CallSteps
  <1> QED
    BY <1>1, <1>2 DEF Arriving, Ours

-----------------------------------------------------------------------------
(* Ended sessions. *)

Inv == TypeOK /\ CallsFit /\ EndedQuiet

LEMMA InitInv == Init => Inv
  <1> SUFFICES ASSUME Init PROVE Inv
    OBVIOUS
  <1>1. TypeOK
    BY Bounds DEF Init, TypeOK, SomeAccount, NoToken, Tokens
  <1>2. CallsFit /\ EndedQuiet
    BY DEF Init, CallsFit, EndedQuiet
  <1> QED
    BY <1>1, <1>2 DEF Inv

\* Calls keep fitting.
LEMMA CallsKeepFitting ==
  ASSUME TypeOK, CallsFit, Next
  PROVE  CallsFit'
  <1>1. ASSUME NEW t \in Tabs, PageNext(t)
        PROVE  CallsFit'
    BY <1>1, PageCalls DEF CallsFit
  <1>2. ASSUME NEW c \in calls, Serve(c) \/ Answered(c) \/ Fails(c)
        PROVE  CallsFit'
    BY <1>2, CallSteps DEF CallsFit
  <1> QED
    BY <1>1, <1>2 DEF Next

\* A step of a page leaves the other tabs alone, and ended sessions quiet.
LEMMA PageKeepsQuiet ==
  ASSUME TypeOK, EndedQuiet, NEW t \in Tabs, PageNext(t)
  PROVE  EndedQuiet'
  <1> SUFFICES ASSUME NEW u \in Tabs, ended'[u]
               PROVE  status'[u] = "anonymous" /\ ~timer'[u] /\ ~Arriving(u)'
    BY DEF EndedQuiet
  <1>0. PageType /\ HistoryType
    BY TypeParts
  <1>1. CASE u # t
    <2>1. ended[u] /\ status'[u] = status[u] /\ timer'[u] = timer[u]
      BY <1>0, <1>1 DEF PageNext, Load, TimerFires, BecomesVisible, Reload, Login, Use, Refresh,
                 Start, Anonymous, page, PageType, HistoryType
    <2>2. Arriving(u)' => Arriving(u)
      BY <1>1, PageCalls DEF Arriving, Ours
    <2> QED
      BY <2>1, <2>2 DEF EndedQuiet
  <1>2. CASE u = t
    <2>1. ended[t] => status[t] = "anonymous" /\ ~timer[t]
      BY DEF EndedQuiet
    <2>2. CASE Load(t) \/ BecomesVisible(t) \/ TimerFires(t)
      BY <1>2, <2>1, <2>2 DEF Load, BecomesVisible, TimerFires
    <2>3. CASE Reload(t)
      BY <1>0, <1>2, <2>3 DEF Reload, HistoryType
    <2>4. ASSUME NEW a \in Accounts, Login(t, a)
          PROVE  FALSE
      BY <1>0, <1>2, <2>4 DEF Login, HistoryType
    <2>5. ASSUME NEW op \in {"logout", "close"}, Use(t, op)
          PROVE  FALSE
      BY <1>2, <2>1, <2>5 DEF Use
    <2> QED
      BY <2>2, <2>3, <2>4, <2>5, <1>0, <1>2, <2>1 DEF PageNext, Reload, HistoryType
  <1> QED
    BY <1>1, <1>2

\* Nor does the step of a call bring an ended session back.
LEMMA CallKeepsQuiet ==
  ASSUME TypeOK, CallsFit, EndedQuiet,
         NEW c \in calls, Serve(c) \/ Answered(c) \/ Fails(c)
  PROVE  EndedQuiet'
  <1> SUFFICES ASSUME NEW u \in Tabs, ended'[u]
               PROVE  status'[u] = "anonymous" /\ ~timer'[u] /\ ~Arriving(u)'
    BY DEF EndedQuiet
  <1>0. PageType /\ HistoryType /\ c.tab \in Tabs /\ c \in Call /\ Fits(c)
    BY TypeParts, CallFields DEF CallsFit
  <1>1. Arriving(u)' => Arriving(u)
    BY NothingArrives
  <1>2. ended[u] => status[u] = "anonymous" /\ ~timer[u] /\ ~Arriving(u)
    BY DEF EndedQuiet
  <1>3. CASE SessionEnds(c) /\ u = c.tab
    <2>1. ~Arriving(u)
      BY <1>0, <1>3 DEF SessionEnds, HistoryType
    <2>2. status'[u] = "anonymous" /\ ~timer'[u]
      BY <1>0, <1>3 DEF SessionEnds, Anonymous, PageType
    <2> QED
      BY <1>1, <2>1, <2>2
  <1>4. CASE TakeSession(c)
    <2>1. Arriving(c.tab)
      BY <1>0, <1>4 DEF TakeSession, Fits, Arriving, Ours
    <2>2. ended[u] /\ u # c.tab
      BY <1>2, <1>4, <2>1 DEF TakeSession, history
    <2>3. status'[u] = status[u] /\ timer'[u] = timer[u]
      BY <1>0, <1>4, <2>2 DEF TakeSession, Authenticated, PageType
    <2> QED
      BY <1>1, <1>2, <2>2, <2>3
  <1>5. CASE ~TakeSession(c) /\ ~(SessionEnds(c) /\ u = c.tab)
    <2>1. ended[u] /\ (timer'[u] => timer[u])
      BY <1>0, <1>5 DEF Serve, Answered, Fails, ServeRefresh, ServeLogin, ServeEnd, Refuse,
           KeepToken, RefreshRefused, SessionEnds, AnswerFails, MeFails, CallThrows, TimeOut,
           page, history, PageType, HistoryType
    <2>2. status'[u] \in {status[u], "anonymous"}
      BY <1>0, <1>5 DEF Serve, Answered, Fails, ServeRefresh, ServeLogin, ServeEnd, Refuse,
           KeepToken, RefreshRefused, SessionEnds, AnswerFails, MeFails, CallThrows, TimeOut,
           GivenUp, Anonymous, page, PageType
    <2> QED
      BY <1>1, <1>2, <2>1, <2>2
  <1> QED
    BY <1>3, <1>4, <1>5

LEMMA NextInv == Inv /\ [Next]_vars => Inv'
  <1> SUFFICES ASSUME Inv, [Next]_vars PROVE Inv'
    OBVIOUS
  <1>0. TypeOK /\ CallsFit /\ EndedQuiet
    BY DEF Inv
  <1>1. CASE Next
    <2>1. CallsFit'
      BY <1>0, <1>1, CallsKeepFitting
    <2>2. ASSUME NEW t \in Tabs, PageNext(t)
          PROVE  TypeOK' /\ EndedQuiet'
      BY <1>0, <2>2, PageKeepsTypes, PageKeepsQuiet
    <2>3. ASSUME NEW c \in calls, Serve(c) \/ Answered(c) \/ Fails(c)
          PROVE  TypeOK' /\ EndedQuiet'
      BY <1>0, <2>3, CallKeepsTypes, CallKeepsQuiet
    <2> QED
      BY <1>1, <2>1, <2>2, <2>3 DEF Next, Inv
  <1>2. CASE UNCHANGED vars
    BY <1>0, <1>2 DEF vars, Inv, TypeOK, CallsFit, EndedQuiet, Arriving, Ours
  <1> QED
    BY <1>1, <1>2

\* The session's state has its types, in every tab and in the backend.
THEOREM TypeCorrect == Spec => []TypeOK
  <1>1. Inv => TypeOK
    BY DEF Inv
  <1> QED
    BY InitInv, NextInv, <1>1, PTL DEF Spec

\* A session that its user has ended stays ended: no timer, no late answer and
\* no other tab brings it back.
THEOREM EndedSessionsStayEnded == Spec => []StaysLoggedOut
  <1>1. Inv => StaysLoggedOut
    BY DEF Inv, EndedQuiet, StaysLoggedOut
  <1> QED
    BY InitInv, NextInv, <1>1, PTL DEF Spec

-----------------------------------------------------------------------------
(* The stored token. *)

\* The stored token can be exchanged, or there is none to be.
Usable == stored # NoToken /\ live[stored] # NoAccount
Kept == IF last = "kept" THEN Usable ELSE stored = NoToken

\* How far a call has brought the stored token when nothing disturbs it
Leads(c) ==
    /\ c.at = "sent" => Kept
    /\ c.op = "refresh" =>
         /\ c.at = "sent" => c.arg = stored /\ stored # NoToken
         /\ c.at # "refused"
    /\ c.at = "granted" /\ c.op \in {"refresh", "login"} =>
         c.arg \in Tokens /\ live[c.arg] # NoAccount
    /\ c.at = "me" => last = "kept" /\ Usable

\* Until a call fails or overlaps another there is one call at a time.
InStep ==
    calm => /\ \A c, d \in calls : c = d
            /\ stored = NoToken => last = "removed"
            /\ calls = {} => Kept
            /\ \A c \in calls : Leads(c)

LEMMA InitInStep == Init => InStep
  <1> SUFFICES ASSUME Init PROVE InStep
    OBVIOUS
  <1>1. calls = {} /\ stored \in {NoToken, 1}
        /\ last = IF stored = NoToken THEN "removed" ELSE "kept"
    BY DEF Init
  <1>2. ASSUME stored = 1 PROVE live[stored] # NoAccount
    BY <1>2, Bounds DEF Init
  <1> QED
    BY <1>1, <1>2 DEF InStep, Kept, Usable

\* A call that a page sends starts from a token that fits.
LEMMA StartInStep ==
  ASSUME InStep, NEW t, NEW op \in Ops, NEW a, NEW arg, Start(t, op, a, arg),
         UNCHANGED <<stored, live, last>>,
         op = "refresh" => arg = stored /\ stored # NoToken
  PROVE  InStep'
  <1> DEFINE d == [tab |-> t, op |-> op, at |-> "sent", account |-> a, arg |-> arg,
                   late |-> FALSE]
  <1>0. d.op = op /\ d.at = "sent" /\ d.arg = arg
    OBVIOUS
  <1>1. SUFFICES ASSUME calm' PROVE InStep'
    BY DEF InStep
  <1>2. calm /\ calls = {} /\ calls' = {d}
    BY <1>1 DEF Start
  <1>3. Kept /\ (stored = NoToken => last = "removed")
    BY <1>2 DEF InStep
  <1>4. Kept'
    BY <1>3 DEF Kept, Usable
  <1> HIDE DEF d
  <1>5. Leads(d)'
    BY <1>0, <1>4 DEF Leads
  <1> QED
    BY <1>2, <1>3, <1>5 DEF InStep

LEMMA PageInStep ==
  ASSUME InStep, NEW t \in Tabs, PageNext(t)
  PROVE  InStep'
  <1>0. {"refresh", "login", "logout", "close"} \subseteq Ops
    BY DEF Ops
  <1>1. UNCHANGED <<stored, live, last>>
    BY DEF PageNext, Load, TimerFires, BecomesVisible, Login, Use, Reload, backend
  <1>2. ASSUME calm' => calm, calm' => calls' = calls
        PROVE  InStep'
    BY <1>1, <1>2 DEF InStep, Kept, Usable, Leads
  <1>3. ASSUME Refresh(t) PROVE InStep'
    BY <1>0, <1>1, <1>2, <1>3, StartInStep DEF Refresh
  <1>4. CASE Load(t) \/ BecomesVisible(t) \/ TimerFires(t)
    BY <1>2, <1>3, <1>4 DEF Load, BecomesVisible, TimerFires
  <1>5. CASE Reload(t)
    BY <1>2, <1>5 DEF Reload
  <1>6. ASSUME NEW a \in Accounts, Login(t, a) PROVE InStep'
    BY <1>0, <1>1, <1>6, StartInStep DEF Login
  <1>7. ASSUME NEW op \in {"logout", "close"}, Use(t, op) PROVE InStep'
    BY <1>0, <1>1, <1>7, StartInStep DEF Use
  <1> QED
    BY <1>4, <1>5, <1>6, <1>7 DEF PageNext

LEMMA CallInStep ==
  ASSUME Inv, InStep, NEW c \in calls, Serve(c) \/ Answered(c) \/ Fails(c)
  PROVE  InStep'
  <1>0. /\ c \in Call /\ Fits(c) /\ BackendType /\ c.op \in Ops /\ c.at \in Stages
        /\ c.arg \in Tokens \cup {NoToken} /\ stored \in Tokens \cup {NoToken}
        /\ c.account \in SomeAccount
    BY TypeParts, CallFields DEF Inv, CallsFit
  <1>1. CASE Fails(c)
    BY <1>1 DEF Fails, AnswerFails, MeFails, CallThrows, TimeOut, Fault, InStep
  <1>2. SUFFICES ASSUME ~Fails(c), calm' PROVE InStep'
    BY <1>1 DEF InStep
  <1>3. calm /\ calls = {c} /\ Leads(c) /\ (stored = NoToken => last = "removed")
    BY <1>2 DEF InStep, Serve, Answered, ServeRefresh, ServeLogin, ServeEnd, Refuse,
                KeepToken, TakeSession, RefreshRefused, SessionEnds, history
  <1>4. ASSUME NEW e, calls' = {e}, Leads(e)', (stored = NoToken => last = "removed")'
        PROVE  InStep'
    BY <1>4 DEF InStep
  <1>5. ASSUME calls' = {}, Kept', (stored = NoToken => last = "removed")'
        PROVE  InStep'
    BY <1>5 DEF InStep
  <1>6. ASSUME NEW at \in {"granted", "me"}, Becomes(c, at, c.arg)
        PROVE  \E e : calls' = {e} /\ e.at = at /\ e.op = c.op /\ e.arg = c.arg
    <2> DEFINE e == [c EXCEPT !.at = at, !.arg = c.arg]
    <2>1. e.at = at /\ e.op = c.op /\ e.arg = c.arg
      BY <1>0 DEF Call
    <2>2. calls' = {e}
      BY <1>3, <1>6 DEF Becomes
    <2> QED
      BY <2>1, <2>2
  <1>7. ASSUME NEW a \in SomeAccount, a # NoAccount, Issue(c, a), c.op \in {"refresh", "login"},
               UNCHANGED <<stored, last>>
        PROVE  InStep'
    <2>0. issued + 1 \in Tokens
      BY <1>0, <1>7, Bounds DEF Issue, BackendType
    <2>1. PICK e : calls' = {e} /\ e.at = "granted" /\ e.op = c.op /\ e.arg = issued + 1
      <3> DEFINE d == [c EXCEPT !.at = "granted", !.account = a, !.arg = issued + 1]
      <3>1. d.at = "granted" /\ d.op = c.op /\ d.arg = issued + 1
        BY <1>0 DEF Call
      <3>2. calls' = {d}
        BY <1>3, <1>7 DEF Issue
      <3> QED
        BY <3>1, <3>2
    <2>2. live' = [k \in Tokens |-> IF k = issued + 1 THEN a
                      ELSE IF k = c.arg THEN NoAccount ELSE live[k]]
      BY <1>7 DEF Issue
    <2>3. live'[issued + 1] = a
      BY <2>0, <2>2
    <2>4. Leads(e)'
      BY <1>7, <2>0, <2>1, <2>3 DEF Leads
    <2> QED
      BY <1>3, <1>4, <1>7, <2>1, <2>4
  <1>8. CASE ServeRefresh(c)
    <2>1. c.arg = stored /\ Usable
      BY <1>0, <1>3, <1>8 DEF ServeRefresh, Leads, Kept
    <2>2. live[c.arg] \in SomeAccount /\ live[c.arg] # NoAccount
      BY <1>0, <2>1 DEF Usable, BackendType
    <2> QED
      BY <1>7, <1>8, <2>2 DEF ServeRefresh, history
  <1>9. CASE ServeLogin(c)
    <2>1. c.account # NoAccount
      BY <1>0, <1>9, Bounds DEF ServeLogin, Fits
    <2> QED
      BY <1>0, <1>7, <1>9, <2>1 DEF ServeLogin, history
  <1>10. CASE ServeEnd(c)
    <2>1. PICK e : calls' = {e} /\ e.at = "granted" /\ e.op = c.op /\ e.arg = c.arg
      BY <1>6, <1>10 DEF ServeEnd
    <2>2. Leads(e)'
      BY <1>10, <2>1 DEF ServeEnd, Leads
    <2> QED
      BY <1>3, <1>4, <1>10, <2>1, <2>2 DEF ServeEnd, history
  <1>11. CASE Refuse(c)
    <2>1. calls' = {} /\ Kept /\ UNCHANGED <<stored, live, last>>
      BY <1>3, <1>11 DEF Refuse, Leads, backend, history
    <2>2. Kept'
      BY <2>1 DEF Kept, Usable
    <2> QED
      BY <1>3, <1>5, <2>1, <2>2
  <1>12. CASE KeepToken(c)
    <2>1. c.arg \in Tokens /\ live[c.arg] # NoAccount /\ c.arg # NoToken
      BY <1>3, <1>12, Bounds DEF KeepToken, Leads
    <2>2. Usable' /\ last' = "kept" /\ (stored = NoToken => last = "removed")'
      BY <1>12, <2>1 DEF KeepToken, Usable, backend
    <2>3. Kept'
      BY <2>2 DEF Kept
    <2>4. CASE c.late
      BY <1>3, <1>5, <1>12, <2>2, <2>3, <2>4 DEF KeepToken, Done
    <2>5. CASE ~c.late
      <3>1. PICK e : calls' = {e} /\ e.at = "me" /\ e.op = c.op /\ e.arg = c.arg
        BY <1>6, <1>12, <2>5 DEF KeepToken
      <3>2. Leads(e)'
        BY <2>2, <3>1 DEF Leads
      <3> QED
        BY <1>4, <2>2, <3>1, <3>2
    <2> QED
      BY <2>4, <2>5
  <1>13. CASE TakeSession(c)
    <2>1. calls' = {} /\ last = "kept" /\ Usable /\ UNCHANGED <<stored, live, last>>
      BY <1>3, <1>13 DEF TakeSession, Done, Leads, backend, history
    <2>2. Kept'
      BY <2>1 DEF Kept, Usable
    <2> QED
      BY <1>3, <1>5, <2>1, <2>2
  <1>14. CASE RefreshRefused(c)
    BY <1>3, <1>14 DEF RefreshRefused, Leads
  <1>15. CASE SessionEnds(c)
    <2>1. calls' = {} /\ stored' = NoToken /\ last' = "removed"
      BY <1>3, <1>15 DEF SessionEnds, Done
    <2>2. Kept'
      BY <2>1 DEF Kept
    <2> QED
      BY <1>5, <2>1, <2>2
  <1> QED
    BY <1>2, <1>8, <1>9, <1>10, <1>11, <1>12, <1>13, <1>14, <1>15 DEF Serve, Answered

LEMMA NextInStep == Inv /\ InStep /\ [Next]_vars => InStep'
  <1> SUFFICES ASSUME Inv, InStep, [Next]_vars PROVE InStep'
    OBVIOUS
  <1>1. CASE Next
    BY <1>1, PageInStep, CallInStep DEF Next
  <1>2. CASE UNCHANGED vars
    BY <1>2 DEF vars, InStep, Kept, Usable, Leads
  <1> QED
    BY <1>1, <1>2

\* One call at a time and none lost, the stored token can be exchanged after a
\* session was begun or renewed, and is gone after it was ended.
THEOREM StoredTokenKeepsPace == Spec => []StoredTokenFits
  <1>1. InStep => StoredTokenFits
    BY DEF InStep, Kept, Usable, StoredTokenFits
  <1> QED
    BY InitInv, NextInv, InitInStep, NextInStep, <1>1, PTL DEF Spec

\* Renewals one at a time never log anybody out.
THEOREM RenewalsEndNothing == Spec => RenewalsKeepSessions
  <1> DEFINE Loses(t) == status[t] = "authenticated" /\ status'[t] = "anonymous"
  <1>1. ASSUME Inv, InStep, [Next]_vars, NEW t \in Tabs, Loses(t), calm'
        PROVE  last' = "removed"
    <2>0. PageType
      BY <1>1, TypeParts DEF Inv
    <2>1. CASE UNCHANGED vars
      BY <1>1, <2>1 DEF vars
    <2>2. ASSUME NEW u \in Tabs, PageNext(u)
          PROVE  last' = "removed"
      <3>1. last' = last
        BY <2>2 DEF PageNext, Load, TimerFires, BecomesVisible, Login, Use, Reload
      <3>2. ASSUME Refresh(u) PROVE last' = "removed"
        BY <1>1, <3>1, <3>2 DEF Refresh, InStep
      <3>3. CASE Load(u) \/ BecomesVisible(u) \/ TimerFires(u)
        BY <1>1, <3>2, <3>3 DEF Load, BecomesVisible, TimerFires
      <3>4. CASE Reload(u)
        BY <1>1, <2>0, <3>4 DEF Reload, PageType
      <3>5. ASSUME NEW a \in Accounts, Login(u, a) PROVE FALSE
        BY <1>1, <3>5 DEF Login, page
      <3>6. ASSUME NEW op \in {"logout", "close"}, Use(u, op) PROVE FALSE
        BY <1>1, <3>6 DEF Use, page
      <3> QED
        BY <2>2, <3>3, <3>4, <3>5, <3>6, <1>1, <2>0 DEF PageNext
    <2>3. ASSUME NEW c \in calls, Serve(c) \/ Answered(c) \/ Fails(c)
          PROVE  last' = "removed"
      <3>0. c.tab \in Tabs
        BY <1>1, TypeParts, CallFields DEF Inv
      <3>1. CASE Serve(c) \/ KeepToken(c)
        BY <1>1, <3>1 DEF Serve, KeepToken, ServeRefresh, ServeLogin, ServeEnd, Refuse, page
      <3>2. CASE TakeSession(c)
        BY <1>1, <2>0, <3>0, <3>2 DEF TakeSession, Authenticated, PageType
      <3>3. CASE RefreshRefused(c)
        BY <1>1, <3>3 DEF RefreshRefused, history, InStep, Leads
      <3>4. CASE SessionEnds(c)
        BY <3>4 DEF SessionEnds
      <3>5. CASE Fails(c)
        BY <1>1, <3>5 DEF Fails, AnswerFails, MeFails, CallThrows, TimeOut, Fault
      <3> QED
        BY <2>3, <3>1, <3>2, <3>3, <3>4, <3>5 DEF Answered
    <2> QED
      BY <1>1, <2>1, <2>2, <2>3 DEF Next
  <1>2. Inv /\ InStep /\ [Next]_vars =>
          [\A t \in Tabs : Loses(t) => ~calm' \/ last' = "removed"]_vars
    BY <1>1
  <1> QED
    BY InitInv, NextInv, InitInStep, NextInStep, <1>2, PTL DEF Spec, RenewalsKeepSessions
=============================================================================
