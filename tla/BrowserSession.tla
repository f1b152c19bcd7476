--------------------------- MODULE BrowserSession ---------------------------
(***************************************************************************)
(* The session of the browser: the provider of every page                  *)
(* (frontend/src/lib/session.tsx) and the part of the adapter that keeps   *)
(* the refresh token in localStorage (src/lib/legacyApiAdapter.ts).  Tabs   *)
(* share the stored token and nothing else.  The backend is what           *)
(* AuthSession models in detail: here it exchanges, issues and revokes     *)
(* refresh tokens.                                                         *)
(***************************************************************************)
EXTENDS Integers, FiniteSets, Sequences

CONSTANTS Tabs, Accounts,
          NoAccount,
          MaxTokens,      \* bound: refresh tokens ever issued
          MaxUserCalls,   \* bound: calls of users in flight
          MaxLate         \* bound: calls given up that go on; others are lost

ASSUME SessionAssumption ==
    /\ NoAccount \notin Accounts
    /\ MaxTokens \in Nat \ {0}
    /\ MaxUserCalls \in Nat /\ MaxLate \in Nat

VARIABLES status,     \* of the tab's page
          user,       \* the account it shows and has an access token for
          due,        \* refreshAfterSeconds is set
          timer,      \* the refresh timer is running
          stored,     \* metrotrip.refreshToken, 0 for none
          live,       \* backend: the account of each token that is not revoked
          issued,     \* backend: tokens issued so far
          calls,      \* calls in flight
          ended,      \* history: the tab's session was ended, none was on its way
          calm,       \* history: no call has failed or overlapped another
          last        \* history: whether the stored token should be there

vars == <<status, user, due, timer, stored, live, issued, calls,
          ended, calm, last>>
page == <<status, user, due, timer>>
backend == <<live, issued>>
history == <<ended, calm, last>>

NoToken == 0
Tokens == 1..MaxTokens
SomeAccount == Accounts \cup {NoAccount}

(* What a call is about: an exchange, a login or a registration, a logout, a
   change of password or a withdrawal.  account is whose access token it
   carries or who logs in, arg the refresh token it brings or gets; late is
   set once the page has stopped waiting for it. *)
Call == [tab : Tabs, op : {"refresh", "login", "logout", "close"},
         at : {"sent", "granted", "refused", "me"},
         account : SomeAccount, arg : Tokens \cup {NoToken}, late : BOOLEAN]

Ours(t) == {c \in calls : c.tab = t}
Refreshing(t) == \E c \in Ours(t) : c.op = "refresh" /\ ~c.late
(* An answer that may bring the tab a session *)
Arriving(t) == \E c \in Ours(t) : c.op \in {"refresh", "login"} /\ ~c.late
UserCalls == {c \in calls : c.op # "refresh"}
Late == {c \in calls : c.late}

Init ==
    /\ status = [t \in Tabs |-> "loading"]
    /\ user = [t \in Tabs |-> NoAccount]
    /\ due = [t \in Tabs |-> FALSE] /\ timer = [t \in Tabs |-> FALSE]
    /\ stored \in {NoToken, 1} /\ issued = stored
    /\ \E a \in Accounts :
         live = [k \in Tokens |-> IF k = stored THEN a ELSE NoAccount]
    /\ calls = {}
    /\ ended = [t \in Tabs |-> FALSE] /\ calm = TRUE
    /\ last = IF stored = NoToken THEN "removed" ELSE "kept"

-----------------------------------------------------------------------------
(* The page. *)

Start(t, op, account, arg) ==
    /\ calls' = calls \cup {[tab |-> t, op |-> op, at |-> "sent",
                             account |-> account, arg |-> arg, late |-> FALSE]}
    /\ calm' = (calm /\ calls = {})

Anonymous(t) ==
    /\ status' = [status EXCEPT ![t] = "anonymous"]
    /\ user' = [user EXCEPT ![t] = NoAccount]

(* applyAuth and setRefreshAfterSeconds: always with the same delay, so the
   effect that starts the timer runs only when there was none before *)
Authenticated(t, a) ==
    /\ status' = [status EXCEPT ![t] = "authenticated"]
    /\ user' = [user EXCEPT ![t] = a]
    /\ due' = [due EXCEPT ![t] = TRUE]
    /\ timer' = [timer EXCEPT ![t] = timer[t] \/ ~due[t]]

(* refresh, while none is in flight: with no token stored the adapter
   answers 401 by itself *)
Refresh(t) ==
    IF stored = NoToken
    THEN Anonymous(t) /\ UNCHANGED <<calls, calm>>
    ELSE Start(t, "refresh", NoAccount, stored) /\ UNCHANGED <<status, user>>

(* The bootstrap of the provider *)
Load(t) ==
    /\ status[t] = "loading" /\ ~Refreshing(t)
    /\ Refresh(t)
    /\ UNCHANGED <<due, timer, stored, backend, ended, last>>

TimerFires(t) ==
    /\ timer[t] /\ timer' = [timer EXCEPT ![t] = FALSE]
    /\ IF Refreshing(t) THEN UNCHANGED <<status, user, calls, calm>>
       ELSE Refresh(t)
    /\ UNCHANGED <<due, stored, backend, ended, last>>

BecomesVisible(t) ==
    /\ status[t] = "authenticated" /\ ~Refreshing(t)
    /\ Refresh(t)
    /\ UNCHANGED <<due, timer, stored, backend, ended, last>>

(* The user logs in or registers, also while the page is still loading *)
Login(t, a) ==
    /\ status[t] # "authenticated"
    /\ Cardinality(UserCalls) < MaxUserCalls
    /\ Start(t, "login", a, NoToken)
    /\ ended' = [ended EXCEPT ![t] = FALSE]
    /\ UNCHANGED <<page, stored, backend, last>>

(* The user logs out, changes the password or withdraws *)
Use(t, op) ==
    /\ status[t] = "authenticated"
    /\ Cardinality(UserCalls) < MaxUserCalls
    /\ Start(t, op, user[t], NoToken)
    /\ UNCHANGED <<page, stored, backend, ended, last>>

(* The page is loaded again: whatever its calls had still to do is not done *)
Reload(t) ==
    /\ status' = [status EXCEPT ![t] = "loading"]
    /\ user' = [user EXCEPT ![t] = NoAccount]
    /\ due' = [due EXCEPT ![t] = FALSE] /\ timer' = [timer EXCEPT ![t] = FALSE]
    /\ calls' = calls \ Ours(t)
    /\ ended' = [ended EXCEPT ![t] = FALSE]
    /\ calm' = (calm /\ Ours(t) = {})
    /\ UNCHANGED <<stored, backend, last>>

-----------------------------------------------------------------------------
(* The backend. *)

Becomes(c, at, arg) == calls' = (calls \ {c}) \cup {[c EXCEPT !.at = at, !.arg = arg]}

Issue(c, a) ==
    /\ issued < MaxTokens /\ issued' = issued + 1
    /\ live' = [k \in Tokens |-> IF k = issued + 1 THEN a
                   ELSE IF k = c.arg THEN NoAccount ELSE live[k]]
    /\ calls' = (calls \ {c}) \cup
         {[c EXCEPT !.at = "granted", !.account = a, !.arg = issued + 1]}

ServeRefresh(c) ==
    /\ c.op = "refresh" /\ c.at = "sent"
    /\ IF live[c.arg] # NoAccount THEN Issue(c, live[c.arg])
       ELSE Becomes(c, "refused", c.arg) /\ UNCHANGED backend
    /\ UNCHANGED <<page, stored, history>>

ServeLogin(c) ==
    /\ c.op = "login" /\ c.at = "sent"
    /\ Issue(c, c.account)
    /\ UNCHANGED <<page, stored, history>>

(* logout, or reauthenticate and the change it is for *)
ServeEnd(c) ==
    /\ c.op \in {"logout", "close"} /\ c.at = "sent"
    /\ live' = [k \in Tokens |-> IF live[k] = c.account THEN NoAccount ELSE live[k]]
    /\ Becomes(c, "granted", c.arg)
    /\ UNCHANGED <<page, stored, issued, history>>

(* A wrong password or code: the page shows a message and goes on *)
Refuse(c) ==
    /\ c.op \in {"login", "close"} /\ c.at = "sent"
    /\ calls' = calls \ {c}
    /\ UNCHANGED <<page, stored, backend, history>>

-----------------------------------------------------------------------------
(* The answers, as the adapter and the page take them. *)

Done(c) == calls' = calls \ {c}

(* Mutant: the token a renewal brings is not kept. *)
KeepTokenOfLogin(c) ==
    /\ c.op \in {"refresh", "login"} /\ c.at = "granted"
    /\ stored' = IF c.op = "login" THEN c.arg ELSE stored
    /\ last' = "kept"
    /\ Becomes(c, "me", c.arg)
    /\ UNCHANGED <<page, backend, ended, calm>>

(* Mutant: what is kept is another field of the answer, not the token. *)
KeepWrongField(c) ==
    /\ c.op \in {"refresh", "login"} /\ c.at = "granted"
    /\ stored' = MaxTokens + 1 /\ last' = "kept"
    /\ Becomes(c, "me", c.arg)
    /\ UNCHANGED <<page, backend, ended, calm>>

(* The adapter keeps the new token, then asks who the user is (of a call the
   page has given up, nothing more comes) ... *)
KeepToken(c) ==
    /\ c.op \in {"refresh", "login"} /\ c.at = "granted"
    /\ stored' = c.arg /\ last' = "kept"
    /\ IF c.late THEN Done(c) ELSE Becomes(c, "me", c.arg)
    /\ UNCHANGED <<page, backend, ended, calm>>

(* ... and the page takes both *)
TakeSession(c) ==
    /\ c.at = "me"
    /\ Authenticated(c.tab, c.account)
    /\ Done(c)
    /\ UNCHANGED <<stored, backend, history>>

RefreshRefused(c) ==
    /\ c.op = "refresh" /\ c.at = "refused"
    /\ stored' = NoToken
    /\ IF c.late THEN UNCHANGED <<status, user>> ELSE Anonymous(c.tab)
    /\ Done(c)
    /\ UNCHANGED <<due, timer, backend, history>>

(* Mutant: the refresh timer goes on. *)
SessionEndsTimerOn(c) ==
    /\ \/ c.op = "logout" /\ c.at \in {"granted", "refused"}
       \/ c.op = "close" /\ c.at = "granted"
    /\ stored' = NoToken /\ last' = "removed"
    /\ Anonymous(c.tab)
    /\ due' = [due EXCEPT ![c.tab] = FALSE]
    /\ Done(c)
    /\ ended' = [ended EXCEPT ![c.tab] = ~Arriving(c.tab)]
    /\ UNCHANGED <<timer, backend, calm>>

(* logout whatever the answer, the others once they are granted *)
SessionEnds(c) ==
    /\ \/ c.op = "logout" /\ c.at \in {"granted", "refused"}
       \/ c.op = "close" /\ c.at = "granted"
    /\ stored' = NoToken /\ last' = "removed"
    /\ Anonymous(c.tab)
    /\ due' = [due EXCEPT ![c.tab] = FALSE]
    /\ timer' = [timer EXCEPT ![c.tab] = FALSE]
    /\ Done(c)
    /\ ended' = [ended EXCEPT ![c.tab] = ~Arriving(c.tab)]
    /\ UNCHANGED <<backend, calm>>

-----------------------------------------------------------------------------
(* Failures. *)

Fault == calm' = FALSE

(* A refresh that comes to nothing leaves the page anonymous *)
GivenUp(c) ==
    IF c.op = "refresh" /\ ~c.late THEN Anonymous(c.tab)
    ELSE UNCHANGED <<status, user>>

(* A 5xx instead of the answer, before or after the backend's work *)
AnswerFails(c) ==
    /\ Fault /\ c.at \in {"sent", "granted"}
    /\ IF c.op \in {"refresh", "logout"} THEN Becomes(c, "refused", c.arg) ELSE Done(c)
    /\ UNCHANGED <<page, stored, backend, ended, last>>

(* /users/me fails: the adapter answers 502 and has kept the token *)
MeFails(c) ==
    /\ Fault /\ c.at = "me"
    /\ GivenUp(c) /\ Done(c)
    /\ UNCHANGED <<due, timer, stored, backend, ended, last>>

(* fetch rejects: neither adapter nor page goes on *)
CallThrows(c) ==
    /\ Fault /\ c.at \in {"sent", "granted", "me"}
    /\ GivenUp(c) /\ Done(c)
    /\ UNCHANGED <<due, timer, stored, backend, ended, last>>

(* The page waits eight seconds for a refresh; the call itself goes on *)
TimeOut(c) ==
    /\ c.op = "refresh" /\ ~c.late
    /\ Anonymous(c.tab)
    /\ calls' = (calls \ {c}) \cup
         (IF Cardinality(Late) < MaxLate /\ c.at # "me"
          THEN {[c EXCEPT !.late = TRUE]} ELSE {})
    /\ calm' = FALSE
    /\ UNCHANGED <<due, timer, stored, backend, ended, last>>

-----------------------------------------------------------------------------
PageNext(t) ==
    \/ Load(t) \/ TimerFires(t) \/ BecomesVisible(t) \/ Reload(t)
    \/ \E a \in Accounts : Login(t, a)
    \/ \E op \in {"logout", "close"} : Use(t, op)

Serve(c) ==
    \/ ServeRefresh(c) \/ ServeLogin(c) \/ ServeEnd(c) \/ Refuse(c)

Answered(c) ==
    \/ KeepToken(c) \/ TakeSession(c) \/ RefreshRefused(c)
    \/ SessionEnds(c)

Fails(c) == AnswerFails(c) \/ MeFails(c) \/ CallThrows(c) \/ TimeOut(c)

Next ==
    \/ \E t \in Tabs : PageNext(t)
    \/ \E c \in calls : Serve(c) \/ Answered(c) \/ Fails(c)

Spec == Init /\ [][Next]_vars

-----------------------------------------------------------------------------
TypeOK ==
    /\ status \in [Tabs -> {"loading", "authenticated", "anonymous"}]
    /\ user \in [Tabs -> SomeAccount]
    /\ due \in [Tabs -> BOOLEAN] /\ timer \in [Tabs -> BOOLEAN]
    /\ live \in [Tokens -> SomeAccount]
    /\ issued \in 0..MaxTokens /\ stored \in Tokens \cup {NoToken}
    /\ calls \subseteq Call
    /\ ended \in [Tabs -> BOOLEAN]
    /\ calm \in BOOLEAN /\ last \in {"kept", "removed"}

(* A tab whose session the user has ended stays anonymous until it is used to *)
(* log in or is loaded again, unless a refresh or a login was in flight when  *)
(* it ended: no timer, no late answer, no other tab brings the session back.  *)
StaysLoggedOut ==
    \A t \in Tabs : ended[t] => status[t] = "anonymous"

(* As long as no call has failed or overlapped another, the stored token can  *)
(* be exchanged if a session was last begun or renewed, and none is left      *)
(* behind if one was ended: the rotation keeps pace with the backend's.       *)
StoredTokenFits ==
    calm /\ calls = {} =>
        IF last = "kept" THEN stored # NoToken /\ live[stored] # NoAccount
        ELSE stored = NoToken

(* A tab that has a session loses it only when a session was ended in some    *)
(* tab, a call failed, or two calls overlapped: renewals one at a time never  *)
(* log anybody out.                                                           *)
RenewalsKeepSessions ==
    [][\A t \in Tabs :
          status[t] = "authenticated" /\ status'[t] = "anonymous" =>
              ~calm' \/ last' = "removed"]_vars
=============================================================================
