---------------------------- MODULE AuthSession ----------------------------
(***************************************************************************)
(* The login sessions of one account (services/auth.py, services/users.py).*)
(* A refresh token is a row of auth_tokens that may be exchanged for the   *)
(* next one; a session is the chain of tokens that starts at a login.      *)
(* Access and reauthentication tokens are signed and stored nowhere: they  *)
(* end by expiring only.  As everywhere in the backend a request reads on  *)
(* a snapshot and commits later; the one exception is the bulk UPDATE of   *)
(* revoke_all_refresh_tokens, which sees the rows as they are by then.     *)
(***************************************************************************)
EXTENDS Naturals, Sequences, FiniteSets

CONSTANTS Workers,         \* threads of the pool that serve requests
          MaxTokens,       \* bound on the rows of auth_tokens
          SerialSessions   \* sessions whose browser exchanges a token
                            \* once at a time

ASSUME AuthSessionAssumption ==
    /\ MaxTokens \in Nat
    /\ SerialSessions \subseteq Nat

VARIABLES registered,    \* does the account exist?
          tokens,        \* auth_tokens of the account, by token_id
          access,        \* is there an access token that has not expired?
          reauth,        \* purposes with an unexpired reauthentication token
          code,          \* is an unexpired reset code pending?
          req,           \* what each thread has read and will write
          ended          \* history: sessions at rest when all were revoked

vars == <<registered, tokens, access, reauth, code, req, ended>>

TokenIds == 1..MaxTokens
Purposes == {"PASSWORD_CHANGE", "WITHDRAWAL"}

\* "session" is the token its chain began with; "gone" rows are deleted.
Token == [session: TokenIds, state: {"active", "expired", "revoked", "gone"}]

Request == [op: {"idle", "login", "refresh", "change", "reset", "withdraw"},
            token: 0..MaxTokens]
Idle == [op |-> "idle", token |-> 0]

Rows == DOMAIN tokens
Active(t) == tokens[t].state = "active"
Exchanging(s) == \E w \in Workers :
                    req[w].op = "refresh" /\ tokens[req[w].token].session = s

TypeOK ==
    /\ registered \in BOOLEAN
    /\ tokens \in Seq(Token) /\ Len(tokens) <= MaxTokens
    /\ access \in BOOLEAN
    /\ reauth \subseteq Purposes
    /\ code \in BOOLEAN
    /\ req \in [Workers -> Request]
    /\ \A w \in Workers : req[w].op = "refresh" => req[w].token \in Rows
    /\ ended \subseteq TokenIds

\* Right after the registration.
Init ==
    /\ registered = TRUE
    /\ tokens = <<>>
    /\ access = FALSE /\ reauth = {} /\ code = FALSE
    /\ req = [w \in Workers |-> Idle]
    /\ ended = {}

-----------------------------------------------------------------------------
(* The reading half of each handler. *)

Begin(w, op, t) ==
    /\ req[w].op = "idle"
    /\ req' = [req EXCEPT ![w] = [op |-> op, token |-> t]]
    /\ UNCHANGED <<registered, tokens, access, reauth, code, ended>>

\* INVALID_CREDENTIALS otherwise.
BeginLogin(w) ==
    /\ registered
    /\ Begin(w, "login", 0)

\* Mutant of BeginRefresh: a revoked token is exchanged once more.
BeginRefreshRevoked(w, t) ==
    /\ tokens[t].state \in {"active", "revoked"}
    /\ tokens[t].session \in SerialSessions => ~Exchanging(tokens[t].session)
    /\ Begin(w, "refresh", t)

\* INVALID_REFRESH_TOKEN otherwise.
BeginRefresh(w, t) ==
    /\ Active(t)
    /\ tokens[t].session \in SerialSessions => ~Exchanging(tokens[t].session)
    /\ Begin(w, "refresh", t)

\* The reauthentication token has been read by then, and no handler reads it
\* again: it serves any number of requests.
BeginChangePassword(w) ==
    /\ access /\ "PASSWORD_CHANGE" \in reauth
    /\ registered
    /\ Begin(w, "change", 0)

BeginResetPassword(w) ==
    /\ code /\ registered
    /\ Begin(w, "reset", 0)

BeginWithdraw(w) ==
    /\ access /\ "WITHDRAWAL" \in reauth
    /\ registered
    /\ Begin(w, "withdraw", 0)

-----------------------------------------------------------------------------
(* The commits. *)

Finish(w) == req' = [req EXCEPT ![w] = Idle]

\* _issue_tokens.  The user must still exist (fk_auth_tokens_user_id).
Issue(rows, session) ==
    /\ Len(tokens) < MaxTokens
    /\ tokens' = Append(rows, [session |-> session, state |-> "active"])
    /\ access' = TRUE

\* Mutant of CommitLogin: no key refers to the user.
CommitLoginAnyway(w) ==
    /\ req[w].op = "login"
    /\ Issue(tokens, Len(tokens) + 1)
    /\ Finish(w)
    /\ UNCHANGED <<registered, reauth, code, ended>>

CommitLogin(w) ==
    /\ req[w].op = "login"
    /\ registered
    /\ Issue(tokens, Len(tokens) + 1)
    /\ Finish(w)
    /\ UNCHANGED <<registered, reauth, code, ended>>

\* The UPDATE of the old token is by its key: whether it is active still is
\* not asked again.
CommitRefresh(w) ==
    LET t == req[w].token
    IN /\ req[w].op = "refresh"
       /\ registered
       /\ Issue([tokens EXCEPT ![t].state = "revoked"], tokens[t].session)
       /\ Finish(w)
       /\ UNCHANGED <<registered, reauth, code, ended>>

\* Mutants of RevokeAll: the rows are deleted, also those that a refresh has
\* read and is about to update; like find_active_refresh_token, one row
\* is updated.
RevokeAllDeleting == tokens' = <<>>

RevokeOne ==
    LET active == {t \in Rows : Active(t)}
    IN tokens' = [t \in Rows |->
                    IF Active(t) /\ \A u \in active : u <= t
                    THEN [tokens[t] EXCEPT !.state = "revoked"]
                    ELSE tokens[t]]

RevokeAll ==
    tokens' = [t \in Rows |-> IF tokens[t].state \in {"active", "expired"}
                              THEN [tokens[t] EXCEPT !.state = "revoked"]
                              ELSE tokens[t]]

\* What a revocation ends for good: the sessions no request is exchanging.  It
\* locks the rows of the user and the gap for new ones until it commits, so it
\* is one step.
EndSessions ==
    /\ RevokeAll
    /\ ended' = ended \cup {s \in {tokens[t].session : t \in Rows} :
                               ~Exchanging(s)}

\* One statement, committed at once.
Logout ==
    /\ access
    /\ EndSessions
    /\ UNCHANGED <<registered, access, reauth, code, req>>

\* change_password; reset_password also uses up its code, but codes that were
\* requested earlier or since may be pending still.
CommitNewPassword(w) ==
    /\ req[w].op \in {"change", "reset"}
    /\ registered
    /\ code' \in IF req[w].op = "reset" THEN {code, FALSE} ELSE {code}
    /\ EndSessions
    /\ Finish(w)
    /\ UNCHANGED <<registered, access, reauth>>

\* The rows of the user go with it (ON DELETE CASCADE).
CommitWithdraw(w) ==
    /\ req[w].op = "withdraw"
    /\ registered
    /\ registered' = FALSE
    /\ tokens' = [t \in Rows |-> [tokens[t] EXCEPT !.state = "gone"]]
    /\ code' = FALSE
    /\ Finish(w)
    /\ UNCHANGED <<access, reauth, ended>>

\* A deadlock, a lost connection, or the account was withdrawn in between: the
\* session is closed without a commit.
CommitFails(w) ==
    /\ req[w].op # "idle"
    /\ Finish(w)
    /\ UNCHANGED <<registered, tokens, access, reauth, code, ended>>

-----------------------------------------------------------------------------
(* Requests that change no row but those read above, and time. *)

Reauthenticate(purpose) ==
    /\ access /\ registered
    /\ reauth' = reauth \cup {purpose}
    /\ UNCHANGED <<registered, tokens, access, code, req, ended>>

RequestReset ==
    /\ registered
    /\ code' = TRUE
    /\ UNCHANGED <<registered, tokens, access, reauth, req, ended>>

Expire(t) ==
    /\ Active(t)
    /\ tokens' = [tokens EXCEPT ![t].state = "expired"]
    /\ UNCHANGED <<registered, access, reauth, code, req, ended>>

ShortTokensExpire ==
    /\ \/ access /\ access' = FALSE /\ UNCHANGED <<reauth, code>>
       \/ reauth # {} /\ reauth' = {} /\ UNCHANGED <<access, code>>
       \/ code /\ code' = FALSE /\ UNCHANGED <<access, reauth>>
    /\ UNCHANGED <<registered, tokens, req, ended>>

Next ==
    \/ Logout \/ RequestReset \/ ShortTokensExpire
    \/ \E purpose \in Purposes : Reauthenticate(purpose)
    \/ \E t \in Rows : Expire(t)
    \/ \E w \in Workers :
          \/ BeginLogin(w) \/ BeginWithdraw(w)
          \/ \E t \in Rows : BeginRefresh(w, t)
          \/ BeginChangePassword(w) \/ BeginResetPassword(w)
          \/ CommitLogin(w) \/ CommitRefresh(w) \/ CommitNewPassword(w)
          \/ CommitWithdraw(w) \/ CommitFails(w)

Spec == Init /\ [][Next]_vars

-----------------------------------------------------------------------------
(* Properties. *)

\* A logout or a new password ends every session for good that no request was
\* exchanging at that moment, whatever overlaps with it.
IdleSessionsEnd == \A t \in Rows : Active(t) => tokens[t].session \notin ended

\* A session never has two tokens that can be exchanged, if its browser sends
\* one exchange at a time, whatever the other sessions do: rotation keeps the
\* chain a chain.
OneTokenPerSession ==
    \A t, u \in Rows : /\ Active(t) /\ Active(u)
                       /\ tokens[t].session = tokens[u].session
                       /\ tokens[t].session \in SerialSessions
                       => t = u

\* After a withdrawal no token is left, and no request in flight leaves one.
NoTokenOutlivesAccount ==
    ~registered => \A t \in Rows : tokens[t].state = "gone"
=============================================================================
