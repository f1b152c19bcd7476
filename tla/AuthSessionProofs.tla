------------------------- MODULE AuthSessionProofs -------------------------
(***************************************************************************)
(* What a revocation ends and what rotation keeps, for any number of       *)
(* requests at a time and any number of tokens.                            *)
(***************************************************************************)
EXTENDS AuthSession, SequenceTheorems, TLAPS

-----------------------------------------------------------------------------
(* How the steps change auth_tokens. *)

\* The rows of auth_tokens are numbered without a gap, and each is a token.
LEMMA TokensShape ==
  ASSUME TypeOK
  PROVE  /\ Len(tokens) \in Nat /\ Rows = 1..Len(tokens)
         /\ \A t \in Rows : /\ tokens[t] \in Token
                            /\ tokens[t].session \in TokenIds
  <1>1. tokens \in Seq(Token)
    BY DEF TypeOK
  <1>2. Len(tokens) \in Nat /\ DOMAIN tokens = 1..Len(tokens)
        /\ \A t \in 1..Len(tokens) : tokens[t] \in Token
    BY <1>1
  <1>3. \A x \in Token : x.session \in TokenIds
    BY DEF Token
  <1> QED
    BY <1>2, <1>3 DEF Rows

\* States change, the rows and their sessions stay.
Restated ==
    /\ tokens' \in Seq(Token)
    /\ Len(tokens') = Len(tokens) /\ Rows' = Rows
    /\ \A t \in Rows : tokens'[t].session = tokens[t].session

\* A function that gives every row one of the states is such a change.
LEMMA Restating ==
  ASSUME TypeOK,
         NEW state \in [Rows -> {"active", "expired", "revoked", "gone"}],
         tokens' = [t \in Rows |-> [session |-> tokens[t].session,
                                    state |-> state[t]]]
  PROVE  Restated /\ \A t \in Rows : tokens'[t].state = state[t]
  <1>1. Len(tokens) \in Nat /\ Rows = 1..Len(tokens)
        /\ \A t \in Rows : tokens[t].session \in TokenIds
    BY TokensShape
  <1>2. tokens' \in [1..Len(tokens) -> Token]
    BY <1>1 DEF Token
  <1>3. tokens' \in Seq(Token) /\ Len(tokens') = Len(tokens)
    BY <1>1, <1>2
  <1>4. Rows' = Rows
    BY <1>1, <1>3 DEF Rows
  <1> QED
    BY <1>3, <1>4 DEF Restated

\* A row is its session and its state.
LEMMA TokenIsPair ==
  ASSUME TypeOK, NEW t \in Rows, NEW s
  PROVE  [tokens[t] EXCEPT !.state = s]
           = [session |-> tokens[t].session, state |-> s]
  BY TokensShape DEF Token

\* Revocation leaves nothing active and revives nothing.
LEMMA RevokeAllRestates ==
  ASSUME TypeOK, RevokeAll
  PROVE  /\ Restated
         /\ \A t \in Rows : tokens'[t].state # "active"
         /\ \A t \in Rows : tokens[t].state = "gone" => tokens'[t].state = "gone"
  <1> DEFINE state == [t \in Rows |->
                         IF tokens[t].state \in {"active", "expired"}
                         THEN "revoked" ELSE tokens[t].state]
  <1>1. state \in [Rows -> {"active", "expired", "revoked", "gone"}]
    BY TokensShape DEF Token
  <1>2. \A t \in Rows : (IF tokens[t].state \in {"active", "expired"}
                         THEN [tokens[t] EXCEPT !.state = "revoked"]
                         ELSE tokens[t])
                        = [session |-> tokens[t].session, state |-> state[t]]
    BY TokensShape, TokenIsPair DEF Token
  <1>3. tokens' = [t \in Rows |-> [session |-> tokens[t].session,
                                   state |-> state[t]]]
    BY <1>2 DEF RevokeAll
  <1>4. Restated /\ \A t \in Rows : tokens'[t].state = state[t]
    <2> HIDE DEF state
    <2> QED
      BY <1>1, <1>3, Restating
  <1> QED
    BY <1>4

\* A withdrawal deletes every row.
LEMMA WithdrawRestates ==
  ASSUME TypeOK, NEW w \in Workers, CommitWithdraw(w)
  PROVE  Restated /\ \A t \in Rows : tokens'[t].state = "gone"
  <1> DEFINE state == [t \in Rows |-> "gone"]
  <1>1. tokens' = [t \in Rows |-> [session |-> tokens[t].session,
                                   state |-> state[t]]]
    BY TokenIsPair DEF CommitWithdraw
  <1>2. state \in [Rows -> {"active", "expired", "revoked", "gone"}]
    OBVIOUS
  <1>3. Restated /\ \A t \in Rows : tokens'[t].state = state[t]
    <2> HIDE DEF state
    <2> QED
      BY <1>1, <1>2, Restating
  <1> QED
    BY <1>3

\* One row gets another state, by expiry or by an exchange.
LEMMA OneRestated ==
  ASSUME TypeOK, NEW t \in Rows, NEW s \in {"expired", "revoked"}
  PROVE  LET rows == [tokens EXCEPT ![t].state = s]
         IN /\ rows \in Seq(Token) /\ Len(rows) = Len(tokens)
            /\ DOMAIN rows = Rows
            /\ \A u \in Rows :
                 /\ rows[u].session = tokens[u].session
                 /\ rows[u].state = IF u = t THEN s ELSE tokens[u].state
  <1> DEFINE rows == [tokens EXCEPT ![t].state = s]
  <1>1. [tokens[t] EXCEPT !.state = s] \in Token
    BY TokensShape DEF Token
  <1>2. rows = [tokens EXCEPT ![t] = [tokens[t] EXCEPT !.state = s]]
    OBVIOUS
  <1>3. rows \in Seq(Token) /\ Len(rows) = Len(tokens) /\ DOMAIN rows = Rows
    BY <1>1, <1>2, TokensShape DEF TypeOK, Rows
  <1>4. \A u \in Rows : rows[u] = IF u = t THEN [tokens[t] EXCEPT !.state = s]
                                           ELSE tokens[u]
    BY <1>2 DEF Rows
  <1>5. \A u \in Rows : tokens[u] = [session |-> tokens[u].session,
                                     state |-> tokens[u].state]
    BY TokensShape DEF Token
  <1> QED
    BY <1>3, <1>4, <1>5

\* An issued token is a new last row.
LEMMA IssueAppends ==
  ASSUME TypeOK, NEW rows \in Seq(Token), Len(rows) = Len(tokens),
         NEW s \in TokenIds, Issue(rows, s)
  PROVE  LET n == Len(tokens) + 1
         IN /\ tokens' \in Seq(Token)
            /\ Len(tokens') = n /\ n <= MaxTokens /\ Rows' = 1..n
            /\ \A t \in Rows : tokens'[t] = rows[t]
            /\ tokens'[n].session = s /\ tokens'[n].state = "active"
  <1> DEFINE new == [session |-> s, state |-> "active"]
  <1>1. new \in Token
    BY DEF Token
  <1>2. tokens' = Append(rows, new) /\ Len(tokens) < MaxTokens
    BY DEF Issue
  <1>3. /\ tokens' \in Seq(Token) /\ Len(tokens') = Len(tokens) + 1
        /\ \A t \in 1..Len(tokens) : tokens'[t] = rows[t]
        /\ tokens'[Len(tokens) + 1] = new
    <2> HIDE DEF new
    <2> QED
      BY <1>1, <1>2, AppendProperties
  <1> QED
    BY <1>2, <1>3, TokensShape, AuthSessionAssumption DEF Rows

-----------------------------------------------------------------------------
(* Types. *)

\* Every step keeps the types.
LEMMA NextKeepsType == TypeOK /\ [Next]_vars => TypeOK'
  <1> SUFFICES ASSUME TypeOK, [Next]_vars PROVE TypeOK'
    OBVIOUS
  <1> DEFINE N == Len(tokens)
  <1>0. N \in Nat /\ N <= MaxTokens /\ MaxTokens \in Nat /\ Rows = 1..N
    BY TokensShape, AuthSessionAssumption DEF TypeOK
  <1>1. Idle \in Request /\ Idle.op # "refresh"
    BY <1>0 DEF Idle, Request
  <1>2. ASSUME NEW w \in Workers, Finish(w), Rows \subseteq Rows'
        PROVE  /\ req' \in [Workers -> Request]
               /\ \A v \in Workers :
                     req'[v].op = "refresh" => req'[v].token \in Rows'
    BY <1>1, <1>2 DEF Finish, TypeOK
  <1>3. ASSUME NEW w \in Workers,
               NEW op \in {"login", "refresh", "change", "reset", "withdraw"},
               NEW t \in 0..N, op = "refresh" => t \in Rows, Begin(w, op, t)
        PROVE  TypeOK'
    <2>1. [op |-> op, token |-> t] \in Request
      BY <1>0 DEF Request
    <2>2. req' \in [Workers -> Request]
      BY <1>3, <2>1 DEF Begin, TypeOK
    <2>3. \A v \in Workers : req'[v].op = "refresh" => req'[v].token \in Rows
      BY <1>3 DEF Begin, TypeOK
    <2> QED
      BY <1>3, <2>2, <2>3 DEF Begin, TypeOK, Rows
  <1>4. ASSUME EndSessions
        PROVE  Restated /\ ended' \subseteq TokenIds
    <2>1. Restated
      BY <1>4, RevokeAllRestates DEF EndSessions
    <2>2. ended' \subseteq TokenIds
      BY <1>4, TokensShape DEF EndSessions, TypeOK
    <2> QED
      BY <1>0, <1>4, <2>1, <2>2 DEF EndSessions, Restated
  <1>5. ASSUME Restated PROVE tokens' \in Seq(Token) /\ Len(tokens') <= MaxTokens
                              /\ Rows' = Rows /\ Len(tokens') = N
    BY <1>0, <1>5 DEF Restated
  <1>6. CASE Logout
    BY <1>4, <1>5, <1>6 DEF Logout, TypeOK
  <1>7. CASE RequestReset \/ ShortTokensExpire
    BY <1>7 DEF RequestReset, ShortTokensExpire, TypeOK, Rows
  <1>8. ASSUME NEW purpose \in Purposes, Reauthenticate(purpose) PROVE TypeOK'
    BY <1>8 DEF Reauthenticate, TypeOK, Rows
  <1>9. ASSUME NEW t \in Rows, Expire(t) PROVE TypeOK'
    <2>1. tokens' \in Seq(Token) /\ Len(tokens') = N /\ Rows' = Rows
      BY <1>9, OneRestated DEF Expire, Rows
    <2> QED
      BY <1>0, <1>9, <2>1 DEF Expire, TypeOK
  <1>10. ASSUME NEW w \in Workers,
                BeginLogin(w) \/ BeginChangePassword(w) \/ BeginResetPassword(w)
                \/ BeginWithdraw(w)
         PROVE  TypeOK'
    BY <1>0, <1>3, <1>10
       DEF BeginLogin, BeginChangePassword, BeginResetPassword, BeginWithdraw
  <1>11. ASSUME NEW w \in Workers, NEW t \in Rows, BeginRefresh(w, t)
         PROVE  TypeOK'
    BY <1>0, <1>3, <1>11 DEF BeginRefresh
  <1>12. ASSUME NEW rows \in Seq(Token), Len(rows) = N,
                NEW s \in TokenIds, Issue(rows, s)
         PROVE  /\ tokens' \in Seq(Token) /\ Len(tokens') <= MaxTokens
                /\ Rows \subseteq Rows' /\ access' = TRUE
    BY <1>0, <1>12, IssueAppends DEF Issue, TypeOK
  <1>13. ASSUME NEW w \in Workers, CommitLogin(w) PROVE TypeOK'
    <2>1. tokens \in Seq(Token) /\ N + 1 \in TokenIds
      BY <1>0, <1>13 DEF CommitLogin, Issue, TypeOK, TokenIds
    <2>2. Issue(tokens, N + 1)
      BY <1>13 DEF CommitLogin
    <2> QED
      BY <1>2, <1>12, <1>13, <2>1, <2>2 DEF CommitLogin, TypeOK
  <1>14. ASSUME NEW w \in Workers, CommitRefresh(w) PROVE TypeOK'
    <2> DEFINE t == req[w].token
               rows == [tokens EXCEPT ![t].state = "revoked"]
    <2>1. t \in Rows
      BY <1>14 DEF CommitRefresh, TypeOK
    <2>2. rows \in Seq(Token) /\ Len(rows) = N /\ tokens[t].session \in TokenIds
      BY <2>1, OneRestated, TokensShape
    <2>3. Issue(rows, tokens[t].session)
      BY <1>14 DEF CommitRefresh
    <2>4. /\ tokens' \in Seq(Token) /\ Len(tokens') <= MaxTokens
          /\ Rows \subseteq Rows' /\ access' = TRUE
      <3> HIDE DEF rows, t
      <3> QED
        BY <1>12, <2>2, <2>3
    <2> QED
      BY <1>2, <1>14, <2>4 DEF CommitRefresh, TypeOK
  <1>15. ASSUME NEW w \in Workers, CommitNewPassword(w) PROVE TypeOK'
    <2>1. code' \in BOOLEAN
      BY <1>15 DEF CommitNewPassword, TypeOK
    <2> QED
      BY <1>2, <1>4, <1>5, <1>15, <2>1 DEF CommitNewPassword, TypeOK
  <1>16. ASSUME NEW w \in Workers, CommitWithdraw(w) PROVE TypeOK'
    <2>1. Restated
      BY <1>16, WithdrawRestates
    <2> QED
      BY <1>2, <1>5, <1>16, <2>1 DEF CommitWithdraw, TypeOK
  <1>17. ASSUME NEW w \in Workers, CommitFails(w) PROVE TypeOK'
    BY <1>2, <1>17 DEF CommitFails, TypeOK, Rows
  <1>18. CASE UNCHANGED vars
    BY <1>18 DEF vars, TypeOK, Rows
  <1> QED
    BY <1>6, <1>7, <1>8, <1>9, <1>10, <1>11, <1>13, <1>14, <1>15, <1>16, <1>17,
       <1>18 DEF Next

\* Type correctness: tokens are numbered in order, and a refresh in flight has
\* the token it read.
THEOREM AuthTypeCorrect == Spec => []TypeOK
  <1>1. Init => TypeOK
    <2> SUFFICES ASSUME Init PROVE TypeOK
      OBVIOUS
    <2>1. tokens = <<>> /\ tokens \in Seq(Token) /\ Len(tokens) = 0
      BY DEF Init
    <2>2. Idle \in Request /\ Idle.op # "refresh"
      BY AuthSessionAssumption DEF Idle, Request
    <2>3. req \in [Workers -> Request] /\ \A w \in Workers : req[w].op # "refresh"
      BY <2>2 DEF Init
    <2> QED
      <3>1. registered \in BOOLEAN /\ access \in BOOLEAN /\ code \in BOOLEAN
        BY DEF Init
      <3>2. reauth \subseteq Purposes /\ ended \subseteq TokenIds
        BY DEF Init
      <3>3. Len(tokens) <= MaxTokens
        BY <2>1, AuthSessionAssumption DEF Init
      <3> QED
        BY <2>1, <2>3, <3>1, <3>2, <3>3 DEF TypeOK
  <1> QED
    BY <1>1, NextKeepsType, PTL DEF Spec

-----------------------------------------------------------------------------
(* The inductive invariant: what is promised of the tokens, and what keeps it *)
(* when a request that has read its token commits.                            *)

\* A session is named by one of its tokens; no exchange in flight belongs to
\* a session that has ended.
EndedInv ==
    /\ \A t \in Rows : tokens[t].session \in Rows
    /\ ended \subseteq Rows
    /\ \A w \in Workers : req[w].op = "refresh" =>
                             tokens[req[w].token].session \notin ended
    /\ IdleSessionsEnd
    /\ NoTokenOutlivesAccount

\* The only token of a serial session that can be exchanged is the one in
\* flight.
ChainInv ==
    /\ OneTokenPerSession
    /\ \A w \in Workers, u \in Rows :
          /\ req[w].op = "refresh" /\ Active(u)
          /\ tokens[u].session = tokens[req[w].token].session
          /\ tokens[u].session \in SerialSessions
          => u = req[w].token
    /\ \A w, v \in Workers :
          /\ req[w].op = "refresh" /\ req[v].op = "refresh"
          /\ tokens[req[w].token].session = tokens[req[v].token].session
          /\ tokens[req[w].token].session \in SerialSessions
          => w = v

SessionInv == EndedInv /\ ChainInv

\* Steps that make no token active and start no exchange.
LEMMA NothingNew ==
  ASSUME TypeOK, SessionInv, Restated,
         \A t \in Rows : tokens'[t].state = "active" => Active(t),
         \A w \in Workers : req'[w].op = "refresh" => req'[w] = req[w],
         ended' \subseteq Rows,
         \A w \in Workers : req'[w].op = "refresh" =>
                               tokens[req[w].token].session \notin ended',
         \A t \in Rows : tokens'[t].state = "active" =>
                               tokens[t].session \notin ended',
         ~registered' => \A t \in Rows : tokens'[t].state = "gone"
  PROVE  SessionInv'
  <1>1. \A w \in Workers : req'[w].op = "refresh" =>
           /\ req[w].op = "refresh" /\ req'[w].token = req[w].token
           /\ req[w].token \in Rows
           /\ tokens'[req'[w].token].session = tokens[req[w].token].session
    BY DEF TypeOK, Restated
  <1>2. EndedInv'
    BY <1>1 DEF SessionInv, EndedInv, IdleSessionsEnd, NoTokenOutlivesAccount,
                Active, Restated
  <1>3. ChainInv'
    <2>1. ChainInv
      BY DEF SessionInv
    <2>2. OneTokenPerSession'
      BY <2>1 DEF ChainInv, OneTokenPerSession, Active, Restated
    <2> QED
      BY <1>1, <2>1, <2>2 DEF ChainInv, Active, Restated
  <1> QED
    BY <1>2, <1>3 DEF SessionInv

\* The same, for steps that leave tokens, account and history as they are.
LEMMA TokensStay ==
  ASSUME TypeOK, SessionInv, UNCHANGED <<registered, tokens, ended>>,
         \A w \in Workers : req'[w].op = "refresh" => req'[w] = req[w]
  PROVE  SessionInv'
  <1>1. Restated
    BY DEF TypeOK, Restated, Rows
  <1>2. EndedInv
    BY DEF SessionInv
  <1>3. /\ ended' \subseteq Rows
        /\ \A w \in Workers : req'[w].op = "refresh" =>
                                 tokens[req[w].token].session \notin ended'
        /\ \A t \in Rows : tokens'[t].state = "active" =>
                              Active(t) /\ tokens[t].session \notin ended'
        /\ ~registered' => \A t \in Rows : tokens'[t].state = "gone"
    BY <1>2 DEF EndedInv, IdleSessionsEnd, NoTokenOutlivesAccount, Active
  <1> QED
    BY <1>1, <1>3, NothingNew

\* A revocation spares only the exchanges in flight.
LEMMA EndSessionsKeeps ==
  ASSUME TypeOK, SessionInv, EndSessions, UNCHANGED registered,
         \A w \in Workers : req'[w].op = "refresh" => req'[w] = req[w]
  PROVE  SessionInv'
  <1>1. /\ Restated
        /\ \A t \in Rows : tokens'[t].state # "active"
        /\ \A t \in Rows : tokens[t].state = "gone" => tokens'[t].state = "gone"
    BY RevokeAllRestates DEF EndSessions
  <1>2. EndedInv
    BY DEF SessionInv
  <1>3. ended' \subseteq Rows
    BY <1>2 DEF EndedInv, EndSessions
  <1>4. ASSUME NEW w \in Workers, req'[w].op = "refresh"
        PROVE  tokens[req[w].token].session \notin ended'
    <2>1. req[w].op = "refresh"
      BY <1>4
    <2>2. Exchanging(tokens[req[w].token].session)
      BY <2>1 DEF Exchanging
    <2> QED
      BY <1>2, <2>1, <2>2 DEF EndedInv, EndSessions
  <1>5. ~registered' => \A t \in Rows : tokens'[t].state = "gone"
    BY <1>1, <1>2 DEF EndedInv, NoTokenOutlivesAccount
  <1> QED
    BY <1>1, <1>3, <1>4, <1>5, NothingNew

\* An exchange begins: its session has not ended and has no other one.
LEMMA BeginRefreshKeeps ==
  ASSUME TypeOK, SessionInv, NEW w \in Workers, NEW t \in Rows,
         BeginRefresh(w, t)
  PROVE  SessionInv'
  <1>1. /\ UNCHANGED <<registered, tokens, ended>> /\ Rows' = Rows
        /\ req'[w].op = "refresh" /\ req'[w].token = t
        /\ \A v \in Workers : v # w => req'[v] = req[v]
        /\ Active(t)
        /\ tokens[t].session \in SerialSessions => ~Exchanging(tokens[t].session)
    BY DEF BeginRefresh, Begin, TypeOK, Rows
  <1>2. EndedInv'
    <2>1. EndedInv
      BY DEF SessionInv
    <2> QED
      BY <1>1, <2>1 DEF EndedInv, IdleSessionsEnd, NoTokenOutlivesAccount, Active
  <1>3. ChainInv'
    <2>1. ChainInv
      BY DEF SessionInv
    <2>2. OneTokenPerSession'
      BY <1>1, <2>1 DEF ChainInv, OneTokenPerSession, Active
    <2>3. tokens[t].session \in SerialSessions => \A v \in Workers :
             v # w /\ req'[v].op = "refresh" =>
             tokens[req[v].token].session # tokens[t].session
      BY <1>1, <2>1 DEF Exchanging
    <2>4. \A u \in Rows : /\ Active(u) /\ tokens[u].session = tokens[t].session
                          /\ tokens[u].session \in SerialSessions
                          => u = t
      BY <1>1, <2>1 DEF ChainInv, OneTokenPerSession
    <2>5. \A v \in Workers, u \in Rows :
            /\ req'[v].op = "refresh" /\ Active(u)
            /\ tokens[u].session = tokens[req'[v].token].session
            /\ tokens[u].session \in SerialSessions
            => u = req'[v].token
      BY <1>1, <2>1, <2>4 DEF ChainInv
    <2>6. \A x, v \in Workers :
            /\ req'[x].op = "refresh" /\ req'[v].op = "refresh"
            /\ tokens[req'[x].token].session = tokens[req'[v].token].session
            /\ tokens[req'[x].token].session \in SerialSessions
            => x = v
      BY <1>1, <2>1, <2>3 DEF ChainInv
    <2> QED
      BY <1>1, <2>2, <2>5, <2>6 DEF ChainInv, Active
  <1> QED
    BY <1>2, <1>3 DEF SessionInv

\* A token is issued: for a session of its own at a login, for that of the
\* token it replaces in an exchange.
LEMMA IssueKeeps ==
  ASSUME TypeOK, SessionInv, NEW rows \in Seq(Token), NEW s \in TokenIds,
         Issue(rows, s), registered, UNCHANGED <<registered, ended>>,
         Len(rows) = Len(tokens),
         \A t \in Rows : /\ rows[t].session = tokens[t].session
                         /\ rows[t].state = "active" => Active(t),
         \A w \in Workers : req'[w].op = "refresh" =>
            /\ req'[w] = req[w]
            /\ s \in SerialSessions => tokens[req[w].token].session # s,
         \/ s = Len(tokens) + 1
         \/ /\ s \in Rows /\ s \notin ended
            /\ s \in SerialSessions => \A u \in Rows :
                  rows[u].state = "active" => tokens[u].session # s
  PROVE  SessionInv'
  <1> DEFINE n == Len(tokens) + 1
  <1>1. /\ Len(tokens) \in Nat /\ Rows = 1..Len(tokens) /\ Rows' = 1..n
        /\ \A t \in Rows : tokens'[t] = rows[t]
        /\ tokens'[n].session = s /\ tokens'[n].state = "active"
    BY IssueAppends, TokensShape
  <1>2. Rows' = Rows \cup {n} /\ n \notin Rows
    BY <1>1
  <1> HIDE DEF n
  <1>3. \A t \in Rows : /\ tokens'[t].session = tokens[t].session
                        /\ tokens'[t].state = "active" => Active(t)
                        /\ tokens'[t].state = rows[t].state
    BY <1>1
  <1>8. ASSUME NEW w \in Workers, req'[w].op = "refresh"
        PROVE  /\ req[w].op = "refresh" /\ req'[w].token = req[w].token
               /\ req[w].token \in Rows
               /\ tokens'[req'[w].token].session = tokens[req[w].token].session
               /\ s \in SerialSessions => tokens[req[w].token].session # s
    <2>1. req'[w] = req[w]
      BY <1>8
    <2>2. req[w].token \in Rows
      BY <1>8, <2>1 DEF TypeOK
    <2> QED
      BY <1>3, <1>8, <2>1, <2>2
  <1>4. EndedInv
    BY DEF SessionInv
  <1>5. s \in Rows' /\ s \notin ended
    BY <1>2, <1>4 DEF EndedInv, n
  <1>6. EndedInv'
    BY <1>1, <1>2, <1>3, <1>4, <1>5, <1>8
       DEF EndedInv, IdleSessionsEnd, NoTokenOutlivesAccount, Active
  <1>7. ChainInv'
    <2>1. ChainInv
      BY DEF SessionInv
    <2>2. s \in SerialSessions => \A u \in Rows :
             tokens'[u].state = "active" => tokens[u].session # s
      BY <1>2, <1>3, <1>4 DEF EndedInv, n
    <2>3. OneTokenPerSession'
      BY <1>1, <1>2, <1>3, <2>1, <2>2 DEF ChainInv, OneTokenPerSession, Active
    <2>4. (\A w \in Workers, u \in Rows :
             /\ req[w].op = "refresh" /\ Active(u)
             /\ tokens[u].session = tokens[req[w].token].session
             /\ tokens[u].session \in SerialSessions
             => u = req[w].token)'
      BY <1>1, <1>2, <1>3, <1>8, <2>1, <2>2 DEF ChainInv, Active
    <2>5. (\A w, v \in Workers :
             /\ req[w].op = "refresh" /\ req[v].op = "refresh"
             /\ tokens[req[w].token].session = tokens[req[v].token].session
             /\ tokens[req[w].token].session \in SerialSessions
             => w = v)'
      BY <1>8, <2>1 DEF ChainInv
    <2> QED
      BY <2>3, <2>4, <2>5 DEF ChainInv
  <1> QED
    BY <1>6, <1>7 DEF SessionInv

-----------------------------------------------------------------------------
(* Every step keeps the invariant. *)

LEMMA NextKeepsSessions == TypeOK /\ SessionInv /\ [Next]_vars => SessionInv'
  <1> SUFFICES ASSUME TypeOK, SessionInv, [Next]_vars PROVE SessionInv'
    OBVIOUS
  <1>0. EndedInv
    BY DEF SessionInv
  <1>1. ASSUME NEW w \in Workers, Finish(w)
        PROVE  /\ \A v \in Workers : req'[v].op = "refresh" =>
                     v # w /\ req'[v] = req[v]
    BY <1>1 DEF Finish, Idle, TypeOK
  <1>2. CASE Logout
    BY <1>2, EndSessionsKeeps DEF Logout
  <1>3. CASE RequestReset \/ ShortTokensExpire \/ UNCHANGED vars
    BY <1>3, TokensStay DEF RequestReset, ShortTokensExpire, vars
  <1>4. ASSUME NEW purpose \in Purposes, Reauthenticate(purpose)
        PROVE  SessionInv'
    BY <1>4, TokensStay DEF Reauthenticate
  <1>5. ASSUME NEW t \in Rows, Expire(t) PROVE SessionInv'
    <2>1. /\ Restated
          /\ \A u \in Rows : tokens'[u].state = IF u = t THEN "expired"
                                                ELSE tokens[u].state
          /\ UNCHANGED <<registered, req, ended>> /\ tokens[t].state = "active"
      BY <1>5, OneRestated DEF Expire, Restated, Rows, Active
    <2>2. /\ \A u \in Rows : tokens'[u].state = "active" =>
                                Active(u) /\ tokens[u].session \notin ended
          /\ ~registered' => \A u \in Rows : tokens'[u].state = "gone"
      BY <1>0, <2>1 DEF EndedInv, IdleSessionsEnd, NoTokenOutlivesAccount, Active
    <2>3. ended \subseteq Rows /\ \A w \in Workers :
             req[w].op = "refresh" => tokens[req[w].token].session \notin ended
      BY <1>0 DEF EndedInv
    <2> QED
      BY <2>1, <2>2, <2>3, NothingNew
  <1>6. ASSUME NEW w \in Workers,
               BeginLogin(w) \/ BeginChangePassword(w) \/ BeginResetPassword(w)
               \/ BeginWithdraw(w)
        PROVE  SessionInv'
    <2>1. /\ UNCHANGED <<registered, tokens, ended>>
          /\ \A v \in Workers : req'[v].op = "refresh" => req'[v] = req[v]
      BY <1>6 DEF BeginLogin, BeginChangePassword, BeginResetPassword,
                  BeginWithdraw, Begin, TypeOK
    <2> QED
      BY <2>1, TokensStay
  <1>7. ASSUME NEW w \in Workers, NEW t \in Rows, BeginRefresh(w, t)
        PROVE  SessionInv'
    BY <1>7, BeginRefreshKeeps
  <1>8. ASSUME NEW w \in Workers, CommitLogin(w) PROVE SessionInv'
    <2>1. Len(tokens) \in Nat /\ Rows = 1..Len(tokens)
          /\ tokens \in Seq(Token) /\ Len(tokens) + 1 \in TokenIds
      BY <1>8, TokensShape, AuthSessionAssumption
         DEF CommitLogin, Issue, TypeOK, TokenIds
    <2>2. /\ Issue(tokens, Len(tokens) + 1)
          /\ registered /\ UNCHANGED <<registered, ended>>
      BY <1>8 DEF CommitLogin
    <2>3. \A v \in Workers : req'[v].op = "refresh" =>
             /\ req'[v] = req[v]
             /\ tokens[req[v].token].session # Len(tokens) + 1
      BY <1>0, <1>1, <1>8, <2>1 DEF CommitLogin, EndedInv, TypeOK
    <2> QED
      BY <2>1, <2>2, <2>3, IssueKeeps DEF Active
  <1>9. ASSUME NEW w \in Workers, CommitRefresh(w) PROVE SessionInv'
    <2> DEFINE t == req[w].token
               rows == [tokens EXCEPT ![t].state = "revoked"]
    <2>1. t \in Rows /\ req[w].op = "refresh"
      BY <1>9 DEF CommitRefresh, TypeOK
    <2>2. /\ rows \in Seq(Token) /\ Len(rows) = Len(tokens)
          /\ \A u \in Rows :
                /\ rows[u].session = tokens[u].session
                /\ rows[u].state = IF u = t THEN "revoked" ELSE tokens[u].state
      BY <2>1, OneRestated
    <2>3. /\ Issue(rows, tokens[t].session)
          /\ registered /\ UNCHANGED <<registered, ended>>
      BY <1>9 DEF CommitRefresh
    <2>4. tokens[t].session \in TokenIds \cap Rows /\ tokens[t].session \notin ended
      BY <1>0, <2>1, TokensShape DEF EndedInv
    <2>5. \A v \in Workers : req'[v].op = "refresh" =>
             /\ req'[v] = req[v]
             /\ tokens[t].session \in SerialSessions =>
                   tokens[req[v].token].session # tokens[t].session
      BY <1>1, <1>9, <2>1 DEF CommitRefresh, SessionInv, ChainInv
    <2>6. tokens[t].session \in SerialSessions => \A u \in Rows :
             rows[u].state = "active" => tokens[u].session # tokens[t].session
      BY <2>1, <2>2 DEF SessionInv, ChainInv, Active
    <2>7. \A u \in Rows : rows[u].session = tokens[u].session
                          /\ (rows[u].state = "active" => Active(u))
      BY <2>2 DEF Active
    <2> HIDE DEF rows, t
    <2> QED
      BY <2>2, <2>3, <2>4, <2>5, <2>6, <2>7, IssueKeeps
  <1>10. ASSUME NEW w \in Workers, CommitNewPassword(w) PROVE SessionInv'
    BY <1>1, <1>10, EndSessionsKeeps DEF CommitNewPassword
  <1>11. ASSUME NEW w \in Workers, CommitWithdraw(w) PROVE SessionInv'
    <2>1. Restated /\ \A t \in Rows : tokens'[t].state = "gone"
      BY <1>11, WithdrawRestates
    <2>2. /\ \A v \in Workers : req'[v].op = "refresh" => req'[v] = req[v]
          /\ ended' = ended
      BY <1>1, <1>11 DEF CommitWithdraw
    <2>3. ended \subseteq Rows /\ \A v \in Workers :
             req[v].op = "refresh" => tokens[req[v].token].session \notin ended
      BY <1>0 DEF EndedInv
    <2> QED
      BY <2>1, <2>2, <2>3, NothingNew
  <1>12. ASSUME NEW w \in Workers, CommitFails(w) PROVE SessionInv'
    BY <1>1, <1>12, TokensStay DEF CommitFails
  <1> QED
    BY <1>2, <1>3, <1>4, <1>5, <1>6, <1>7, <1>8, <1>9, <1>10, <1>11, <1>12
       DEF Next

LEMMA SessionInvariant == Spec => [](TypeOK /\ SessionInv)
  <1>1. Init => SessionInv
    BY DEF Init, SessionInv, EndedInv, ChainInv, IdleSessionsEnd,
           NoTokenOutlivesAccount, OneTokenPerSession, Rows, Idle
  <1> QED
    BY <1>1, AuthTypeCorrect, NextKeepsSessions, PTL DEF Spec

\* Revocation is final: a logout or a new password ends, whatever overlaps,
\* every session that no request was exchanging; and no request in flight
\* leaves a token behind a withdrawal.
THEOREM RevocationIsFinal ==
  Spec => [](IdleSessionsEnd /\ NoTokenOutlivesAccount)
  <1>1. SessionInv => IdleSessionsEnd /\ NoTokenOutlivesAccount
    BY DEF SessionInv, EndedInv
  <1> QED
    BY <1>1, SessionInvariant, PTL

\* Rotation keeps the chain of a session a chain, on the condition that its
\* browser exchanges a token once at a time; the server does not enforce it,
\* and what other sessions do makes no difference.
THEOREM RotationKeepsChain == Spec => []OneTokenPerSession
  <1>1. SessionInv => OneTokenPerSession
    BY DEF SessionInv, ChainInv
  <1> QED
    BY <1>1, SessionInvariant, PTL

\* No request that overlaps a withdrawal leaves a token of the account behind.
THEOREM WithdrawalLeavesNoToken == Spec => []NoTokenOutlivesAccount
  BY RevocationIsFinal, PTL
=============================================================================
