-------------------------- MODULE AuthScriptsProofs --------------------------
(***************************************************************************)
(* Proofs about the auth-flow target and its scripts, for any number of    *)
(* virtual users, runs, iterations and restarts, and any limits.           *)
(*                                                                         *)
(* The argument: a number that somebody holds in the middle of an          *)
(* iteration of the target's present life is below the counter and is held *)
(* by nobody else, and beside an iteration that met no restart all others  *)
(* are of that life as well.  So the requests of others leave the entries  *)
(* of its credentials as they are, and what a credential is worth at each  *)
(* request of a script follows from the requests before it and from the    *)
(* answers of its own that were lost.                                      *)
(***************************************************************************)
EXTENDS AuthScripts, FiniteSetTheorems, TLAPS

(***************************************************************************)
(* The tables, and what one handler does to them.                          *)
(***************************************************************************)
Table(T) == T \in [DOMAIN T -> Credential]

TablesTyped ==
    /\ Table(ACCESS_TOKENS) /\ Table(REFRESH_TOKENS) /\ Table(SESSIONS)
    /\ MFA_CHALLENGES \in [DOMAIN MFA_CHALLENGES -> BOOLEAN]
    /\ TOKEN_COUNTER \in Nat \ {0} /\ ORDER_COUNTER \in Nat \ {0}

Numbered ==
    /\ DOMAIN ACCESS_TOKENS \subseteq 1..(TOKEN_COUNTER - 1)
    /\ DOMAIN REFRESH_TOKENS \subseteq 1..(TOKEN_COUNTER - 1)
    /\ DOMAIN SESSIONS \subseteq 1..(TOKEN_COUNTER - 1)
    /\ DOMAIN MFA_CHALLENGES \subseteq 1..(TOKEN_COUNTER - 1)

Service == TablesTyped /\ Numbered

\* From T to U no entry is lost, none but that of a changes, and what is of no
\* use stays so.
KeepsBut(T, U, a) ==
    \A t \in DOMAIN T :
        /\ t \in DOMAIN U
        /\ t # a => U[t] = T[t]
        /\ ~Usable(T, t) => ~Usable(U, t)

KeepsChallengesBut(T, U, a) ==
    \A c \in DOMAIN T :
        /\ c \in DOMAIN U
        /\ c # a => U[c] = T[c]
        /\ T[c] => U[c]

Serves(access, refresh, session, challenge) ==
    /\ KeepsBut(ACCESS_TOKENS, ACCESS_TOKENS', access)
    /\ KeepsBut(REFRESH_TOKENS, REFRESH_TOKENS', refresh)
    /\ KeepsBut(SESSIONS, SESSIONS', session)
    /\ KeepsChallengesBut(MFA_CHALLENGES, MFA_CHALLENGES', challenge)
    /\ TOKEN_COUNTER' >= TOKEN_COUNTER

Worth(T, t, n) == t \in DOMAIN T /\ ~T[t].revoked /\ T[t].uses_left = n

LEMMA SameKeeps ==
    ASSUME NEW T, NEW a
    PROVE  KeepsBut(T, T, a) /\ KeepsChallengesBut(T, T, a)
BY DEF KeepsBut, KeepsChallengesBut

LEMMA IssueKeeps ==
    ASSUME NEW T, NEW n, NEW uses \in Nat, NEW a, Table(T), n \notin DOMAIN T,
           NEW U, U = Issue(T, n, uses)
    PROVE  /\ Table(U) /\ DOMAIN U = DOMAIN T \cup {n}
           /\ Worth(U, n, uses) /\ KeepsBut(T, U, a)
BY DEF Issue, KeepsBut, Usable, Credential, Table, Worth

LEMMA SpendKeeps ==
    ASSUME NEW T, NEW t, Table(T), Usable(T, t), NEW U, U = Spend(T, t)
    PROVE  /\ Table(U) /\ DOMAIN U = DOMAIN T /\ KeepsBut(T, U, t)
           /\ \A n \in Nat : Worth(T, t, n + 1) => Worth(U, t, n)
<1>1. t \in DOMAIN T /\ T[t] \in Credential /\ T[t].uses_left > 0
  BY DEF Usable, Table
<1>2. [T[t] EXCEPT !.uses_left = @ - 1] \in Credential
  BY <1>1 DEF Credential
<1>3. U = [T EXCEPT ![t] = [T[t] EXCEPT !.uses_left = @ - 1]]
  BY <1>1 DEF Spend
<1>4. /\ U \in [DOMAIN T -> Credential]
      /\ DOMAIN U = DOMAIN T
      /\ U[t] = [T[t] EXCEPT !.uses_left = @ - 1]
      /\ \A x \in DOMAIN T : x # t => U[x] = T[x]
  BY <1>1, <1>2, <1>3 DEF Table
<1>5. U[t].uses_left = T[t].uses_left - 1 /\ U[t].revoked = T[t].revoked
  BY <1>1, <1>4 DEF Credential
<1>6. KeepsBut(T, U, t)
  BY <1>4 DEF KeepsBut, Usable
<1>7. \A n \in Nat : Worth(T, t, n + 1) => Worth(U, t, n)
  BY <1>4, <1>5 DEF Worth
<1> QED BY <1>4, <1>6, <1>7 DEF Table

LEMMA RevokeKeeps ==
    ASSUME NEW T, NEW t \in DOMAIN T, Table(T), NEW U, U = Revoke(T, t)
    PROVE  Table(U) /\ DOMAIN U = DOMAIN T /\ U[t].revoked /\ KeepsBut(T, U, t)
<1>1. T[t] \in Credential
  BY DEF Table
<1>2. [T[t] EXCEPT !.revoked = TRUE] \in Credential /\ [T[t] EXCEPT !.revoked = TRUE].revoked
  BY <1>1 DEF Credential
<1>3. U = [T EXCEPT ![t] = [T[t] EXCEPT !.revoked = TRUE]]
  BY DEF Revoke
<1>4. /\ U \in [DOMAIN T -> Credential]
      /\ DOMAIN U = DOMAIN T
      /\ U[t] = [T[t] EXCEPT !.revoked = TRUE]
      /\ \A x \in DOMAIN T : x # t => U[x] = T[x]
  BY <1>2, <1>3 DEF Table
<1>5. KeepsBut(T, U, t)
  BY <1>2, <1>4 DEF KeepsBut, Usable
<1> QED BY <1>2, <1>4, <1>5 DEF Table

LEMMA NewNumber ==
    ASSUME Service
    PROVE  /\ TOKEN_COUNTER \in Nat \ {0} /\ TOKEN_COUNTER + 1 \in Nat
           /\ TOKEN_COUNTER \notin DOMAIN ACCESS_TOKENS
           /\ TOKEN_COUNTER \notin DOMAIN SESSIONS
           /\ TOKEN_COUNTER \notin DOMAIN MFA_CHALLENGES
           /\ TOKEN_COUNTER + 1 \notin DOMAIN REFRESH_TOKENS
           /\ Table(ACCESS_TOKENS) /\ Table(REFRESH_TOKENS) /\ Table(SESSIONS)
BY DEF Service, Numbered, TablesTyped
-----------------------------------------------------------------------------
(***************************************************************************)
(* The handlers.  A refused request changes nothing.                       *)
(***************************************************************************)
LEMMA SameServes ==
    ASSUME Service, UNCHANGED authVars, NEW a, NEW r, NEW s, NEW c
    PROVE  Service' /\ Serves(a, r, s, c)
<1>1. Service'
  BY DEF Service, TablesTyped, Numbered, authVars, Table
<1>2. Serves(a, r, s, c)
  BY SameKeeps, NewNumber DEF Serves, authVars
<1> QED BY <1>1, <1>2

LEMMA SameChallenges ==
    ASSUME Service, UNCHANGED MFA_CHALLENGES, NEW c
    PROVE  /\ MFA_CHALLENGES' \in [DOMAIN MFA_CHALLENGES -> BOOLEAN]
           /\ KeepsChallengesBut(MFA_CHALLENGES, MFA_CHALLENGES', c)
BY SameKeeps DEF Service, TablesTyped

\* A pair of tokens is given out, for a password or a code.
LEMMA TokensServe ==
    ASSUME Service, NEW uses \in Nat, NEW refreshes \in Nat, NEW a, NEW r, NEW s, NEW c,
           ACCESS_TOKENS' = Issue(ACCESS_TOKENS, TOKEN_COUNTER, uses),
           REFRESH_TOKENS' = Issue(REFRESH_TOKENS, TOKEN_COUNTER + 1, refreshes),
           TOKEN_COUNTER' = TOKEN_COUNTER + 2, UNCHANGED <<SESSIONS, ORDER_COUNTER>>,
           MFA_CHALLENGES' \in [DOMAIN MFA_CHALLENGES -> BOOLEAN],
           KeepsChallengesBut(MFA_CHALLENGES, MFA_CHALLENGES', c)
    PROVE  /\ Service' /\ Serves(a, r, s, c)
           /\ Worth(ACCESS_TOKENS', TOKEN_COUNTER, uses)
           /\ Worth(REFRESH_TOKENS', TOKEN_COUNTER + 1, refreshes)
<1>1. /\ Table(ACCESS_TOKENS') /\ DOMAIN ACCESS_TOKENS' = DOMAIN ACCESS_TOKENS \cup {TOKEN_COUNTER}
      /\ Worth(ACCESS_TOKENS', TOKEN_COUNTER, uses)
      /\ KeepsBut(ACCESS_TOKENS, ACCESS_TOKENS', a)
  BY IssueKeeps, NewNumber
<1>2. /\ Table(REFRESH_TOKENS')
      /\ DOMAIN REFRESH_TOKENS' = DOMAIN REFRESH_TOKENS \cup {TOKEN_COUNTER + 1}
      /\ Worth(REFRESH_TOKENS', TOKEN_COUNTER + 1, refreshes)
      /\ KeepsBut(REFRESH_TOKENS, REFRESH_TOKENS', r)
  BY IssueKeeps, NewNumber
<1>3. TablesTyped'
  BY <1>1, <1>2 DEF Service, TablesTyped, Table
<1>4. Numbered'
  BY <1>1, <1>2, NewNumber DEF Service, Numbered
<1>5. Serves(a, r, s, c)
  BY <1>1, <1>2, NewNumber, SameKeeps DEF Serves
<1> QED BY <1>1, <1>2, <1>3, <1>4, <1>5 DEF Service

\* A bearer token is spent by whatever request shows it.
LEMMA AccessServes ==
    ASSUME Service, NEW token,
           ACCESS_TOKENS' = IF ProfileStatus(token) = 200
                            THEN Spend(ACCESS_TOKENS, token) ELSE ACCESS_TOKENS,
           UNCHANGED <<REFRESH_TOKENS, SESSIONS, MFA_CHALLENGES, TOKEN_COUNTER>>,
           ORDER_COUNTER' \in Nat \ {0}, NEW r, NEW s, NEW c
    PROVE  /\ Service' /\ Serves(token, r, s, c)
           /\ (ProfileStatus(token) = 200) <=> Usable(ACCESS_TOKENS, token)
           /\ (ProfileStatus(token) = 401) <=> ~Usable(ACCESS_TOKENS, token)
           /\ \A n \in Nat : Worth(ACCESS_TOKENS, token, n + 1) =>
                                Worth(ACCESS_TOKENS', token, n)
           /\ ~Usable(ACCESS_TOKENS, token) => ACCESS_TOKENS' = ACCESS_TOKENS
           /\ token \in DOMAIN ACCESS_TOKENS => token \in DOMAIN ACCESS_TOKENS'
<1>1. /\ (ProfileStatus(token) = 200) <=> Usable(ACCESS_TOKENS, token)
      /\ (ProfileStatus(token) = 401) <=> ~Usable(ACCESS_TOKENS, token)
  BY DEF ProfileStatus
<1>2. /\ Table(ACCESS_TOKENS') /\ DOMAIN ACCESS_TOKENS' = DOMAIN ACCESS_TOKENS
      /\ KeepsBut(ACCESS_TOKENS, ACCESS_TOKENS', token)
  <2>1. CASE Usable(ACCESS_TOKENS, token)
    BY <1>1, <2>1, SpendKeeps, NewNumber
  <2>2. CASE ~Usable(ACCESS_TOKENS, token)
    BY <1>1, <2>2, SameKeeps, NewNumber
  <2> QED BY <2>1, <2>2
<1>3. \A n \in Nat : Worth(ACCESS_TOKENS, token, n + 1) => Worth(ACCESS_TOKENS', token, n)
  <2>1. ASSUME NEW n \in Nat, Worth(ACCESS_TOKENS, token, n + 1)
        PROVE  Usable(ACCESS_TOKENS, token)
    BY <2>1 DEF Worth, Usable
  <2> QED BY <1>1, <2>1, SpendKeeps, NewNumber
<1>4. TablesTyped' /\ Numbered'
  BY <1>2 DEF Service, TablesTyped, Numbered, Table
<1>5. Serves(token, r, s, c)
  BY <1>2, SameKeeps, NewNumber DEF Serves
<1> QED BY <1>1, <1>2, <1>3, <1>4, <1>5 DEF Service

LEMMA ProfileServes ==
    ASSUME Service, NEW token, Profile(token), NEW r, NEW s, NEW c
    PROVE  /\ Service' /\ Serves(token, r, s, c)
           /\ (ProfileStatus(token) = 200) <=> Usable(ACCESS_TOKENS, token)
           /\ (ProfileStatus(token) = 401) <=> ~Usable(ACCESS_TOKENS, token)
           /\ \A n \in Nat : Worth(ACCESS_TOKENS, token, n + 1) =>
                                Worth(ACCESS_TOKENS', token, n)
           /\ ~Usable(ACCESS_TOKENS, token) => ACCESS_TOKENS' = ACCESS_TOKENS
           /\ token \in DOMAIN ACCESS_TOKENS => token \in DOMAIN ACCESS_TOKENS'
           /\ UNCHANGED <<REFRESH_TOKENS, SESSIONS, MFA_CHALLENGES, TOKEN_COUNTER>>
<1>1. ORDER_COUNTER' \in Nat \ {0}
  BY DEF Service, TablesTyped, Profile
<1> QED BY <1>1, AccessServes DEF Profile

LEMMA CheckoutServes ==
    ASSUME Service, NEW token, Checkout(token), NEW r, NEW s, NEW c
    PROVE  /\ Service' /\ Serves(token, r, s, c)
           /\ (ProfileStatus(token) = 200) <=> Usable(ACCESS_TOKENS, token)
<1>1. ORDER_COUNTER' \in Nat \ {0}
  BY DEF Service, TablesTyped, Checkout
<1> QED BY <1>1, AccessServes DEF Checkout

LEMMA LogoutServes ==
    ASSUME Service, NEW token, Logout(token), NEW r, NEW s, NEW c
    PROVE  /\ Service' /\ Serves(token, r, s, c)
           /\ (LogoutStatus(token) = 200) <=> token \in DOMAIN ACCESS_TOKENS
           /\ token \in DOMAIN ACCESS_TOKENS =>
                 token \in DOMAIN ACCESS_TOKENS' /\ ACCESS_TOKENS'[token].revoked
<1>1. (LogoutStatus(token) = 200) <=> token \in DOMAIN ACCESS_TOKENS
  BY DEF LogoutStatus
<1>2. UNCHANGED <<REFRESH_TOKENS, SESSIONS, MFA_CHALLENGES, TOKEN_COUNTER, ORDER_COUNTER>>
  BY DEF Logout
<1>3. /\ Table(ACCESS_TOKENS') /\ DOMAIN ACCESS_TOKENS' = DOMAIN ACCESS_TOKENS
      /\ KeepsBut(ACCESS_TOKENS, ACCESS_TOKENS', token)
      /\ token \in DOMAIN ACCESS_TOKENS => ACCESS_TOKENS'[token].revoked
  <2>1. CASE token \in DOMAIN ACCESS_TOKENS
    <3>1. ACCESS_TOKENS' = Revoke(ACCESS_TOKENS, token)
      BY <1>1, <2>1 DEF Logout
    <3> QED BY <2>1, <3>1, RevokeKeeps, NewNumber
  <2>2. CASE token \notin DOMAIN ACCESS_TOKENS
    BY <1>1, <2>2, SameKeeps, NewNumber DEF Logout
  <2> QED BY <2>1, <2>2
<1>4. TablesTyped' /\ Numbered'
  BY <1>2, <1>3 DEF Service, TablesTyped, Numbered, Table
<1>5. Serves(token, r, s, c)
  BY <1>2, <1>3, SameKeeps, NewNumber DEF Serves
<1> QED BY <1>1, <1>3, <1>4, <1>5 DEF Service

\* The refresh token is good: one use of it buys an access token.
LEMMA RefreshServes ==
    ASSUME Service, NEW token, NEW uses \in Nat, Usable(REFRESH_TOKENS, token),
           REFRESH_TOKENS' = Spend(REFRESH_TOKENS, token),
           ACCESS_TOKENS' = Issue(ACCESS_TOKENS, TOKEN_COUNTER, uses),
           TOKEN_COUNTER' = TOKEN_COUNTER + 1,
           UNCHANGED <<SESSIONS, MFA_CHALLENGES, ORDER_COUNTER>>, NEW a, NEW s, NEW c
    PROVE  Service' /\ Serves(a, token, s, c) /\ Worth(ACCESS_TOKENS', TOKEN_COUNTER, uses)
<1>1. /\ Table(ACCESS_TOKENS') /\ DOMAIN ACCESS_TOKENS' = DOMAIN ACCESS_TOKENS \cup {TOKEN_COUNTER}
      /\ Worth(ACCESS_TOKENS', TOKEN_COUNTER, uses)
      /\ KeepsBut(ACCESS_TOKENS, ACCESS_TOKENS', a)
  BY IssueKeeps, NewNumber
<1>2. /\ Table(REFRESH_TOKENS') /\ DOMAIN REFRESH_TOKENS' = DOMAIN REFRESH_TOKENS
      /\ KeepsBut(REFRESH_TOKENS, REFRESH_TOKENS', token)
  BY SpendKeeps, NewNumber
<1>3. TablesTyped'
  BY <1>1, <1>2 DEF Service, TablesTyped, Table
<1>4. Numbered'
  BY <1>1, <1>2, NewNumber DEF Service, Numbered
<1>5. Serves(a, token, s, c)
  BY <1>1, <1>2, NewNumber, SameKeeps DEF Serves
<1> QED BY <1>1, <1>3, <1>4, <1>5 DEF Service

\* A session is given out, for a password or a code.
LEMMA SessionServes ==
    ASSUME Service, NEW uses \in Nat, NEW a, NEW r, NEW s, NEW c,
           SESSIONS' = Issue(SESSIONS, TOKEN_COUNTER, uses),
           TOKEN_COUNTER' = TOKEN_COUNTER + 1,
           UNCHANGED <<ACCESS_TOKENS, REFRESH_TOKENS, ORDER_COUNTER>>,
           MFA_CHALLENGES' \in [DOMAIN MFA_CHALLENGES -> BOOLEAN],
           KeepsChallengesBut(MFA_CHALLENGES, MFA_CHALLENGES', c)
    PROVE  Service' /\ Serves(a, r, s, c) /\ Worth(SESSIONS', TOKEN_COUNTER, uses)
<1>1. /\ Table(SESSIONS') /\ DOMAIN SESSIONS' = DOMAIN SESSIONS \cup {TOKEN_COUNTER}
      /\ Worth(SESSIONS', TOKEN_COUNTER, uses)
      /\ KeepsBut(SESSIONS, SESSIONS', s)
  BY IssueKeeps, NewNumber
<1>2. TablesTyped'
  BY <1>1 DEF Service, TablesTyped, Table
<1>3. Numbered'
  BY <1>1, NewNumber DEF Service, Numbered
<1>4. Serves(a, r, s, c)
  BY <1>1, NewNumber, SameKeeps DEF Serves
<1> QED BY <1>1, <1>2, <1>3, <1>4 DEF Service

LEMMA SessionProfileServes ==
    ASSUME Service, NEW cookie, SessionProfile(cookie), NEW a, NEW r, NEW c
    PROVE  /\ Service' /\ Serves(a, r, cookie, c)
           /\ (SessionProfileStatus(cookie) = 200) <=> Usable(SESSIONS, cookie)
           /\ (SessionProfileStatus(cookie) = 401) <=> ~Usable(SESSIONS, cookie)
           /\ cookie \in DOMAIN SESSIONS => cookie \in DOMAIN SESSIONS'
<1>1. /\ (SessionProfileStatus(cookie) = 200) <=> Usable(SESSIONS, cookie)
      /\ (SessionProfileStatus(cookie) = 401) <=> ~Usable(SESSIONS, cookie)
  BY DEF SessionProfileStatus
<1>2. UNCHANGED <<ACCESS_TOKENS, REFRESH_TOKENS, MFA_CHALLENGES, TOKEN_COUNTER, ORDER_COUNTER>>
  BY DEF SessionProfile
<1>3. /\ Table(SESSIONS') /\ DOMAIN SESSIONS' = DOMAIN SESSIONS
      /\ KeepsBut(SESSIONS, SESSIONS', cookie)
  <2>1. CASE Usable(SESSIONS, cookie)
    <3>1. SESSIONS' = Spend(SESSIONS, cookie)
      BY <1>1, <2>1 DEF SessionProfile
    <3> QED BY <2>1, <3>1, SpendKeeps, NewNumber
  <2>2. CASE ~Usable(SESSIONS, cookie)
    BY <1>1, <2>2, SameKeeps, NewNumber DEF SessionProfile
  <2> QED BY <2>1, <2>2
<1>4. TablesTyped' /\ Numbered'
  BY <1>2, <1>3 DEF Service, TablesTyped, Numbered, Table
<1>5. Serves(a, r, cookie, c)
  BY <1>2, <1>3, SameKeeps, NewNumber DEF Serves
<1> QED BY <1>1, <1>3, <1>4, <1>5 DEF Service

LEMMA SessionLogoutServes ==
    ASSUME Service, NEW cookie, SessionLogout(cookie), NEW a, NEW r, NEW c
    PROVE  /\ Service' /\ Serves(a, r, cookie, c)
           /\ (SessionLogoutStatus(cookie) = 200) <=> cookie \in DOMAIN SESSIONS
<1>1. (SessionLogoutStatus(cookie) = 200) <=> cookie \in DOMAIN SESSIONS
  BY DEF SessionLogoutStatus
<1>2. UNCHANGED <<ACCESS_TOKENS, REFRESH_TOKENS, MFA_CHALLENGES, TOKEN_COUNTER, ORDER_COUNTER>>
  BY DEF SessionLogout
<1>3. /\ Table(SESSIONS') /\ DOMAIN SESSIONS' = DOMAIN SESSIONS
      /\ KeepsBut(SESSIONS, SESSIONS', cookie)
  <2>1. CASE cookie \in DOMAIN SESSIONS
    <3>1. SESSIONS' = Revoke(SESSIONS, cookie)
      BY <1>1, <2>1 DEF SessionLogout
    <3> QED BY <2>1, <3>1, RevokeKeeps, NewNumber
  <2>2. CASE cookie \notin DOMAIN SESSIONS
    BY <1>1, <2>2, SameKeeps, NewNumber DEF SessionLogout
  <2> QED BY <2>1, <2>2
<1>4. TablesTyped' /\ Numbered'
  BY <1>2, <1>3 DEF Service, TablesTyped, Numbered, Table
<1>5. Serves(a, r, cookie, c)
  BY <1>2, <1>3, SameKeeps, NewNumber DEF Serves
<1> QED BY <1>1, <1>4, <1>5 DEF Service

\* A challenge is given out.
LEMMA ChallengeServes ==
    ASSUME Service,
           MFA_CHALLENGES' = [x \in DOMAIN MFA_CHALLENGES \cup {TOKEN_COUNTER} |->
                                 IF x = TOKEN_COUNTER THEN FALSE ELSE MFA_CHALLENGES[x]],
           TOKEN_COUNTER' = TOKEN_COUNTER + 1,
           UNCHANGED <<ACCESS_TOKENS, REFRESH_TOKENS, SESSIONS, ORDER_COUNTER>>,
           NEW a, NEW r, NEW s, NEW c
    PROVE  /\ Service' /\ Serves(a, r, s, c)
           /\ TOKEN_COUNTER \in DOMAIN MFA_CHALLENGES' /\ ~MFA_CHALLENGES'[TOKEN_COUNTER]
<1>1. /\ TOKEN_COUNTER \in Nat \ {0} /\ TOKEN_COUNTER \notin DOMAIN MFA_CHALLENGES
      /\ MFA_CHALLENGES \in [DOMAIN MFA_CHALLENGES -> BOOLEAN]
  BY NewNumber DEF Service, TablesTyped
<1>2. /\ MFA_CHALLENGES' \in [DOMAIN MFA_CHALLENGES' -> BOOLEAN]
      /\ DOMAIN MFA_CHALLENGES' = DOMAIN MFA_CHALLENGES \cup {TOKEN_COUNTER}
      /\ MFA_CHALLENGES'[TOKEN_COUNTER] = FALSE
      /\ \A x \in DOMAIN MFA_CHALLENGES : MFA_CHALLENGES'[x] = MFA_CHALLENGES[x]
  BY <1>1
<1>3. KeepsChallengesBut(MFA_CHALLENGES, MFA_CHALLENGES', c)
  BY <1>2 DEF KeepsChallengesBut
<1>4. TablesTyped'
  <2>1. Table(ACCESS_TOKENS)' /\ Table(REFRESH_TOKENS)' /\ Table(SESSIONS)'
    BY NewNumber DEF Table
  <2>2. TOKEN_COUNTER' \in Nat \ {0} /\ ORDER_COUNTER' \in Nat \ {0}
    BY <1>1 DEF Service, TablesTyped
  <2> QED BY <1>2, <2>1, <2>2 DEF TablesTyped
<1>5. Numbered'
  BY <1>1, <1>2 DEF Service, Numbered
<1>6. Serves(a, r, s, c)
  BY <1>1, <1>3, SameKeeps DEF Serves
<1> QED BY <1>2, <1>4, <1>5, <1>6 DEF Service

\* A challenge is used.
LEMMA UsedChallenge ==
    ASSUME Service, NEW challenge \in DOMAIN MFA_CHALLENGES,
           MFA_CHALLENGES' = [MFA_CHALLENGES EXCEPT ![challenge] = TRUE]
    PROVE  /\ MFA_CHALLENGES' \in [DOMAIN MFA_CHALLENGES -> BOOLEAN]
           /\ KeepsChallengesBut(MFA_CHALLENGES, MFA_CHALLENGES', challenge)
BY DEF Service, TablesTyped, KeepsChallengesBut

\* The handlers that give credentials out, accepted or refused.
LEMMA LoginServes ==
    ASSUME Service, NEW uses, NEW refreshes, Login(TRUE, uses, refreshes),
           NEW a, NEW r, NEW s, NEW c
    PROVE  /\ Service' /\ Serves(a, r, s, c)
           /\ uses \in 1..MAX_ACCESS_USES /\ refreshes \in 1..MAX_REFRESH_USES =>
                 /\ Worth(ACCESS_TOKENS', TOKEN_COUNTER, uses)
                 /\ Worth(REFRESH_TOKENS', TOKEN_COUNTER + 1, refreshes)
                 /\ TOKEN_COUNTER' = TOKEN_COUNTER + 2
<1>1. CASE uses \in 1..MAX_ACCESS_USES /\ refreshes \in 1..MAX_REFRESH_USES
  <2>1. uses \in Nat /\ refreshes \in Nat
    BY <1>1, LimitsAssumption
  <2>2. /\ ACCESS_TOKENS' = Issue(ACCESS_TOKENS, TOKEN_COUNTER, uses)
        /\ REFRESH_TOKENS' = Issue(REFRESH_TOKENS, TOKEN_COUNTER + 1, refreshes)
        /\ TOKEN_COUNTER' = TOKEN_COUNTER + 2
        /\ UNCHANGED <<SESSIONS, MFA_CHALLENGES, ORDER_COUNTER>>
    BY <1>1 DEF Login, LoginStatus
  <2> QED BY <2>1, <2>2, TokensServe, SameChallenges
<1>2. CASE ~(uses \in 1..MAX_ACCESS_USES /\ refreshes \in 1..MAX_REFRESH_USES)
  <2>1. UNCHANGED authVars
    BY <1>2 DEF Login, LoginStatus
  <2> QED BY <1>2, <2>1, SameServes
<1> QED BY <1>1, <1>2

LEMMA SessionLoginServes ==
    ASSUME Service, NEW uses, SessionLogin(TRUE, uses), NEW a, NEW r, NEW s, NEW c
    PROVE  /\ Service' /\ Serves(a, r, s, c)
           /\ uses \in 1..MAX_SESSION_USES =>
                 /\ Worth(SESSIONS', TOKEN_COUNTER, uses)
                 /\ TOKEN_COUNTER' = TOKEN_COUNTER + 1
<1>1. CASE uses \in 1..MAX_SESSION_USES
  <2>1. uses \in Nat
    BY <1>1, LimitsAssumption
  <2>2. /\ SESSIONS' = Issue(SESSIONS, TOKEN_COUNTER, uses)
        /\ TOKEN_COUNTER' = TOKEN_COUNTER + 1
        /\ UNCHANGED <<ACCESS_TOKENS, REFRESH_TOKENS, MFA_CHALLENGES, ORDER_COUNTER>>
    BY <1>1 DEF SessionLogin, SessionLoginStatus
  <2> QED BY <2>1, <2>2, SessionServes, SameChallenges
<1>2. CASE uses \notin 1..MAX_SESSION_USES
  <2>1. UNCHANGED authVars
    BY <1>2 DEF SessionLogin, SessionLoginStatus
  <2> QED BY <1>2, <2>1, SameServes
<1> QED BY <1>1, <1>2

LEMMA PurchaseServes ==
    ASSUME Service, NEW token, NEW uses \in Int, Refresh(token, uses), NEW a, NEW s, NEW c
    PROVE  /\ Service' /\ Serves(a, token, s, c)
           /\ RefreshStatus(token, uses) = 200 =>
                 /\ Worth(ACCESS_TOKENS', TOKEN_COUNTER, uses)
                 /\ TOKEN_COUNTER' = TOKEN_COUNTER + 1
<1>1. CASE RefreshStatus(token, uses) = 200
  <2>1. uses \in Nat /\ Usable(REFRESH_TOKENS, token)
    BY <1>1, LimitsAssumption DEF RefreshStatus
  <2>2. /\ REFRESH_TOKENS' = Spend(REFRESH_TOKENS, token)
        /\ ACCESS_TOKENS' = Issue(ACCESS_TOKENS, TOKEN_COUNTER, uses)
        /\ TOKEN_COUNTER' = TOKEN_COUNTER + 1
        /\ UNCHANGED <<SESSIONS, MFA_CHALLENGES, ORDER_COUNTER>>
    BY <1>1 DEF Refresh
  <2> QED BY <2>1, <2>2, RefreshServes
<1>2. CASE RefreshStatus(token, uses) # 200
  <2>1. UNCHANGED authVars
    BY <1>2 DEF Refresh
  <2> QED BY <1>2, <2>1, SameServes
<1> QED BY <1>1, <1>2

LEMMA MfaStartServes ==
    ASSUME Service, MfaStart(TRUE), NEW a, NEW r, NEW s, NEW c
    PROVE  /\ Service' /\ Serves(a, r, s, c)
           /\ ~ChallengesFull =>
                 /\ TOKEN_COUNTER \in DOMAIN MFA_CHALLENGES'
                 /\ ~MFA_CHALLENGES'[TOKEN_COUNTER]
                 /\ TOKEN_COUNTER' = TOKEN_COUNTER + 1
<1>1. CASE ~ChallengesFull
  <2>1. /\ MFA_CHALLENGES' = [x \in DOMAIN MFA_CHALLENGES \cup {TOKEN_COUNTER} |->
                                 IF x = TOKEN_COUNTER THEN FALSE ELSE MFA_CHALLENGES[x]]
        /\ TOKEN_COUNTER' = TOKEN_COUNTER + 1
        /\ UNCHANGED <<ACCESS_TOKENS, REFRESH_TOKENS, SESSIONS, ORDER_COUNTER>>
    BY <1>1 DEF MfaStart, MfaStartStatus
  <2> QED BY <2>1, ChallengeServes
<1>2. CASE ChallengesFull
  <2>1. UNCHANGED authVars
    BY <1>2 DEF MfaStart, MfaStartStatus
  <2> QED BY <1>2, <2>1, SameServes
<1> QED BY <1>1, <1>2

LEMMA SessionVerifyServes ==
    ASSUME Service, NEW challenge, MfaVerify(challenge, TRUE, "session", 2, 1, 2),
           NEW a, NEW r, NEW s
    PROVE  /\ Service' /\ Serves(a, r, s, challenge)
           /\ MfaVerifyStatus(challenge, TRUE, 2, 1, 2) = 200 =>
                 /\ Worth(SESSIONS', TOKEN_COUNTER, 2)
                 /\ TOKEN_COUNTER' = TOKEN_COUNTER + 1
<1> DEFINE status == MfaVerifyStatus(challenge, TRUE, 2, 1, 2)
<1>1. CASE status = 200
  <2>1. /\ challenge \in DOMAIN MFA_CHALLENGES
        /\ MFA_CHALLENGES' = [MFA_CHALLENGES EXCEPT ![challenge] = TRUE]
        /\ SESSIONS' = Issue(SESSIONS, TOKEN_COUNTER, 2)
        /\ TOKEN_COUNTER' = TOKEN_COUNTER + 1
        /\ UNCHANGED <<ACCESS_TOKENS, REFRESH_TOKENS, ORDER_COUNTER>>
    BY <1>1 DEF MfaVerify, MfaVerifyStatus
  <2>2. /\ MFA_CHALLENGES' \in [DOMAIN MFA_CHALLENGES -> BOOLEAN]
        /\ KeepsChallengesBut(MFA_CHALLENGES, MFA_CHALLENGES', challenge)
    BY <2>1, UsedChallenge
  <2>3. Service' /\ Serves(a, r, s, challenge) /\ Worth(SESSIONS', TOKEN_COUNTER, 2)
    BY <2>1, <2>2, SessionServes
  <2> QED BY <2>1, <2>3
<1>2. CASE status # 200
  <2>1. UNCHANGED authVars
    BY <1>2 DEF MfaVerify
  <2> QED BY <1>2, <2>1, SameServes
<1> QED BY <1>1, <1>2

LEMMA TokenVerifyServes ==
    ASSUME Service, NEW challenge, MfaVerify(challenge, TRUE, "bearer", 2, 1, 2),
           NEW a, NEW r, NEW s
    PROVE  /\ Service' /\ Serves(a, r, s, challenge)
           /\ MfaVerifyStatus(challenge, TRUE, 2, 1, 2) = 200 =>
                 /\ Worth(ACCESS_TOKENS', TOKEN_COUNTER, 2)
                 /\ TOKEN_COUNTER' = TOKEN_COUNTER + 2
<1> DEFINE status == MfaVerifyStatus(challenge, TRUE, 2, 1, 2)
<1>1. CASE status = 200
  <2>1. /\ challenge \in DOMAIN MFA_CHALLENGES
        /\ MFA_CHALLENGES' = [MFA_CHALLENGES EXCEPT ![challenge] = TRUE]
        /\ ACCESS_TOKENS' = Issue(ACCESS_TOKENS, TOKEN_COUNTER, 2)
        /\ REFRESH_TOKENS' = Issue(REFRESH_TOKENS, TOKEN_COUNTER + 1, 1)
        /\ TOKEN_COUNTER' = TOKEN_COUNTER + 2
        /\ UNCHANGED <<SESSIONS, ORDER_COUNTER>>
    BY <1>1 DEF MfaVerify, MfaVerifyStatus
  <2>2. /\ MFA_CHALLENGES' \in [DOMAIN MFA_CHALLENGES -> BOOLEAN]
        /\ KeepsChallengesBut(MFA_CHALLENGES, MFA_CHALLENGES', challenge)
    BY <2>1, UsedChallenge
  <2>3. Service' /\ Serves(a, r, s, challenge) /\ Worth(ACCESS_TOKENS', TOKEN_COUNTER, 2)
    BY <2>1, <2>2, TokensServe
  <2> QED BY <2>1, <2>3
<1>2. CASE status # 200
  <2>1. UNCHANGED authVars
    BY <1>2 DEF MfaVerify
  <2> QED BY <1>2, <2>1, SameServes
<1> QED BY <1>1, <1>2

LEMMA RestartServes ==
    ASSUME RestartTarget
    PROVE  Service'
BY DEF RestartTarget, EmptyTable, Service, TablesTyped, Numbered, Table
-----------------------------------------------------------------------------
(***************************************************************************)
(* What a virtual user's credentials are good for at the request it sends  *)
(* next, when its iteration has met no restart and its settings are        *)
(* sensible.  A session that was logged out is no longer held.             *)
(***************************************************************************)
Pocket(v) ==
    /\ mode[v] = "checkout" =>
          /\ pc[v] = "profile" => Worth(ACCESS_TOKENS, hand[v].access, 3)
          /\ pc[v] = "checkout" => Usable(ACCESS_TOKENS, hand[v].access)
    /\ mode[v] \in RefreshModes =>
          /\ pc[v] = "firstProfile" => Worth(ACCESS_TOKENS, hand[v].access, 1)
          /\ pc[v] = "expiredProfile" =>
                "firstProfile" \in lost[v] \/ Worth(ACCESS_TOKENS, hand[v].access, 0)
          /\ pc[v] \in {"firstProfile", "expiredProfile", "refresh"} =>
                Usable(REFRESH_TOKENS, hand[v].refresh)
          /\ pc[v] = "refreshedProfile" => Usable(ACCESS_TOKENS, hand[v].access)
          /\ pc[v] \in {"logout", "revokedProfile"} => hand[v].access \in DOMAIN ACCESS_TOKENS
          /\ pc[v] = "revokedProfile" =>
                "logout" \in lost[v] \/ ACCESS_TOKENS[hand[v].access].revoked
    /\ mode[v] = "session" =>
          /\ pc[v] = "sessionProfile" =>
                \/ "sessionLogin" \in lost[v] /\ hand[v].session = 0
                \/ Usable(SESSIONS, hand[v].session)
          /\ pc[v] = "sessionLogout" =>
                \/ "sessionLogin" \in lost[v] /\ hand[v].session = 0
                \/ hand[v].session \in DOMAIN SESSIONS
          /\ pc[v] = "revokedSession" => "sessionLogout" \in lost[v] \/ hand[v].session = 0
          /\ pc[v] = "sessionLogin" => hand[v].session = 0
    /\ mode[v] \in MfaModes =>
          \/ ChallengesFull
          \/ /\ pc[v] = "mfaVerify" =>
                   /\ hand[v].challenge \in DOMAIN MFA_CHALLENGES
                   /\ ~MFA_CHALLENGES[hand[v].challenge]
             /\ pc[v] = "mfaSessionProfile" =>
                   "mfaVerify" \in lost[v] \/ Usable(SESSIONS, hand[v].session)
             /\ pc[v] = "mfaProfile" => Usable(ACCESS_TOKENS, hand[v].access)

\* In the middle of an iteration that began in this life of the target.
Current == {v \in VUs \ old : pc[v] # "idle"}

Held ==
    \A v \in Current : \A credential \in {"access", "refresh", "session", "challenge"} :
        hand[v][credential] < TOKEN_COUNTER

\* Beside an iteration that met no restart runs none that began before one.
Sheltered == \A v \in VUs : pc[v] # "idle" /\ v \notin exposed => old = {}

AInv ==
    /\ TypeOK
    /\ Numbered
    /\ OneHolder
    /\ ChecksHold
    /\ Held
    /\ Sheltered
    /\ \A v \in VUs : v \notin exposed /\ Sensible(v) => Pocket(v)

Hand == [access : Nat, refresh : Nat, session : Nat, challenge : Nat]

ScriptsTyped ==
    /\ mode \in [VUs -> Modes]
    /\ setting \in [VUs -> [access : Int, refresh : Int, session : Int]]
    /\ pc \in [VUs -> Requests]
    /\ hand \in [VUs -> Hand]
    /\ failed \in [VUs -> SUBSET Requests] /\ lost \in [VUs -> SUBSET Requests]
    /\ started \in Nat /\ restarts \in Nat
    /\ old \subseteq VUs /\ exposed \subseteq VUs

LEMMA TypeParts == TypeOK <=> TablesTyped /\ ScriptsTyped
BY DEF TypeOK, TablesTyped, ScriptsTyped, Hand, Table

(***************************************************************************)
(* What a request of v changes of the virtual users: its own place, its    *)
(* own credentials, which are old, new or dropped, and its own checks.     *)
(***************************************************************************)
Moves(v) ==
    /\ pc' \in [VUs -> Requests]
    /\ failed' \in [VUs -> SUBSET Requests] /\ lost' \in [VUs -> SUBSET Requests]
    /\ UNCHANGED <<mode, setting, started, restarts, exposed>>
    /\ \A w \in VUs : w # v => pc'[w] = pc[w] /\ failed'[w] = failed[w] /\ lost'[w] = lost[w]
    /\ lost[v] \subseteq lost'[v]
    /\ pc[v] # "idle"
    /\ old' = IF pc'[v] = "idle" THEN old \ {v} ELSE old

Handles(v) ==
    /\ hand' \in [VUs -> Hand]
    /\ \A w \in VUs : w # v => hand'[w] = hand[w]
    /\ \A credential \in {"access", "refresh", "session", "challenge"} :
          hand'[v][credential] \in
              {0, hand[v][credential]} \cup (TOKEN_COUNTER..(TOKEN_COUNTER' - 1))

Explained(v) == \A f \in failed'[v] \ failed[v] : Spoils(f) \cap lost'[v] # {}

Expected(v) ==
    v \notin exposed /\ Sensible(v) /\ Pocket(v) =>
        Pocket(v)' /\ (Explained(v) \/ (mode[v] \in MfaModes /\ ChallengesFull))

Works(v) ==
    /\ Service'
    /\ Serves(hand[v].access, hand[v].refresh, hand[v].session, hand[v].challenge)
    /\ Moves(v) /\ Handles(v) /\ Expected(v)

\* What is left of Step when it does not matter what was checked.
Goes(v, from, to) ==
    /\ pc[v] = from
    /\ pc' = [pc EXCEPT ![v] = to]
    /\ failed' \in {failed, [failed EXCEPT ![v] = @ \cup {from}]}
    /\ old' = IF to = "idle" THEN old \ {v} ELSE old
    /\ UNCHANGED <<mode, setting, lost, started, restarts, exposed>>

LEMMA GoesMoves ==
    ASSUME ScriptsTyped, NEW v \in VUs, NEW from \in Requests, NEW to \in Requests,
           Goes(v, from, to), from # "idle"
    PROVE  /\ Moves(v) /\ pc[v] = from /\ pc'[v] = to /\ mode'[v] = mode[v]
           /\ lost'[v] = lost[v]
           /\ failed' = failed => Explained(v)
           /\ Spoils(from) \cap lost[v] # {} => Explained(v)
<1>1. /\ pc[v] = from /\ pc'[v] = to /\ mode'[v] = mode[v] /\ lost'[v] = lost[v]
      /\ pc' \in [VUs -> Requests]
      /\ failed' \in [VUs -> SUBSET Requests]
      /\ failed'[v] \subseteq failed[v] \cup {from}
      /\ \A w \in VUs : w # v => pc'[w] = pc[w] /\ failed'[w] = failed[w]
  BY DEF ScriptsTyped, Goes
<1>2. Moves(v)
  BY <1>1 DEF ScriptsTyped, Goes, Moves
<1> QED BY <1>1, <1>2 DEF Explained

\* What is left of Lose, the target's part aside.
Loses(v, from, to) ==
    /\ pc[v] = from
    /\ pc' = [pc EXCEPT ![v] = to]
    /\ failed' = [failed EXCEPT ![v] = @ \cup {from}]
    /\ lost' = [lost EXCEPT ![v] = @ \cup {from}]
    /\ old' = IF to = "idle" THEN old \ {v} ELSE old
    /\ UNCHANGED <<mode, setting, hand, started, restarts, exposed>>

LEMMA LosesMoves ==
    ASSUME ScriptsTyped, NEW v \in VUs, NEW from \in Requests, NEW to \in Requests,
           Loses(v, from, to), from # "idle"
    PROVE  /\ Moves(v) /\ pc[v] = from /\ pc'[v] = to /\ mode'[v] = mode[v]
           /\ lost[v] \subseteq lost'[v] /\ from \in lost'[v]
           /\ Handles(v) /\ hand'[v] = hand[v]
           /\ Explained(v)
<1>1. /\ pc[v] = from /\ pc'[v] = to /\ mode'[v] = mode[v]
      /\ lost'[v] = lost[v] \cup {from}
      /\ pc' \in [VUs -> Requests]
      /\ failed' \in [VUs -> SUBSET Requests] /\ lost' \in [VUs -> SUBSET Requests]
      /\ failed'[v] = failed[v] \cup {from}
      /\ \A w \in VUs : w # v => pc'[w] = pc[w] /\ failed'[w] = failed[w] /\ lost'[w] = lost[w]
  BY DEF ScriptsTyped, Loses
<1>2. Moves(v)
  BY <1>1 DEF ScriptsTyped, Loses, Moves
<1>3. Handles(v) /\ hand'[v] = hand[v]
  BY DEF ScriptsTyped, Handles, Loses
<1>4. Explained(v)
  <2>1. from \in Spoils(from)
    BY DEF Spoils
  <2> QED BY <1>1, <2>1 DEF Explained
<1> QED BY <1>1, <1>2, <1>3, <1>4

LEMMA SameHandles ==
    ASSUME ScriptsTyped, NEW v \in VUs, UNCHANGED hand
    PROVE  Handles(v) /\ hand'[v] = hand[v]
BY DEF ScriptsTyped, Handles

LEMMA KeepHandles ==
    ASSUME ScriptsTyped, NEW v \in VUs,
           NEW credential \in {"access", "refresh", "session", "challenge"},
           NEW number \in Nat, Keep(v, credential, number),
           number \in {0, hand[v][credential]} \cup (TOKEN_COUNTER..(TOKEN_COUNTER' - 1))
    PROVE  Handles(v) /\ hand'[v][credential] = number
<1>1. hand[v] \in Hand
  BY DEF ScriptsTyped
<1>2. hand' = [hand EXCEPT ![v] = [hand[v] EXCEPT ![credential] = number]]
  BY DEF Keep, ScriptsTyped
<1>3. [hand[v] EXCEPT ![credential] = number] \in Hand
  BY <1>1 DEF Hand
<1>4. /\ hand'[v] = [hand[v] EXCEPT ![credential] = number]
      /\ hand' \in [VUs -> Hand]
      /\ \A w \in VUs : w # v => hand'[w] = hand[w]
  BY <1>2, <1>3 DEF ScriptsTyped
<1>5. \A c \in {"access", "refresh", "session", "challenge"} :
         c # credential => hand'[v][c] = hand[v][c]
  BY <1>1, <1>4 DEF Hand
<1>6. hand'[v][credential] = number
  BY <1>1, <1>4 DEF Hand
<1> QED BY <1>4, <1>5, <1>6 DEF Handles

LEMMA KeepTokensHandles ==
    ASSUME ScriptsTyped, NEW v \in VUs, NEW status, KeepTokens(v, status),
           TOKEN_COUNTER \in Nat, TOKEN_COUNTER' \in Nat,
           status = 200 => TOKEN_COUNTER' = TOKEN_COUNTER + 2
    PROVE  /\ Handles(v)
           /\ status = 200 => /\ hand'[v].access = TOKEN_COUNTER
                              /\ hand'[v].refresh = TOKEN_COUNTER + 1
<1> DEFINE a == IF status = 200 THEN TOKEN_COUNTER ELSE 0
           r == IF status = 200 THEN TOKEN_COUNTER + 1 ELSE 0
           h == [hand[v] EXCEPT !.access = a, !.refresh = r]
<1>1. hand[v] \in Hand /\ a \in Nat /\ r \in Nat
  BY DEF ScriptsTyped
<1>2. hand' = [hand EXCEPT ![v] = h]
  BY DEF KeepTokens, ScriptsTyped
<1>3. /\ h \in Hand /\ h.access = a /\ h.refresh = r
      /\ h.session = hand[v].session /\ h.challenge = hand[v].challenge
  BY <1>1 DEF Hand
<1>4. /\ hand'[v] = h
      /\ hand' \in [VUs -> Hand]
      /\ \A w \in VUs : w # v => hand'[w] = hand[w]
  <2> HIDE DEF h
  <2> QED BY <1>2, <1>3 DEF ScriptsTyped
<1>5. /\ a \in {0} \cup (TOKEN_COUNTER..(TOKEN_COUNTER' - 1))
      /\ r \in {0} \cup (TOKEN_COUNTER..(TOKEN_COUNTER' - 1))
  <2>1. CASE status = 200
    <3>1. a = TOKEN_COUNTER /\ r = TOKEN_COUNTER + 1 /\ TOKEN_COUNTER' = TOKEN_COUNTER + 2
      BY <2>1
    <3> HIDE DEF a, r
    <3> QED BY <3>1
  <2>2. CASE status # 200
    BY <2>2
  <2> QED BY <2>1, <2>2
<1>6. /\ hand'[v]["access"] = a /\ hand'[v]["refresh"] = r
      /\ hand'[v]["session"] = hand[v]["session"]
      /\ hand'[v]["challenge"] = hand[v]["challenge"]
  BY <1>3, <1>4
<1>7. Handles(v)
  <2> HIDE DEF h, a, r
  <2> QED BY <1>4, <1>5, <1>6 DEF Handles
<1> QED BY <1>6, <1>7

(***************************************************************************)
(* The scripts, request by request.  Answers(v) is the target's part of a  *)
(* request of v; nothing is expected of an iteration that ends.            *)
(***************************************************************************)
Answers(v) == Serves(hand[v].access, hand[v].refresh, hand[v].session, hand[v].challenge)

LEMMA LastWorks ==
    ASSUME Service', NEW v \in VUs, Answers(v), Moves(v), Handles(v), pc'[v] = "idle",
           v \notin exposed /\ Sensible(v) /\ Pocket(v) =>
              Explained(v) \/ (mode[v] \in MfaModes /\ ChallengesFull)
    PROVE  Works(v)
<1>1. Pocket(v)'
  BY DEF Pocket
<1> QED BY <1>1 DEF Works, Answers, Expected

LEMMA LostLast ==
    ASSUME Service', ScriptsTyped, NEW v \in VUs, NEW from \in Requests, from # "idle",
           Answers(v), Loses(v, from, "idle")
    PROVE  Works(v)
<1>1. Moves(v) /\ Handles(v) /\ pc'[v] = "idle" /\ Explained(v)
  BY LosesMoves DEF Requests
<1> QED BY <1>1, LastWorks

\* Every challenge stays in its table, so that a full table stays full.
LEMMA FullStaysFull ==
    ASSUME Service, Service', NEW a, NEW r, NEW s, NEW c, Serves(a, r, s, c), ChallengesFull
    PROVE  ChallengesFull'
<1>1. DOMAIN MFA_CHALLENGES \subseteq DOMAIN MFA_CHALLENGES'
  BY DEF Serves, KeepsChallengesBut
<1>2. /\ DOMAIN MFA_CHALLENGES' \subseteq 1..(TOKEN_COUNTER' - 1)
      /\ 1 \in Int /\ TOKEN_COUNTER' - 1 \in Int
  BY DEF Service, Numbered, TablesTyped
<1>3. IsFiniteSet(DOMAIN MFA_CHALLENGES')
  BY <1>2, FS_Interval, FS_Subset
<1>4. /\ Cardinality(DOMAIN MFA_CHALLENGES) \in Nat
      /\ Cardinality(DOMAIN MFA_CHALLENGES') \in Nat
      /\ Cardinality(DOMAIN MFA_CHALLENGES) <= Cardinality(DOMAIN MFA_CHALLENGES')
  BY <1>1, <1>3, FS_Subset, FS_CardinalityType
<1> QED BY <1>4, LimitsAssumption DEF ChallengesFull

LEMMA CheckoutWorks ==
    ASSUME Service, ScriptsTyped, NEW v \in VUs, CheckoutScript(v)
    PROVE  Works(v)
<1>0. mode[v] = "checkout"
  BY DEF CheckoutScript
<1>1. CASE /\ Step(v, "login", "profile", LoginStatus(TRUE, 3, 2) = 200)
           /\ Login(TRUE, 3, 2)
           /\ KeepTokens(v, LoginStatus(TRUE, 3, 2))
  <2>1. LoginStatus(TRUE, 3, 2) = 200
    BY LimitsAssumption, ScriptsAssumption DEF LoginStatus
  <2>2. /\ Service' /\ Answers(v)
        /\ Worth(ACCESS_TOKENS', TOKEN_COUNTER, 3) /\ TOKEN_COUNTER' = TOKEN_COUNTER + 2
    <3>1. Login(TRUE, 3, 2)
      BY <1>1
    <3>2. 3 \in 1..MAX_ACCESS_USES /\ 2 \in 1..MAX_REFRESH_USES
      BY LimitsAssumption, ScriptsAssumption
    <3> QED BY <3>1, <3>2, LoginServes DEF Answers
  <2>3. Handles(v) /\ hand'[v].access = TOKEN_COUNTER
    <3>1. KeepTokens(v, 200)
      BY <1>1, <2>1
    <3>2. TOKEN_COUNTER \in Nat /\ TOKEN_COUNTER' \in Nat
      BY <2>2, NewNumber
    <3> QED BY <2>2, <3>1, <3>2, KeepTokensHandles
  <2>4. Goes(v, "login", "profile") /\ failed' = failed
    BY <1>1, <2>1 DEF Step, Goes
  <2>5. Moves(v) /\ pc'[v] = "profile" /\ mode'[v] = mode[v] /\ Explained(v)
    BY <2>4, GoesMoves DEF Requests
  <2>6. Pocket(v)'
    BY <1>0, <2>2, <2>3, <2>5 DEF Pocket, RefreshModes, MfaModes
  <2> QED BY <2>2, <2>3, <2>5, <2>6 DEF Works, Expected, Answers
<1>2. CASE /\ Step(v, "profile", "checkout", ProfileStatus(hand[v].access) = 200)
           /\ Profile(hand[v].access)
           /\ UNCHANGED hand
  <2>1. /\ Service' /\ Answers(v)
        /\ (ProfileStatus(hand[v].access) = 200) <=> Usable(ACCESS_TOKENS, hand[v].access)
        /\ Worth(ACCESS_TOKENS, hand[v].access, 3) => Worth(ACCESS_TOKENS', hand[v].access, 2)
    BY <1>2, ProfileServes DEF Answers
  <2>2. Handles(v) /\ hand'[v] = hand[v]
    BY <1>2, SameHandles
  <2>3. /\ Goes(v, "profile", "checkout")
        /\ ProfileStatus(hand[v].access) = 200 => failed' = failed
    BY <1>2 DEF Step, Goes
  <2>4. /\ Moves(v) /\ pc[v] = "profile" /\ pc'[v] = "checkout" /\ mode'[v] = mode[v]
        /\ failed' = failed => Explained(v)
    BY <2>3, GoesMoves DEF Requests
  <2>5. ASSUME Pocket(v)
        PROVE  Pocket(v)' /\ Explained(v)
    <3>1. Worth(ACCESS_TOKENS, hand[v].access, 3)
      BY <1>0, <2>4, <2>5 DEF Pocket
    <3>2. Usable(ACCESS_TOKENS, hand[v].access) /\ Usable(ACCESS_TOKENS', hand[v].access)
      BY <2>1, <3>1 DEF Worth, Usable
    <3> QED BY <1>0, <2>1, <2>2, <2>3, <2>4, <3>2 DEF Pocket, RefreshModes, MfaModes
  <2> QED BY <2>1, <2>2, <2>4, <2>5 DEF Works, Expected, Answers
<1>3. CASE /\ Step(v, "checkout", "idle", ProfileStatus(hand[v].access) = 200)
           /\ Checkout(hand[v].access)
           /\ UNCHANGED hand
  <2>1. /\ Service' /\ Answers(v)
        /\ (ProfileStatus(hand[v].access) = 200) <=> Usable(ACCESS_TOKENS, hand[v].access)
    BY <1>3, CheckoutServes DEF Answers
  <2>2. Handles(v)
    BY <1>3, SameHandles
  <2>3. /\ Goes(v, "checkout", "idle")
        /\ ProfileStatus(hand[v].access) = 200 => failed' = failed
    BY <1>3 DEF Step, Goes
  <2>4. /\ Moves(v) /\ pc[v] = "checkout" /\ pc'[v] = "idle"
        /\ failed' = failed => Explained(v)
    BY <2>3, GoesMoves DEF Requests
  <2>5. Pocket(v) => Explained(v)
    BY <1>0, <2>1, <2>3, <2>4 DEF Pocket
  <2> QED BY <2>1, <2>2, <2>4, <2>5, LastWorks
<1>4. CASE Lose(v, "login", "idle", Login(TRUE, 3, 2))
  <2>1. Loses(v, "login", "idle") /\ (Login(TRUE, 3, 2) \/ UNCHANGED authVars)
    BY <1>4 DEF Lose, Loses
  <2>2. Service' /\ Answers(v)
    BY <2>1, LoginServes, SameServes DEF Answers
  <2> QED BY <2>1, <2>2, LostLast DEF Requests
<1>5. CASE Lose(v, "profile", "checkout", Profile(hand[v].access))
  <2>1. Loses(v, "profile", "checkout") /\ (Profile(hand[v].access) \/ UNCHANGED authVars)
    BY <1>5 DEF Lose, Loses
  <2>2. /\ Moves(v) /\ pc[v] = "profile" /\ pc'[v] = "checkout" /\ mode'[v] = mode[v]
        /\ lost[v] \subseteq lost'[v] /\ "profile" \in lost'[v]
        /\ Handles(v) /\ hand'[v] = hand[v] /\ Explained(v)
    BY <2>1, LosesMoves DEF Requests
  <2>3. /\ Service' /\ Answers(v)
        /\ \/ Worth(ACCESS_TOKENS, hand[v].access, 3) => Worth(ACCESS_TOKENS', hand[v].access, 2)
           \/ UNCHANGED ACCESS_TOKENS
    <3>1. CASE Profile(hand[v].access)
      BY <3>1, ProfileServes DEF Answers
    <3>2. CASE UNCHANGED authVars
      BY <3>2, SameServes DEF Answers, authVars
    <3> QED BY <2>1, <3>1, <3>2
  <2>4. ASSUME Pocket(v)
        PROVE  Pocket(v)'
    <3>1. Worth(ACCESS_TOKENS, hand[v].access, 3)
      BY <1>0, <2>2, <2>4 DEF Pocket
    <3>2. Usable(ACCESS_TOKENS', hand[v].access)
      BY <2>3, <3>1 DEF Worth, Usable
    <3> QED BY <1>0, <2>2, <3>2 DEF Pocket, RefreshModes, MfaModes
  <2> QED BY <2>2, <2>3, <2>4 DEF Works, Expected, Answers
<1>6. CASE Lose(v, "checkout", "idle", Checkout(hand[v].access))
  <2>1. Loses(v, "checkout", "idle") /\ (Checkout(hand[v].access) \/ UNCHANGED authVars)
    BY <1>6 DEF Lose, Loses
  <2>2. Service' /\ Answers(v)
    BY <2>1, CheckoutServes, SameServes DEF Answers
  <2> QED BY <2>1, <2>2, LostLast DEF Requests
<1> QED BY <1>1, <1>2, <1>3, <1>4, <1>5, <1>6 DEF CheckoutScript

LEMMA RefreshWorks ==
    ASSUME Service, ScriptsTyped, NEW v \in VUs, RefreshScript(v)
    PROVE  Works(v)
<1> DEFINE uses == setting[v].access
           refreshes == setting[v].refresh
<1>0. mode[v] \in RefreshModes /\ mode[v] \in {"refresh", "failure-branches"}
      /\ uses \in Int /\ refreshes \in Int
  BY DEF RefreshScript, RefreshModes, ScriptsTyped
<1>1. CASE /\ Step(v, "badLogin", "login", LoginStatus(FALSE, 3, 2) = 401)
           /\ Login(FALSE, 3, 2)
           /\ UNCHANGED hand
  <2>1. LoginStatus(FALSE, 3, 2) = 401 /\ LoginStatus(FALSE, 3, 2) # 200
    BY LimitsAssumption, ScriptsAssumption DEF LoginStatus
  <2>2. Service' /\ Answers(v)
    <3>1. UNCHANGED authVars
      BY <1>1, <2>1 DEF Login
    <3> QED BY <3>1, SameServes DEF Answers
  <2>3. Handles(v)
    BY <1>1, SameHandles
  <2>4. Goes(v, "badLogin", "login") /\ failed' = failed
    BY <1>1, <2>1 DEF Step, Goes
  <2>5. Moves(v) /\ pc'[v] = "login" /\ mode'[v] = mode[v] /\ Explained(v)
    BY <2>4, GoesMoves DEF Requests
  <2>6. Pocket(v)'
    BY <1>0, <2>5 DEF Pocket, MfaModes
  <2> QED BY <2>2, <2>3, <2>5, <2>6 DEF Works, Expected, Answers
<1>2. CASE /\ Step(v, "login", "firstProfile", LoginStatus(TRUE, uses, refreshes) = 200)
           /\ Login(TRUE, uses, refreshes)
           /\ KeepTokens(v, LoginStatus(TRUE, uses, refreshes))
  <2> DEFINE status == LoginStatus(TRUE, uses, refreshes)
  <2>1. /\ Service' /\ Answers(v)
        /\ uses \in 1..MAX_ACCESS_USES /\ refreshes \in 1..MAX_REFRESH_USES =>
              /\ Worth(ACCESS_TOKENS', TOKEN_COUNTER, uses)
              /\ Worth(REFRESH_TOKENS', TOKEN_COUNTER + 1, refreshes)
              /\ TOKEN_COUNTER' = TOKEN_COUNTER + 2
    BY <1>2, LoginServes DEF Answers
  <2>2. status = 200 <=> uses \in 1..MAX_ACCESS_USES /\ refreshes \in 1..MAX_REFRESH_USES
    BY DEF LoginStatus
  <2>3. /\ Handles(v)
        /\ status = 200 => hand'[v].access = TOKEN_COUNTER /\ hand'[v].refresh = TOKEN_COUNTER + 1
    <3>1. TOKEN_COUNTER \in Nat /\ TOKEN_COUNTER' \in Nat
      BY <2>1, NewNumber DEF Service, TablesTyped
    <3>2. KeepTokens(v, status)
      BY <1>2
    <3> HIDE DEF status
    <3> QED BY <2>1, <2>2, <3>1, <3>2, KeepTokensHandles
  <2>4. /\ Goes(v, "login", "firstProfile")
        /\ status = 200 => failed' = failed
    BY <1>2 DEF Step, Goes
  <2>5. /\ Moves(v) /\ pc'[v] = "firstProfile" /\ mode'[v] = mode[v]
        /\ failed' = failed => Explained(v)
    BY <2>4, GoesMoves DEF Requests
  <2>6. ASSUME Sensible(v)
        PROVE  Pocket(v)' /\ Explained(v)
    <3>1. uses = 1 /\ refreshes \in 1..MAX_REFRESH_USES
      BY <1>0, <2>6 DEF Sensible
    <3>2. uses \in 1..MAX_ACCESS_USES
      BY <3>1, LimitsAssumption
    <3>3. /\ Worth(ACCESS_TOKENS', TOKEN_COUNTER, 1)
          /\ Worth(REFRESH_TOKENS', TOKEN_COUNTER + 1, refreshes)
          /\ status = 200
      BY <2>1, <2>2, <3>1, <3>2
    <3>4. refreshes > 0
      BY <3>1, LimitsAssumption
    <3>5. Usable(REFRESH_TOKENS', TOKEN_COUNTER + 1)
      BY <3>3, <3>4 DEF Worth, Usable
    <3> HIDE DEF status, uses, refreshes
    <3> QED BY <1>0, <2>3, <2>4, <2>5, <3>3, <3>5 DEF Pocket, MfaModes
  <2> QED BY <2>1, <2>3, <2>5, <2>6 DEF Works, Expected, Answers
<1>3. CASE /\ Step(v, "firstProfile", "expiredProfile", ProfileStatus(hand[v].access) = 200)
           /\ Profile(hand[v].access)
           /\ UNCHANGED hand
  <2>1. /\ Service' /\ Answers(v)
        /\ (ProfileStatus(hand[v].access) = 200) <=> Usable(ACCESS_TOKENS, hand[v].access)
        /\ Worth(ACCESS_TOKENS, hand[v].access, 1) => Worth(ACCESS_TOKENS', hand[v].access, 0)
        /\ UNCHANGED REFRESH_TOKENS
    BY <1>3, ProfileServes DEF Answers
  <2>2. Handles(v) /\ hand'[v] = hand[v]
    BY <1>3, SameHandles
  <2>3. /\ Goes(v, "firstProfile", "expiredProfile")
        /\ ProfileStatus(hand[v].access) = 200 => failed' = failed
    BY <1>3 DEF Step, Goes
  <2>4. /\ Moves(v) /\ pc[v] = "firstProfile" /\ pc'[v] = "expiredProfile" /\ mode'[v] = mode[v]
        /\ lost'[v] = lost[v]
        /\ failed' = failed => Explained(v)
        /\ Spoils("firstProfile") \cap lost[v] # {} => Explained(v)
    BY <2>3, GoesMoves DEF Requests
  <2>5. ASSUME Pocket(v)
        PROVE  Pocket(v)' /\ Explained(v)
    <3>1. /\ Worth(ACCESS_TOKENS, hand[v].access, 1)
          /\ Usable(REFRESH_TOKENS, hand[v].refresh)
      BY <1>0, <2>4, <2>5 DEF Pocket
    <3>2. Usable(ACCESS_TOKENS, hand[v].access)
      BY <3>1 DEF Worth, Usable
    <3> QED BY <1>0, <2>1, <2>2, <2>3, <2>4, <3>1, <3>2 DEF Pocket, RefreshModes, MfaModes
  <2> QED BY <2>1, <2>2, <2>4, <2>5 DEF Works, Expected, Answers
<1>4. CASE /\ Step(v, "expiredProfile", "refresh", ProfileStatus(hand[v].access) = 401)
           /\ Profile(hand[v].access)
           /\ UNCHANGED hand
  <2>1. /\ Service' /\ Answers(v)
        /\ (ProfileStatus(hand[v].access) = 401) <=> ~Usable(ACCESS_TOKENS, hand[v].access)
        /\ UNCHANGED REFRESH_TOKENS
    BY <1>4, ProfileServes DEF Answers
  <2>2. Handles(v) /\ hand'[v] = hand[v]
    BY <1>4, SameHandles
  <2>3. /\ Goes(v, "expiredProfile", "refresh")
        /\ ProfileStatus(hand[v].access) = 401 => failed' = failed
    BY <1>4 DEF Step, Goes
  <2>4. /\ Moves(v) /\ pc[v] = "expiredProfile" /\ pc'[v] = "refresh" /\ mode'[v] = mode[v]
        /\ lost'[v] = lost[v]
        /\ failed' = failed => Explained(v)
        /\ Spoils("expiredProfile") \cap lost[v] # {} => Explained(v)
    BY <2>3, GoesMoves DEF Requests
  <2>5. ASSUME Pocket(v)
        PROVE  Pocket(v)' /\ Explained(v)
    <3>1. /\ "firstProfile" \in lost[v] \/ Worth(ACCESS_TOKENS, hand[v].access, 0)
          /\ Usable(REFRESH_TOKENS, hand[v].refresh)
      BY <1>0, <2>4, <2>5 DEF Pocket
    <3>2. Worth(ACCESS_TOKENS, hand[v].access, 0) => ~Usable(ACCESS_TOKENS, hand[v].access)
      BY DEF Worth, Usable
    <3>3. "firstProfile" \in Spoils("expiredProfile")
      BY DEF Spoils
    <3>4. Explained(v)
      BY <2>1, <2>3, <2>4, <3>1, <3>2, <3>3
    <3> QED BY <1>0, <2>1, <2>2, <2>3, <2>4, <3>1, <3>4 DEF Pocket, RefreshModes, MfaModes
  <2> QED BY <2>1, <2>2, <2>4, <2>5 DEF Works, Expected, Answers
<1>5. CASE /\ Step(v, "refresh", "refreshedProfile", RefreshStatus(hand[v].refresh, uses + 1) = 200)
           /\ Refresh(hand[v].refresh, uses + 1)
           /\ Keep(v, "access", IF RefreshStatus(hand[v].refresh, uses + 1) = 200
                                THEN TOKEN_COUNTER ELSE 0)
  <2> DEFINE status == RefreshStatus(hand[v].refresh, uses + 1)
  <2>1. /\ Service' /\ Answers(v)
        /\ status = 200 => /\ Worth(ACCESS_TOKENS', TOKEN_COUNTER, uses + 1)
                           /\ TOKEN_COUNTER' = TOKEN_COUNTER + 1
    <3>1. uses + 1 \in Int
      BY <1>0
    <3>2. Refresh(hand[v].refresh, uses + 1)
      BY <1>5
    <3> HIDE DEF uses
    <3> QED BY <3>1, <3>2, PurchaseServes DEF Answers
  <2>2. /\ Handles(v)
        /\ status = 200 => hand'[v].access = TOKEN_COUNTER
    <3>1. TOKEN_COUNTER \in Nat /\ TOKEN_COUNTER' \in Nat
      BY <2>1, NewNumber DEF Service, TablesTyped
    <3>2. CASE status = 200
      <4>1. Keep(v, "access", TOKEN_COUNTER)
        BY <1>5, <3>2
      <4> QED BY <2>1, <3>1, <3>2, <4>1, KeepHandles
    <3>3. CASE status # 200
      <4>1. Keep(v, "access", 0)
        BY <1>5, <3>3
      <4> QED BY <3>3, <4>1, KeepHandles
    <3> QED BY <3>2, <3>3
  <2>3. /\ Goes(v, "refresh", "refreshedProfile")
        /\ status = 200 => failed' = failed
    BY <1>5 DEF Step, Goes
  <2>4. /\ Moves(v) /\ pc[v] = "refresh" /\ pc'[v] = "refreshedProfile"
        /\ mode'[v] = mode[v]
        /\ failed' = failed => Explained(v)
    BY <2>3, GoesMoves DEF Requests
  <2>5. ASSUME Pocket(v), Sensible(v)
        PROVE  Pocket(v)' /\ Explained(v)
    <3>1. Usable(REFRESH_TOKENS, hand[v].refresh) /\ uses = 1
      BY <1>0, <2>4, <2>5 DEF Pocket, Sensible
    <3>2. hand[v].refresh # 0
      BY <3>1 DEF Service, Numbered, Usable
    <3>3. status = 200
      <4>1. uses + 1 = 2 /\ 2 \in 1..MAX_ACCESS_USES
        BY <3>1, ScriptsAssumption, LimitsAssumption
      <4> QED BY <3>1, <3>2, <4>1 DEF RefreshStatus
    <3>4. Usable(ACCESS_TOKENS', TOKEN_COUNTER)
      BY <2>1, <3>1, <3>3 DEF Worth, Usable
    <3> HIDE DEF status, uses, refreshes
    <3> QED BY <1>0, <2>2, <2>3, <2>4, <3>3, <3>4 DEF Pocket, MfaModes
  <2> QED BY <2>1, <2>2, <2>4, <2>5 DEF Works, Expected, Answers
<1>6. CASE /\ Step(v, "refreshedProfile", "logout", ProfileStatus(hand[v].access) = 200)
           /\ Profile(hand[v].access)
           /\ UNCHANGED hand
  <2>1. /\ Service' /\ Answers(v)
        /\ (ProfileStatus(hand[v].access) = 200) <=> Usable(ACCESS_TOKENS, hand[v].access)
        /\ hand[v].access \in DOMAIN ACCESS_TOKENS => hand[v].access \in DOMAIN ACCESS_TOKENS'
    BY <1>6, ProfileServes DEF Answers
  <2>2. Handles(v) /\ hand'[v] = hand[v]
    BY <1>6, SameHandles
  <2>3. /\ Goes(v, "refreshedProfile", "logout")
        /\ ProfileStatus(hand[v].access) = 200 => failed' = failed
    BY <1>6 DEF Step, Goes
  <2>4. /\ Moves(v) /\ pc[v] = "refreshedProfile" /\ pc'[v] = "logout" /\ mode'[v] = mode[v]
        /\ lost'[v] = lost[v]
        /\ failed' = failed => Explained(v)
        /\ Spoils("refreshedProfile") \cap lost[v] # {} => Explained(v)
    BY <2>3, GoesMoves DEF Requests
  <2>5. ASSUME Pocket(v)
        PROVE  Pocket(v)' /\ Explained(v)
    <3>1. Usable(ACCESS_TOKENS, hand[v].access)
      BY <1>0, <2>4, <2>5 DEF Pocket
    <3>2. hand[v].access \in DOMAIN ACCESS_TOKENS
      BY <3>1 DEF Usable
    <3> QED BY <1>0, <2>1, <2>2, <2>3, <2>4, <3>1, <3>2 DEF Pocket, RefreshModes, MfaModes
  <2> QED BY <2>1, <2>2, <2>4, <2>5 DEF Works, Expected, Answers
<1>7. CASE /\ Step(v, "logout", "revokedProfile", LogoutStatus(hand[v].access) = 200)
           /\ Logout(hand[v].access)
           /\ UNCHANGED hand
  <2>1. /\ Service' /\ Answers(v)
        /\ (LogoutStatus(hand[v].access) = 200) <=> hand[v].access \in DOMAIN ACCESS_TOKENS
        /\ hand[v].access \in DOMAIN ACCESS_TOKENS =>
              /\ hand[v].access \in DOMAIN ACCESS_TOKENS'
              /\ ACCESS_TOKENS'[hand[v].access].revoked
    BY <1>7, LogoutServes DEF Answers
  <2>2. Handles(v) /\ hand'[v] = hand[v]
    BY <1>7, SameHandles
  <2>3. /\ Goes(v, "logout", "revokedProfile")
        /\ LogoutStatus(hand[v].access) = 200 => failed' = failed
    BY <1>7 DEF Step, Goes
  <2>4. /\ Moves(v) /\ pc[v] = "logout" /\ pc'[v] = "revokedProfile" /\ mode'[v] = mode[v]
        /\ lost'[v] = lost[v]
        /\ failed' = failed => Explained(v)
        /\ Spoils("logout") \cap lost[v] # {} => Explained(v)
    BY <2>3, GoesMoves DEF Requests
  <2>5. ASSUME Pocket(v)
        PROVE  Pocket(v)' /\ Explained(v)
    <3>1. hand[v].access \in DOMAIN ACCESS_TOKENS
      BY <1>0, <2>4, <2>5 DEF Pocket
    <3> QED BY <1>0, <2>1, <2>2, <2>3, <2>4, <3>1 DEF Pocket, RefreshModes, MfaModes
  <2> QED BY <2>1, <2>2, <2>4, <2>5 DEF Works, Expected, Answers
<1>8. CASE /\ Step(v, "revokedProfile", "idle", ProfileStatus(hand[v].access) = 401)
           /\ Profile(hand[v].access)
           /\ UNCHANGED hand
  <2>1. /\ Service' /\ Answers(v)
        /\ (ProfileStatus(hand[v].access) = 401) <=> ~Usable(ACCESS_TOKENS, hand[v].access)
    BY <1>8, ProfileServes DEF Answers
  <2>2. Handles(v) /\ hand'[v] = hand[v]
    BY <1>8, SameHandles
  <2>3. /\ Goes(v, "revokedProfile", "idle")
        /\ ProfileStatus(hand[v].access) = 401 => failed' = failed
    BY <1>8 DEF Step, Goes
  <2>4. /\ Moves(v) /\ pc[v] = "revokedProfile" /\ pc'[v] = "idle" /\ mode'[v] = mode[v]
        /\ lost'[v] = lost[v]
        /\ failed' = failed => Explained(v)
        /\ Spoils("revokedProfile") \cap lost[v] # {} => Explained(v)
    BY <2>3, GoesMoves DEF Requests
  <2>5. ASSUME Pocket(v)
        PROVE  Explained(v)
    <3>1. "logout" \in lost[v] \/ ACCESS_TOKENS[hand[v].access].revoked
      BY <1>0, <2>4, <2>5 DEF Pocket
    <3>2. ACCESS_TOKENS[hand[v].access].revoked => ~Usable(ACCESS_TOKENS, hand[v].access)
      BY DEF Usable
    <3>3. "logout" \in Spoils("revokedProfile")
      BY DEF Spoils
    <3> QED BY <1>0, <2>1, <2>3, <2>4, <3>1, <3>2, <3>3
  <2> QED BY <1>0, <2>1, <2>2, <2>4, <2>5, LastWorks
<1>9. CASE Lose(v, "badLogin", "login", Login(FALSE, 3, 2))
  <2>1. Loses(v, "badLogin", "login") /\ (Login(FALSE, 3, 2) \/ UNCHANGED authVars)
    BY <1>9 DEF Lose, Loses
  <2>2. UNCHANGED authVars
    BY <2>1, LimitsAssumption, ScriptsAssumption DEF Login, LoginStatus
  <2>3. Service' /\ Answers(v)
    BY <2>2, SameServes DEF Answers
  <2>4. /\ Moves(v) /\ pc'[v] = "login" /\ mode'[v] = mode[v]
        /\ Handles(v) /\ Explained(v)
    BY <2>1, LosesMoves DEF Requests
  <2>5. Pocket(v)'
    BY <1>0, <2>4 DEF Pocket, MfaModes
  <2> QED BY <2>3, <2>4, <2>5 DEF Works, Expected, Answers
<1>10. CASE Lose(v, "login", "idle", Login(TRUE, uses, refreshes))
  <2>1. Loses(v, "login", "idle") /\ (Login(TRUE, uses, refreshes) \/ UNCHANGED authVars)
    BY <1>10 DEF Lose, Loses
  <2>2. Service' /\ Answers(v)
    BY <2>1, LoginServes, SameServes DEF Answers
  <2> QED BY <2>1, <2>2, LostLast DEF Requests
<1>11. CASE Lose(v, "firstProfile", "expiredProfile", Profile(hand[v].access))
  <2>1. Loses(v, "firstProfile", "expiredProfile") /\ (Profile(hand[v].access) \/ UNCHANGED authVars)
    BY <1>11 DEF Lose, Loses
  <2>2. /\ Moves(v) /\ pc[v] = "firstProfile" /\ pc'[v] = "expiredProfile" /\ mode'[v] = mode[v]
        /\ lost[v] \subseteq lost'[v] /\ "firstProfile" \in lost'[v]
        /\ Handles(v) /\ hand'[v] = hand[v] /\ Explained(v)
    BY <2>1, LosesMoves DEF Requests
  <2>3. /\ Service' /\ Answers(v)
        /\ UNCHANGED REFRESH_TOKENS
    <3>1. CASE Profile(hand[v].access)
      BY <3>1, ProfileServes DEF Answers
    <3>2. CASE UNCHANGED authVars
      BY <3>2, SameServes DEF Answers, authVars
    <3> QED BY <2>1, <3>1, <3>2
  <2>4. ASSUME Pocket(v)
        PROVE  Pocket(v)'
    <3>1. Usable(REFRESH_TOKENS, hand[v].refresh)
      BY <1>0, <2>2, <2>4 DEF Pocket
    <3> QED BY <1>0, <2>2, <2>3, <3>1 DEF Pocket, RefreshModes, MfaModes
  <2> QED BY <2>2, <2>3, <2>4 DEF Works, Expected, Answers
<1>12. CASE Lose(v, "expiredProfile", "refresh", Profile(hand[v].access))
  <2>1. Loses(v, "expiredProfile", "refresh") /\ (Profile(hand[v].access) \/ UNCHANGED authVars)
    BY <1>12 DEF Lose, Loses
  <2>2. /\ Moves(v) /\ pc[v] = "expiredProfile" /\ pc'[v] = "refresh" /\ mode'[v] = mode[v]
        /\ lost[v] \subseteq lost'[v] /\ "expiredProfile" \in lost'[v]
        /\ Handles(v) /\ hand'[v] = hand[v] /\ Explained(v)
    BY <2>1, LosesMoves DEF Requests
  <2>3. /\ Service' /\ Answers(v)
        /\ UNCHANGED REFRESH_TOKENS
    <3>1. CASE Profile(hand[v].access)
      BY <3>1, ProfileServes DEF Answers
    <3>2. CASE UNCHANGED authVars
      BY <3>2, SameServes DEF Answers, authVars
    <3> QED BY <2>1, <3>1, <3>2
  <2>4. ASSUME Pocket(v)
        PROVE  Pocket(v)'
    <3>1. Usable(REFRESH_TOKENS, hand[v].refresh)
      BY <1>0, <2>2, <2>4 DEF Pocket
    <3> QED BY <1>0, <2>2, <2>3, <3>1 DEF Pocket, RefreshModes, MfaModes
  <2> QED BY <2>2, <2>3, <2>4 DEF Works, Expected, Answers
<1>13. CASE Lose(v, "refresh", "idle", Refresh(hand[v].refresh, uses + 1))
  <2>1. Loses(v, "refresh", "idle") /\ (Refresh(hand[v].refresh, uses + 1) \/ UNCHANGED authVars)
    BY <1>13 DEF Lose, Loses
  <2>2. Service' /\ Answers(v)
    <3>1. uses + 1 \in Int
      BY <1>0
    <3> HIDE DEF uses
    <3> QED BY <2>1, <3>1, PurchaseServes, SameServes DEF Answers
  <2> QED BY <2>1, <2>2, LostLast DEF Requests
<1>14. CASE Lose(v, "refreshedProfile", "logout", Profile(hand[v].access))
  <2>1. Loses(v, "refreshedProfile", "logout") /\ (Profile(hand[v].access) \/ UNCHANGED authVars)
    BY <1>14 DEF Lose, Loses
  <2>2. /\ Moves(v) /\ pc[v] = "refreshedProfile" /\ pc'[v] = "logout" /\ mode'[v] = mode[v]
        /\ lost[v] \subseteq lost'[v] /\ "refreshedProfile" \in lost'[v]
        /\ Handles(v) /\ hand'[v] = hand[v] /\ Explained(v)
    BY <2>1, LosesMoves DEF Requests
  <2>3. /\ Service' /\ Answers(v)
        /\ hand[v].access \in DOMAIN ACCESS_TOKENS => hand[v].access \in DOMAIN ACCESS_TOKENS'
    <3>1. CASE Profile(hand[v].access)
      BY <3>1, ProfileServes DEF Answers
    <3>2. CASE UNCHANGED authVars
      BY <3>2, SameServes DEF Answers, authVars
    <3> QED BY <2>1, <3>1, <3>2
  <2>4. ASSUME Pocket(v)
        PROVE  Pocket(v)'
    <3>1. hand[v].access \in DOMAIN ACCESS_TOKENS
      BY <1>0, <2>2, <2>4 DEF Pocket, Usable
    <3> QED BY <1>0, <2>2, <2>3, <3>1 DEF Pocket, RefreshModes, MfaModes
  <2> QED BY <2>2, <2>3, <2>4 DEF Works, Expected, Answers
<1>15. CASE Lose(v, "logout", "revokedProfile", Logout(hand[v].access))
  <2>1. Loses(v, "logout", "revokedProfile") /\ (Logout(hand[v].access) \/ UNCHANGED authVars)
    BY <1>15 DEF Lose, Loses
  <2>2. /\ Moves(v) /\ pc[v] = "logout" /\ pc'[v] = "revokedProfile" /\ mode'[v] = mode[v]
        /\ lost[v] \subseteq lost'[v] /\ "logout" \in lost'[v]
        /\ Handles(v) /\ hand'[v] = hand[v] /\ Explained(v)
    BY <2>1, LosesMoves DEF Requests
  <2>3. /\ Service' /\ Answers(v)
        /\ hand[v].access \in DOMAIN ACCESS_TOKENS => hand[v].access \in DOMAIN ACCESS_TOKENS'
    <3>1. CASE Logout(hand[v].access)
      BY <3>1, LogoutServes DEF Answers
    <3>2. CASE UNCHANGED authVars
      BY <3>2, SameServes DEF Answers, authVars
    <3> QED BY <2>1, <3>1, <3>2
  <2>4. ASSUME Pocket(v)
        PROVE  Pocket(v)'
    <3>1. hand[v].access \in DOMAIN ACCESS_TOKENS
      BY <1>0, <2>2, <2>4 DEF Pocket
    <3> QED BY <1>0, <2>2, <2>3, <3>1 DEF Pocket, RefreshModes, MfaModes
  <2> QED BY <2>2, <2>3, <2>4 DEF Works, Expected, Answers
<1>16. CASE Lose(v, "revokedProfile", "idle", Profile(hand[v].access))
  <2>1. Loses(v, "revokedProfile", "idle") /\ (Profile(hand[v].access) \/ UNCHANGED authVars)
    BY <1>16 DEF Lose, Loses
  <2>2. Service' /\ Answers(v)
    BY <2>1, ProfileServes, SameServes DEF Answers
  <2> QED BY <2>1, <2>2, LostLast DEF Requests
<1> QED
  <2> HIDE DEF uses, refreshes
  <2> QED BY <1>1, <1>2, <1>3, <1>4, <1>5, <1>6, <1>7, <1>8, <1>9, <1>10, <1>11, <1>12,
             <1>13, <1>14, <1>15, <1>16 DEF RefreshScript, uses, refreshes

LEMMA SessionWorks ==
    ASSUME Service, ScriptsTyped, NEW v \in VUs, SessionScript(v)
    PROVE  Works(v)
<1> DEFINE uses == setting[v].session
<1>0. mode[v] = "session"
  BY DEF SessionScript
<1>1. CASE /\ Step(v, "sessionLogin", "sessionProfile", SessionLoginStatus(TRUE, uses) = 200)
           /\ SessionLogin(TRUE, uses)
           /\ Keep(v, "session", IF SessionLoginStatus(TRUE, uses) = 200
                                 THEN TOKEN_COUNTER ELSE hand[v].session)
  <2> DEFINE status == SessionLoginStatus(TRUE, uses)
  <2>1. /\ Service' /\ Answers(v)
        /\ uses \in 1..MAX_SESSION_USES =>
              /\ Worth(SESSIONS', TOKEN_COUNTER, uses)
              /\ TOKEN_COUNTER' = TOKEN_COUNTER + 1
    BY <1>1, SessionLoginServes DEF Answers
  <2>2. status = 200 <=> uses \in 1..MAX_SESSION_USES
    BY DEF SessionLoginStatus
  <2>3. /\ Handles(v)
        /\ status = 200 => hand'[v].session = TOKEN_COUNTER
    <3>1. TOKEN_COUNTER \in Nat /\ TOKEN_COUNTER' \in Nat /\ hand[v].session \in Nat
      BY <2>1, NewNumber DEF Service, TablesTyped, ScriptsTyped, Hand
    <3>2. CASE status = 200
      <4>1. Keep(v, "session", TOKEN_COUNTER)
        BY <1>1, <3>2
      <4> HIDE DEF status
      <4> QED BY <2>1, <2>2, <3>1, <3>2, <4>1, KeepHandles
    <3>3. CASE status # 200
      <4>1. Keep(v, "session", hand[v].session)
        BY <1>1, <3>3
      <4> HIDE DEF status
      <4> QED BY <3>1, <3>3, <4>1, KeepHandles
    <3> QED BY <3>2, <3>3
  <2>4. /\ Goes(v, "sessionLogin", "sessionProfile")
        /\ status = 200 => failed' = failed
    BY <1>1 DEF Step, Goes
  <2>5. /\ Moves(v) /\ pc'[v] = "sessionProfile" /\ mode'[v] = mode[v]
        /\ failed' = failed => Explained(v)
    BY <2>4, GoesMoves DEF Requests
  <2>6. ASSUME Sensible(v)
        PROVE  Pocket(v)' /\ Explained(v)
    <3>1. uses \in 1..MAX_SESSION_USES
      BY <1>0, <2>6 DEF Sensible
    <3>2. uses > 0
      BY <3>1, LimitsAssumption
    <3>3. Usable(SESSIONS', TOKEN_COUNTER) /\ status = 200
      BY <2>1, <2>2, <3>1, <3>2 DEF Worth, Usable
    <3> HIDE DEF status, uses
    <3> QED BY <1>0, <2>3, <2>4, <2>5, <3>3 DEF Pocket, RefreshModes, MfaModes
  <2> QED BY <2>1, <2>3, <2>5, <2>6 DEF Works, Expected, Answers
<1>2. CASE /\ Step(v, "sessionProfile", "sessionLogout", SessionProfileStatus(hand[v].session) = 200)
           /\ SessionProfile(hand[v].session)
           /\ UNCHANGED hand
  <2>1. /\ Service' /\ Answers(v)
        /\ (SessionProfileStatus(hand[v].session) = 200) <=> Usable(SESSIONS, hand[v].session)
        /\ hand[v].session \in DOMAIN SESSIONS => hand[v].session \in DOMAIN SESSIONS'
    BY <1>2, SessionProfileServes DEF Answers
  <2>2. Handles(v) /\ hand'[v] = hand[v]
    BY <1>2, SameHandles
  <2>3. /\ Goes(v, "sessionProfile", "sessionLogout")
        /\ SessionProfileStatus(hand[v].session) = 200 => failed' = failed
    BY <1>2 DEF Step, Goes
  <2>4. /\ Moves(v) /\ pc[v] = "sessionProfile" /\ pc'[v] = "sessionLogout" /\ mode'[v] = mode[v]
        /\ lost'[v] = lost[v]
        /\ failed' = failed => Explained(v)
        /\ Spoils("sessionProfile") \cap lost[v] # {} => Explained(v)
    BY <2>3, GoesMoves DEF Requests
  <2>5. ASSUME Pocket(v)
        PROVE  Pocket(v)' /\ Explained(v)
    <3>1. \/ "sessionLogin" \in lost[v] /\ hand[v].session = 0
          \/ Usable(SESSIONS, hand[v].session)
      BY <1>0, <2>4, <2>5 DEF Pocket
    <3>2. Usable(SESSIONS, hand[v].session) => hand[v].session \in DOMAIN SESSIONS
      BY DEF Usable
    <3>3. "sessionLogin" \in Spoils("sessionProfile")
      BY DEF Spoils
    <3>4. Explained(v)
      BY <2>1, <2>3, <2>4, <3>1, <3>3
    <3> QED BY <1>0, <2>1, <2>2, <2>3, <2>4, <3>1, <3>2, <3>4 DEF Pocket, RefreshModes, MfaModes
  <2> QED BY <2>1, <2>2, <2>4, <2>5 DEF Works, Expected, Answers
<1>3. CASE /\ Step(v, "sessionLogout", "revokedSession", SessionLogoutStatus(hand[v].session) = 200)
           /\ SessionLogout(hand[v].session)
           /\ Keep(v, "session", IF SessionLogoutStatus(hand[v].session) = 200
                                 THEN 0 ELSE hand[v].session)
  <2> DEFINE status == SessionLogoutStatus(hand[v].session)
  <2>1. /\ Service' /\ Answers(v)
        /\ (status = 200) <=> hand[v].session \in DOMAIN SESSIONS
    BY <1>3, SessionLogoutServes DEF Answers
  <2>2. /\ Handles(v)
        /\ status = 200 => hand'[v].session = 0
        /\ hand[v].session = 0 => hand'[v].session = 0
    <3>1. hand[v].session \in Nat
      BY DEF ScriptsTyped, Hand
    <3>2. CASE status = 200
      <4>1. Keep(v, "session", 0)
        BY <1>3, <3>2
      <4> QED BY <4>1, KeepHandles
    <3>3. CASE status # 200
      <4>1. Keep(v, "session", hand[v].session)
        BY <1>3, <3>3
      <4> QED BY <3>1, <3>3, <4>1, KeepHandles
    <3> QED BY <3>2, <3>3
  <2>3. /\ Goes(v, "sessionLogout", "revokedSession")
        /\ status = 200 => failed' = failed
    BY <1>3 DEF Step, Goes
  <2>4. /\ Moves(v) /\ pc[v] = "sessionLogout" /\ pc'[v] = "revokedSession"
        /\ mode'[v] = mode[v]
        /\ failed' = failed => Explained(v)
        /\ Spoils("sessionLogout") \cap lost[v] # {} => Explained(v)
    BY <2>3, GoesMoves DEF Requests
  <2>5. ASSUME Pocket(v)
        PROVE  Pocket(v)' /\ Explained(v)
    <3>1. \/ "sessionLogin" \in lost[v] /\ hand[v].session = 0
          \/ hand[v].session \in DOMAIN SESSIONS
      BY <1>0, <2>4, <2>5 DEF Pocket
    <3>2. "sessionLogin" \in Spoils("sessionLogout")
      BY DEF Spoils
    <3>3. Explained(v) /\ hand'[v].session = 0
      BY <2>1, <2>2, <2>3, <2>4, <3>1, <3>2
    <3> QED BY <1>0, <2>4, <3>3 DEF Pocket, RefreshModes, MfaModes
  <2> QED BY <2>1, <2>2, <2>4, <2>5 DEF Works, Expected, Answers
<1>4. CASE /\ Step(v, "revokedSession", "idle", SessionProfileStatus(hand[v].session) = 401)
           /\ SessionProfile(hand[v].session)
           /\ UNCHANGED hand
  <2>1. /\ Service' /\ Answers(v)
        /\ (SessionProfileStatus(hand[v].session) = 401) <=> ~Usable(SESSIONS, hand[v].session)
    BY <1>4, SessionProfileServes DEF Answers
  <2>2. Handles(v) /\ hand'[v] = hand[v]
    BY <1>4, SameHandles
  <2>3. /\ Goes(v, "revokedSession", "idle")
        /\ SessionProfileStatus(hand[v].session) = 401 => failed' = failed
    BY <1>4 DEF Step, Goes
  <2>4. /\ Moves(v) /\ pc[v] = "revokedSession" /\ pc'[v] = "idle" /\ mode'[v] = mode[v]
        /\ lost'[v] = lost[v]
        /\ failed' = failed => Explained(v)
        /\ Spoils("revokedSession") \cap lost[v] # {} => Explained(v)
    BY <2>3, GoesMoves DEF Requests
  <2>5. ASSUME Pocket(v)
        PROVE  Explained(v)
    <3>1. "sessionLogout" \in lost[v] \/ hand[v].session = 0
      BY <1>0, <2>4, <2>5 DEF Pocket
    <3>2. hand[v].session = 0 => ~Usable(SESSIONS, hand[v].session)
      BY DEF Usable, Service, Numbered
    <3>3. "sessionLogout" \in Spoils("revokedSession")
      BY DEF Spoils
    <3> QED BY <1>0, <2>1, <2>3, <2>4, <3>1, <3>2, <3>3
  <2> QED BY <1>0, <2>1, <2>2, <2>4, <2>5, LastWorks
<1>5. CASE Lose(v, "sessionLogin", "sessionProfile", SessionLogin(TRUE, uses))
  <2>1. Loses(v, "sessionLogin", "sessionProfile") /\ (SessionLogin(TRUE, uses) \/ UNCHANGED authVars)
    BY <1>5 DEF Lose, Loses
  <2>2. /\ Moves(v) /\ pc[v] = "sessionLogin" /\ pc'[v] = "sessionProfile" /\ mode'[v] = mode[v]
        /\ lost[v] \subseteq lost'[v] /\ "sessionLogin" \in lost'[v]
        /\ Handles(v) /\ hand'[v] = hand[v] /\ Explained(v)
    BY <2>1, LosesMoves DEF Requests
  <2>3. /\ Service' /\ Answers(v)
    <3>1. CASE SessionLogin(TRUE, uses)
      BY <3>1, SessionLoginServes DEF Answers
    <3>2. CASE UNCHANGED authVars
      BY <3>2, SameServes DEF Answers, authVars
    <3> QED BY <2>1, <3>1, <3>2
  <2>4. ASSUME Pocket(v)
        PROVE  Pocket(v)'
    <3>1. hand[v].session = 0
      BY <1>0, <2>2, <2>4 DEF Pocket
    <3> QED BY <1>0, <2>2, <2>3, <3>1 DEF Pocket, RefreshModes, MfaModes
  <2> QED BY <2>2, <2>3, <2>4 DEF Works, Expected, Answers
<1>6. CASE Lose(v, "sessionProfile", "sessionLogout", SessionProfile(hand[v].session))
  <2>1. Loses(v, "sessionProfile", "sessionLogout") /\ (SessionProfile(hand[v].session) \/ UNCHANGED authVars)
    BY <1>6 DEF Lose, Loses
  <2>2. /\ Moves(v) /\ pc[v] = "sessionProfile" /\ pc'[v] = "sessionLogout" /\ mode'[v] = mode[v]
        /\ lost[v] \subseteq lost'[v] /\ "sessionProfile" \in lost'[v]
        /\ Handles(v) /\ hand'[v] = hand[v] /\ Explained(v)
    BY <2>1, LosesMoves DEF Requests
  <2>3. /\ Service' /\ Answers(v)
        /\ hand[v].session \in DOMAIN SESSIONS => hand[v].session \in DOMAIN SESSIONS'
    <3>1. CASE SessionProfile(hand[v].session)
      BY <3>1, SessionProfileServes DEF Answers
    <3>2. CASE UNCHANGED authVars
      BY <3>2, SameServes DEF Answers, authVars
    <3> QED BY <2>1, <3>1, <3>2
  <2>4. ASSUME Pocket(v)
        PROVE  Pocket(v)'
    <3>1. \/ "sessionLogin" \in lost[v] /\ hand[v].session = 0
          \/ hand[v].session \in DOMAIN SESSIONS
      BY <1>0, <2>2, <2>4 DEF Pocket, Usable
    <3> QED BY <1>0, <2>2, <2>3, <3>1 DEF Pocket, RefreshModes, MfaModes
  <2> QED BY <2>2, <2>3, <2>4 DEF Works, Expected, Answers
<1>7. CASE Lose(v, "sessionLogout", "revokedSession", SessionLogout(hand[v].session))
  <2>1. Loses(v, "sessionLogout", "revokedSession") /\ (SessionLogout(hand[v].session) \/ UNCHANGED authVars)
    BY <1>7 DEF Lose, Loses
  <2>2. /\ Moves(v) /\ pc[v] = "sessionLogout" /\ pc'[v] = "revokedSession" /\ mode'[v] = mode[v]
        /\ lost[v] \subseteq lost'[v] /\ "sessionLogout" \in lost'[v]
        /\ Handles(v) /\ hand'[v] = hand[v] /\ Explained(v)
    BY <2>1, LosesMoves DEF Requests
  <2>3. /\ Service' /\ Answers(v)
    <3>1. CASE SessionLogout(hand[v].session)
      BY <3>1, SessionLogoutServes DEF Answers
    <3>2. CASE UNCHANGED authVars
      BY <3>2, SameServes DEF Answers, authVars
    <3> QED BY <2>1, <3>1, <3>2
  <2>4. ASSUME Pocket(v)
        PROVE  Pocket(v)'
    <3> QED BY <1>0, <2>2, <2>3 DEF Pocket, RefreshModes, MfaModes
  <2> QED BY <2>2, <2>3, <2>4 DEF Works, Expected, Answers
<1>8. CASE Lose(v, "revokedSession", "idle", SessionProfile(hand[v].session))
  <2>1. Loses(v, "revokedSession", "idle") /\ (SessionProfile(hand[v].session) \/ UNCHANGED authVars)
    BY <1>8 DEF Lose, Loses
  <2>2. Service' /\ Answers(v)
    BY <2>1, SessionProfileServes, SameServes DEF Answers
  <2> QED BY <2>1, <2>2, LostLast DEF Requests
<1> QED
  <2> HIDE DEF uses
  <2> QED BY <1>1, <1>2, <1>3, <1>4, <1>5, <1>6, <1>7, <1>8 DEF SessionScript, uses

LEMMA VerifyAccepted ==
    ASSUME Service, NEW challenge \in DOMAIN MFA_CHALLENGES, ~MFA_CHALLENGES[challenge]
    PROVE  MfaVerifyStatus(challenge, TRUE, 2, 1, 2) = 200
<1>1. challenge # 0
  BY DEF Service, Numbered
<1>2. 2 \in 1..MAX_ACCESS_USES /\ 1 \in 1..MAX_REFRESH_USES /\ 2 \in 1..MAX_SESSION_USES
  BY LimitsAssumption, ScriptsAssumption
<1> QED BY <1>1, <1>2 DEF MfaVerifyStatus

LEMMA ChallengeHandles ==
    ASSUME Service, ScriptsTyped, NEW v \in VUs, MfaStart(TRUE),
           Keep(v, "challenge", IF MfaStartStatus(TRUE) = 200 THEN TOKEN_COUNTER ELSE 0)
    PROVE  /\ Service' /\ Answers(v) /\ Handles(v)
           /\ ~ChallengesFull => /\ hand'[v].challenge \in DOMAIN MFA_CHALLENGES'
                                 /\ ~MFA_CHALLENGES'[hand'[v].challenge]
<1>1. /\ Service' /\ Answers(v)
      /\ ~ChallengesFull => /\ TOKEN_COUNTER \in DOMAIN MFA_CHALLENGES'
                            /\ ~MFA_CHALLENGES'[TOKEN_COUNTER]
                            /\ TOKEN_COUNTER' = TOKEN_COUNTER + 1
  BY MfaStartServes DEF Answers
<1>2. CASE ChallengesFull
  <2>1. Keep(v, "challenge", 0)
    BY <1>2 DEF MfaStartStatus
  <2>2. Handles(v)
    BY <2>1, KeepHandles
  <2> QED BY <1>1, <1>2, <2>2
<1>3. CASE ~ChallengesFull
  <2>1. Keep(v, "challenge", TOKEN_COUNTER)
    BY <1>3 DEF MfaStartStatus
  <2>2. Handles(v) /\ hand'[v].challenge = TOKEN_COUNTER
    BY <1>1, <1>3, <2>1, KeepHandles, NewNumber
  <2> QED BY <1>1, <1>3, <2>2
<1> QED BY <1>2, <1>3

LEMMA MfaWorks ==
    ASSUME Service, ScriptsTyped, NEW v \in VUs, MfaScript(v)
    PROVE  Works(v)
<1>0. mode[v] \in MfaModes /\ mode[v] \in {"mfa-bearer", "mfa-session"}
  BY DEF MfaScript, MfaModes
<1>1. CASE /\ Step(v, "mfaStart", "mfaVerify", MfaStartStatus(TRUE) = 200)
           /\ MfaStart(TRUE)
           /\ Keep(v, "challenge", IF MfaStartStatus(TRUE) = 200 THEN TOKEN_COUNTER ELSE 0)
  <2>1. /\ Service' /\ Handles(v) /\ Answers(v)
        /\ ~ChallengesFull => /\ hand'[v].challenge \in DOMAIN MFA_CHALLENGES'
                              /\ ~MFA_CHALLENGES'[hand'[v].challenge]
    BY <1>1, ChallengeHandles
  <2>2. /\ Goes(v, "mfaStart", "mfaVerify")
        /\ ~ChallengesFull => failed' = failed
    BY <1>1 DEF Step, Goes, MfaStartStatus
  <2>3. /\ Moves(v) /\ pc'[v] = "mfaVerify" /\ mode'[v] = mode[v]
        /\ failed' = failed => Explained(v)
    BY <2>2, GoesMoves DEF Requests
  <2>4. ChallengesFull => ChallengesFull'
    BY <2>1, FullStaysFull DEF Answers
  <2>5. Pocket(v)'
    BY <1>0, <2>1, <2>3, <2>4 DEF Pocket, RefreshModes
  <2> QED BY <1>0, <2>1, <2>2, <2>3, <2>5 DEF Works, Expected, Answers
<1>2. CASE /\ mode[v] = "mfa-session"
           /\ Step(v, "mfaVerify", "mfaSessionProfile", MfaVerifyStatus(hand[v].challenge, TRUE, 2, 1, 2) = 200)
           /\ MfaVerify(hand[v].challenge, TRUE, "session", 2, 1, 2)
           /\ Keep(v, "session", IF MfaVerifyStatus(hand[v].challenge, TRUE, 2, 1, 2) = 200
                                 THEN TOKEN_COUNTER ELSE hand[v].session)
  <2> DEFINE status == MfaVerifyStatus(hand[v].challenge, TRUE, 2, 1, 2)
  <2>1. /\ Service' /\ Answers(v)
        /\ status = 200 => /\ Worth(SESSIONS', TOKEN_COUNTER, 2)
                           /\ TOKEN_COUNTER' = TOKEN_COUNTER + 1
    BY <1>2, SessionVerifyServes DEF Answers
  <2>2. Handles(v) /\ (status = 200 => hand'[v].session = TOKEN_COUNTER)
    <3>1. TOKEN_COUNTER \in Nat /\ TOKEN_COUNTER' \in Nat /\ hand[v].session \in Nat
      BY <2>1, NewNumber DEF Service, TablesTyped, ScriptsTyped, Hand
    <3>2. CASE status = 200
      <4>1. Keep(v, "session", TOKEN_COUNTER)
        BY <1>2, <3>2
      <4> HIDE DEF status
      <4> QED BY <2>1, <3>1, <3>2, <4>1, KeepHandles
    <3>3. CASE status # 200
      <4>1. Keep(v, "session", hand[v].session)
        BY <1>2, <3>3
      <4> HIDE DEF status
      <4> QED BY <3>1, <3>3, <4>1, KeepHandles
    <3> QED BY <3>2, <3>3
  <2>3. /\ Goes(v, "mfaVerify", "mfaSessionProfile")
        /\ status = 200 => failed' = failed
    BY <1>2 DEF Step, Goes
  <2>4. /\ Moves(v) /\ pc[v] = "mfaVerify" /\ pc'[v] = "mfaSessionProfile" /\ mode'[v] = mode[v]
        /\ failed' = failed => Explained(v)
    BY <2>3, GoesMoves DEF Requests
  <2>5. ChallengesFull => ChallengesFull'
    BY <2>1, FullStaysFull DEF Answers
  <2>6. Pocket(v) => ChallengesFull \/ status = 200
    BY <1>0, <2>4, VerifyAccepted DEF Pocket
  <2>7. status = 200 => Usable(SESSIONS', TOKEN_COUNTER)
    BY <2>1 DEF Worth, Usable
  <2>8. ASSUME Pocket(v)
        PROVE  Pocket(v)' /\ (Explained(v) \/ ChallengesFull)
    <3> HIDE DEF status
    <3> QED BY <1>0, <2>2, <2>3, <2>4, <2>5, <2>6, <2>7, <2>8 DEF Pocket, RefreshModes
  <2> QED BY <1>0, <2>1, <2>2, <2>4, <2>8 DEF Works, Expected, Answers
<1>3. CASE /\ mode[v] = "mfa-bearer"
           /\ Step(v, "mfaVerify", "mfaProfile", MfaVerifyStatus(hand[v].challenge, TRUE, 2, 1, 2) = 200)
           /\ MfaVerify(hand[v].challenge, TRUE, "bearer", 2, 1, 2)
           /\ KeepTokens(v, MfaVerifyStatus(hand[v].challenge, TRUE, 2, 1, 2))
  <2> DEFINE status == MfaVerifyStatus(hand[v].challenge, TRUE, 2, 1, 2)
  <2>1. /\ Service' /\ Answers(v)
        /\ status = 200 => /\ Worth(ACCESS_TOKENS', TOKEN_COUNTER, 2)
                           /\ TOKEN_COUNTER' = TOKEN_COUNTER + 2
    BY <1>3, TokenVerifyServes DEF Answers
  <2>2. Handles(v) /\ (status = 200 => hand'[v].access = TOKEN_COUNTER)
    <3>1. TOKEN_COUNTER \in Nat /\ TOKEN_COUNTER' \in Nat /\ hand[v].session \in Nat
      BY <2>1, NewNumber DEF Service, TablesTyped, ScriptsTyped, Hand
    <3>2. KeepTokens(v, status)
      BY <1>3
    <3> HIDE DEF status
    <3> QED BY <2>1, <3>1, <3>2, KeepTokensHandles
  <2>3. /\ Goes(v, "mfaVerify", "mfaProfile")
        /\ status = 200 => failed' = failed
    BY <1>3 DEF Step, Goes
  <2>4. /\ Moves(v) /\ pc[v] = "mfaVerify" /\ pc'[v] = "mfaProfile" /\ mode'[v] = mode[v]
        /\ failed' = failed => Explained(v)
    BY <2>3, GoesMoves DEF Requests
  <2>5. ChallengesFull => ChallengesFull'
    BY <2>1, FullStaysFull DEF Answers
  <2>6. Pocket(v) => ChallengesFull \/ status = 200
    BY <1>0, <2>4, VerifyAccepted DEF Pocket
  <2>7. status = 200 => Usable(ACCESS_TOKENS', TOKEN_COUNTER)
    BY <2>1 DEF Worth, Usable
  <2>8. ASSUME Pocket(v)
        PROVE  Pocket(v)' /\ (Explained(v) \/ ChallengesFull)
    <3> HIDE DEF status
    <3> QED BY <1>0, <2>2, <2>3, <2>4, <2>5, <2>6, <2>7, <2>8 DEF Pocket, RefreshModes
  <2> QED BY <1>0, <2>1, <2>2, <2>4, <2>8 DEF Works, Expected, Answers
<1>4. CASE /\ Step(v, "mfaSessionProfile", "idle", SessionProfileStatus(hand[v].session) = 200)
           /\ SessionProfile(hand[v].session)
           /\ UNCHANGED hand
  <2>1. /\ Service' /\ Answers(v)
        /\ (SessionProfileStatus(hand[v].session) = 200) <=> Usable(SESSIONS, hand[v].session)
    BY <1>4, SessionProfileServes DEF Answers
  <2>2. Handles(v) /\ hand'[v] = hand[v]
    BY <1>4, SameHandles
  <2>3. /\ Goes(v, "mfaSessionProfile", "idle")
        /\ SessionProfileStatus(hand[v].session) = 200 => failed' = failed
    BY <1>4 DEF Step, Goes
  <2>4. /\ Moves(v) /\ pc[v] = "mfaSessionProfile" /\ pc'[v] = "idle" /\ mode'[v] = mode[v]
        /\ lost'[v] = lost[v]
        /\ failed' = failed => Explained(v)
        /\ Spoils("mfaSessionProfile") \cap lost[v] # {} => Explained(v)
    BY <2>3, GoesMoves DEF Requests
  <2>5. ASSUME Pocket(v)
        PROVE  Explained(v) \/ ChallengesFull
    <3>1. \/ ChallengesFull
          \/ "mfaVerify" \in lost[v] \/ Usable(SESSIONS, hand[v].session)
      BY <1>0, <2>4, <2>5 DEF Pocket
    <3>2. "mfaVerify" \in Spoils("mfaSessionProfile")
      BY DEF Spoils
    <3> QED BY <1>0, <2>1, <2>3, <2>4, <3>1, <3>2
  <2> QED BY <1>0, <2>1, <2>2, <2>4, <2>5, LastWorks
<1>5. CASE /\ Step(v, "mfaProfile", "idle", ProfileStatus(hand[v].access) = 200)
           /\ Profile(hand[v].access)
           /\ UNCHANGED hand
  <2>1. /\ Service' /\ Answers(v)
        /\ (ProfileStatus(hand[v].access) = 200) <=> Usable(ACCESS_TOKENS, hand[v].access)
    BY <1>5, ProfileServes DEF Answers
  <2>2. Handles(v) /\ hand'[v] = hand[v]
    BY <1>5, SameHandles
  <2>3. /\ Goes(v, "mfaProfile", "idle")
        /\ ProfileStatus(hand[v].access) = 200 => failed' = failed
    BY <1>5 DEF Step, Goes
  <2>4. /\ Moves(v) /\ pc[v] = "mfaProfile" /\ pc'[v] = "idle" /\ mode'[v] = mode[v]
        /\ lost'[v] = lost[v]
        /\ failed' = failed => Explained(v)
        /\ Spoils("mfaProfile") \cap lost[v] # {} => Explained(v)
    BY <2>3, GoesMoves DEF Requests
  <2>5. ASSUME Pocket(v)
        PROVE  Explained(v) \/ ChallengesFull
    <3>1. ChallengesFull \/ Usable(ACCESS_TOKENS, hand[v].access)
      BY <1>0, <2>4, <2>5 DEF Pocket
    <3> QED BY <1>0, <2>1, <2>3, <2>4, <3>1
  <2> QED BY <1>0, <2>1, <2>2, <2>4, <2>5, LastWorks
<1>6. CASE Lose(v, "mfaStart", "idle", MfaStart(TRUE))
  <2>1. Loses(v, "mfaStart", "idle") /\ (MfaStart(TRUE) \/ UNCHANGED authVars)
    BY <1>6 DEF Lose, Loses
  <2>2. Service' /\ Answers(v)
    BY <2>1, MfaStartServes, SameServes DEF Answers
  <2> QED BY <2>1, <2>2, LostLast DEF Requests
<1>7. CASE /\ mode[v] = "mfa-session"
           /\ Lose(v, "mfaVerify", "mfaSessionProfile",
                   MfaVerify(hand[v].challenge, TRUE, "session", 2, 1, 2))
  <2>1. /\ Loses(v, "mfaVerify", "mfaSessionProfile")
        /\ MfaVerify(hand[v].challenge, TRUE, "session", 2, 1, 2) \/ UNCHANGED authVars
    BY <1>7 DEF Lose, Loses
  <2>2. /\ Moves(v) /\ pc'[v] = "mfaSessionProfile" /\ mode'[v] = mode[v]
        /\ "mfaVerify" \in lost'[v] /\ Handles(v) /\ Explained(v)
    BY <2>1, LosesMoves DEF Requests
  <2>3. Service' /\ Answers(v)
    BY <2>1, SessionVerifyServes, SameServes DEF Answers
  <2>4. Pocket(v)'
    BY <1>0, <2>2 DEF Pocket, RefreshModes
  <2> QED BY <2>2, <2>3, <2>4 DEF Works, Expected, Answers
<1>8. CASE /\ mode[v] = "mfa-bearer"
           /\ Lose(v, "mfaVerify", "idle", MfaVerify(hand[v].challenge, TRUE, "bearer", 2, 1, 2))
  <2>1. /\ Loses(v, "mfaVerify", "idle")
        /\ MfaVerify(hand[v].challenge, TRUE, "bearer", 2, 1, 2) \/ UNCHANGED authVars
    BY <1>8 DEF Lose, Loses
  <2>2. Service' /\ Answers(v)
    BY <2>1, TokenVerifyServes, SameServes DEF Answers
  <2> QED BY <2>1, <2>2, LostLast DEF Requests
<1>9. CASE Lose(v, "mfaSessionProfile", "idle", SessionProfile(hand[v].session))
  <2>1. Loses(v, "mfaSessionProfile", "idle") /\ (SessionProfile(hand[v].session) \/ UNCHANGED authVars)
    BY <1>9 DEF Lose, Loses
  <2>2. Service' /\ Answers(v)
    BY <2>1, SessionProfileServes, SameServes DEF Answers
  <2> QED BY <2>1, <2>2, LostLast DEF Requests
<1>10. CASE Lose(v, "mfaProfile", "idle", Profile(hand[v].access))
  <2>1. Loses(v, "mfaProfile", "idle") /\ (Profile(hand[v].access) \/ UNCHANGED authVars)
    BY <1>10 DEF Lose, Loses
  <2>2. Service' /\ Answers(v)
    BY <2>1, ProfileServes, SameServes DEF Answers
  <2> QED BY <2>1, <2>2, LostLast DEF Requests
<1> QED BY <1>1, <1>2, <1>3, <1>4, <1>5, <1>6, <1>7, <1>8, <1>9, <1>10 DEF MfaScript

LEMMA ManualWorks ==
    ASSUME Service, ScriptsTyped, NEW v \in VUs, ManualClient(v)
    PROVE  Works(v)
<1>0. mode[v] = "manual"
  BY DEF ManualClient
<1>1. ASSUME NEW from \in Requests, NEW to \in Requests, from # "idle", Goes(v, from, to),
             failed' = failed
      PROVE  Moves(v) /\ Expected(v)
  <2>1. Moves(v) /\ mode'[v] = mode[v] /\ Explained(v)
    BY <1>1, GoesMoves
  <2>2. Pocket(v)'
    BY <1>0, <2>1 DEF Pocket, RefreshModes, MfaModes
  <2> QED BY <2>1, <2>2 DEF Expected
<1>2. CASE /\ Step(v, "login", "order", TRUE)
           /\ Login(TRUE, 1, 1)
           /\ KeepTokens(v, LoginStatus(TRUE, 1, 1))
  <2>1. LoginStatus(TRUE, 1, 1) = 200
    BY LimitsAssumption, ScriptsAssumption DEF LoginStatus
  <2>2. Service' /\ Answers(v) /\ TOKEN_COUNTER' = TOKEN_COUNTER + 2
    <3>1. Login(TRUE, 1, 1)
      BY <1>2
    <3>2. 1 \in 1..MAX_ACCESS_USES /\ 1 \in 1..MAX_REFRESH_USES
      BY LimitsAssumption
    <3> QED BY <3>1, <3>2, LoginServes DEF Answers
  <2>4. Handles(v)
    <3>1. KeepTokens(v, 200)
      BY <1>2, <2>1
    <3>2. TOKEN_COUNTER \in Nat /\ TOKEN_COUNTER' \in Nat
      BY <2>2, NewNumber
    <3> QED BY <2>2, <3>1, <3>2, KeepTokensHandles
  <2>5. Goes(v, "login", "order") /\ failed' = failed
    BY <1>2 DEF Step, Goes
  <2> QED BY <1>1, <2>2, <2>4, <2>5 DEF Works, Requests, Answers
<1>3. CASE /\ Step(v, "order", "mfaStart", TRUE)
           /\ GetOrder(hand[v].access)
           /\ UNCHANGED hand
  <2>1. Service' /\ Answers(v)
    BY <1>3, ProfileServes DEF GetOrder, Answers
  <2>2. Handles(v)
    BY <1>3, SameHandles
  <2>3. Goes(v, "order", "mfaStart") /\ failed' = failed
    BY <1>3 DEF Step, Goes
  <2> QED BY <1>1, <2>1, <2>2, <2>3 DEF Works, Requests, Answers
<1>4. CASE /\ Step(v, "mfaStart", "mfaVerify", TRUE)
           /\ MfaStart(TRUE)
           /\ Keep(v, "challenge", IF MfaStartStatus(TRUE) = 200 THEN TOKEN_COUNTER ELSE 0)
  <2>1. Service' /\ Handles(v) /\ Answers(v)
    BY <1>4, ChallengeHandles
  <2>2. Goes(v, "mfaStart", "mfaVerify") /\ failed' = failed
    BY <1>4 DEF Step, Goes
  <2> QED BY <1>1, <2>1, <2>2 DEF Works, Requests, Answers
<1>5. CASE /\ Step(v, "mfaVerify", "idle", TRUE)
           /\ MfaVerify(hand[v].challenge, FALSE, "session", 2, 1, 2)
           /\ UNCHANGED hand
  <2>1. MfaVerifyStatus(hand[v].challenge, FALSE, 2, 1, 2) # 200
    BY DEF MfaVerifyStatus
  <2>2. UNCHANGED authVars
    BY <1>5, <2>1 DEF MfaVerify
  <2>3. Service' /\ Answers(v)
    BY <2>2, SameServes DEF Answers
  <2>4. Handles(v)
    BY <1>5, SameHandles
  <2>5. Goes(v, "mfaVerify", "idle") /\ failed' = failed
    BY <1>5 DEF Step, Goes
  <2> QED BY <1>1, <2>3, <2>4, <2>5 DEF Works, Requests, Answers
<1> QED BY <1>2, <1>3, <1>4, <1>5 DEF ManualClient

-----------------------------------------------------------------------------
(***************************************************************************)
(* What the others hold is worth what it was: nobody else's number is      *)
(* shown.                                                                  *)
(***************************************************************************)
LEMMA OthersKeep ==
    ASSUME Service, Service', NEW w \in VUs, Pocket(w),
           NEW a, NEW r, NEW s, NEW c, Serves(a, r, s, c),
           hand[w].access # 0 => hand[w].access # a,
           hand[w].refresh # 0 => hand[w].refresh # r,
           hand[w].session # 0 => hand[w].session # s,
           hand[w].challenge # 0 => hand[w].challenge # c,
           UNCHANGED mode, hand'[w] = hand[w], pc'[w] = pc[w], lost'[w] = lost[w]
    PROVE  Pocket(w)'
<1>1. /\ 0 \notin DOMAIN ACCESS_TOKENS /\ 0 \notin DOMAIN REFRESH_TOKENS
      /\ 0 \notin DOMAIN SESSIONS /\ 0 \notin DOMAIN MFA_CHALLENGES
  BY DEF Service, Numbered
<1>2. /\ hand[w].access \in DOMAIN ACCESS_TOKENS =>
            /\ hand[w].access \in DOMAIN ACCESS_TOKENS'
            /\ ACCESS_TOKENS'[hand[w].access] = ACCESS_TOKENS[hand[w].access]
      /\ hand[w].refresh \in DOMAIN REFRESH_TOKENS =>
            /\ hand[w].refresh \in DOMAIN REFRESH_TOKENS'
            /\ REFRESH_TOKENS'[hand[w].refresh] = REFRESH_TOKENS[hand[w].refresh]
      /\ hand[w].session \in DOMAIN SESSIONS =>
            /\ hand[w].session \in DOMAIN SESSIONS'
            /\ SESSIONS'[hand[w].session] = SESSIONS[hand[w].session]
      /\ hand[w].challenge \in DOMAIN MFA_CHALLENGES =>
            /\ hand[w].challenge \in DOMAIN MFA_CHALLENGES'
            /\ MFA_CHALLENGES'[hand[w].challenge] = MFA_CHALLENGES[hand[w].challenge]
  BY <1>1 DEF Serves, KeepsBut, KeepsChallengesBut
<1>3. /\ \A n : Worth(ACCESS_TOKENS, hand[w].access, n) => Worth(ACCESS_TOKENS', hand[w].access, n)
      /\ Usable(ACCESS_TOKENS, hand[w].access) => Usable(ACCESS_TOKENS', hand[w].access)
      /\ Usable(REFRESH_TOKENS, hand[w].refresh) => Usable(REFRESH_TOKENS', hand[w].refresh)
      /\ Usable(SESSIONS, hand[w].session) => Usable(SESSIONS', hand[w].session)
  BY <1>2 DEF Worth, Usable
<1>4. ChallengesFull => ChallengesFull'
  BY FullStaysFull
<1>5. hand'[w] = hand[w] /\ pc'[w] = pc[w] /\ mode'[w] = mode[w] /\ lost'[w] = lost[w]
  OBVIOUS
<1>6. CASE mode[w] \notin RefreshModes \cup MfaModes
  BY <1>2, <1>3, <1>5, <1>6 DEF Pocket
<1>7. CASE mode[w] \in RefreshModes
  <2>1. mode[w] # "checkout" /\ mode[w] # "session" /\ mode[w] \notin MfaModes
    BY <1>7 DEF RefreshModes, MfaModes
  <2> QED BY <1>2, <1>3, <1>5, <1>7, <2>1 DEF Pocket
<1>8. CASE mode[w] \in MfaModes
  <2>1. mode[w] # "checkout" /\ mode[w] # "session" /\ mode[w] \notin RefreshModes
    BY <1>8 DEF RefreshModes, MfaModes
  <2> QED BY <1>2, <1>3, <1>4, <1>5, <1>8, <2>1 DEF Pocket
<1> QED BY <1>6, <1>7, <1>8

\* New numbers are nobody's yet.
LEMMA HoldersKept ==
    ASSUME Service, Service', ScriptsTyped, NEW v \in VUs, OneHolder, Held, Works(v)
    PROVE  OneHolder' /\ Held'
<1>1. TOKEN_COUNTER \in Nat \ {0} /\ TOKEN_COUNTER' \in Nat \ {0} /\ TOKEN_COUNTER' >= TOKEN_COUNTER
  BY DEF Service, TablesTyped, Works, Serves
<1>2. Moves(v) /\ Handles(v)
  BY DEF Works
<1>3. \A w \in VUs : \A c \in {"access", "refresh", "session", "challenge"} :
         hand[w][c] \in Nat /\ hand'[w][c] \in Nat
  BY <1>2 DEF ScriptsTyped, Handles, Hand
<1>4. \A w \in VUs : w # v => hand'[w] = hand[w]
  BY <1>2 DEF Handles
<1>5. \A c \in {"access", "refresh", "session", "challenge"} :
         \/ hand'[v][c] = 0
         \/ hand'[v][c] = hand[v][c]
         \/ TOKEN_COUNTER <= hand'[v][c] /\ hand'[v][c] < TOKEN_COUNTER'
  BY <1>1, <1>2 DEF Handles
<1>6. Current' \subseteq Current
  BY <1>2 DEF Current, Moves
<1>7. \A w \in Current : \A c \in {"access", "refresh", "session", "challenge"} :
         w \in VUs /\ hand[w][c] < TOKEN_COUNTER
  BY DEF Held, Current
<1>8. Held'
  <2>1. ASSUME NEW w \in Current, NEW c \in {"access", "refresh", "session", "challenge"}
        PROVE  hand'[w][c] < TOKEN_COUNTER'
    <3>1. CASE w = v
      BY <1>1, <1>3, <1>5, <1>7, <3>1
    <3>2. CASE w # v
      BY <1>1, <1>3, <1>4, <1>7, <3>2
    <3> QED BY <3>1, <3>2
  <2> QED BY <1>6, <2>1 DEF Held
<1>9. OneHolder'
  <2>1. ASSUME NEW x \in Current, NEW w \in Current, x # w,
               NEW c \in {"access", "refresh", "session", "challenge"}, hand'[x][c] # 0
        PROVE  hand'[x][c] # hand'[w][c]
    <3>1. hand[x][c] # 0 => hand[x][c] # hand[w][c]
      BY <2>1 DEF OneHolder, Current
    <3>2. hand[w][c] # 0 => hand[w][c] # hand[x][c]
      BY <2>1 DEF OneHolder, Current
    <3>3. CASE x = v
      BY <1>1, <1>3, <1>4, <1>5, <1>7, <2>1, <3>1, <3>3
    <3>4. CASE w = v
      BY <1>1, <1>3, <1>4, <1>5, <1>7, <2>1, <3>1, <3>2, <3>4
    <3>5. CASE x # v /\ w # v
      BY <1>4, <1>7, <3>1, <3>5, <2>1
    <3> QED BY <3>3, <3>4, <3>5
  <2> QED BY <1>6, <2>1 DEF OneHolder, Current
<1> QED BY <1>8, <1>9

\* Beside a sheltered iteration of w, v shows numbers of its own.
LEMMA OwnNumbers ==
    ASSUME AInv, NEW v \in VUs, NEW w \in VUs, v # w, pc[v] # "idle", pc[w] # "idle",
           w \notin exposed
    PROVE  \A c \in {"access", "refresh", "session", "challenge"} :
              hand[w][c] # 0 => hand[w][c] # hand[v][c]
<1>1. old = {}
  BY DEF AInv, Sheltered
<1> QED BY <1>1 DEF AInv, OneHolder

LEMMA WorksKeepsAInv ==
    ASSUME AInv, NEW v \in VUs, Works(v)
    PROVE  AInv'
<1>1. Service /\ ScriptsTyped /\ OneHolder /\ ChecksHold /\ Held /\ Sheltered
  BY TypeParts DEF AInv, Service
<1>2. /\ Service' /\ Moves(v) /\ Handles(v) /\ Expected(v)
      /\ Serves(hand[v].access, hand[v].refresh, hand[v].session, hand[v].challenge)
  BY DEF Works
<1>3. /\ UNCHANGED <<mode, setting, exposed>> /\ pc[v] # "idle"
      /\ \A w \in VUs : w # v => /\ pc'[w] = pc[w] /\ hand'[w] = hand[w]
                                 /\ failed'[w] = failed[w] /\ lost'[w] = lost[w]
      /\ lost[v] \subseteq lost'[v]
      /\ old' = IF pc'[v] = "idle" THEN old \ {v} ELSE old
  BY <1>2 DEF Moves, Handles
<1>4. ScriptsTyped'
  BY <1>1, <1>2 DEF ScriptsTyped, Moves, Handles
<1>5. TypeOK' /\ Numbered'
  <2>1. TablesTyped' /\ Numbered'
    BY <1>2 DEF Service
  <2>2. TypeOK'
    BY <1>4, <2>1 DEF TypeOK, TablesTyped, ScriptsTyped, Hand, Table
  <2> QED BY <2>1, <2>2
<1>6. OneHolder' /\ Held'
  BY <1>1, <1>2, HoldersKept
<1>7. Sheltered'
  BY <1>1, <1>3 DEF Sheltered
<1>8. \A w \in VUs : Sensible(w)' <=> Sensible(w)
  BY <1>3 DEF Sensible
<1>9. ASSUME NEW w \in VUs, w \notin exposed, Sensible(w)
      PROVE  Pocket(w)'
  <2>1. Pocket(w)
    BY <1>9 DEF AInv
  <2>2. CASE w = v
    BY <1>2, <1>9, <2>1, <2>2 DEF Expected
  <2>3. CASE w # v /\ pc[w] = "idle"
    <3>1. pc'[w] = "idle"
      BY <1>3, <2>3
    <3> QED BY <3>1 DEF Pocket
  <2>4. CASE w # v /\ pc[w] # "idle"
    <3>1. \A c \in {"access", "refresh", "session", "challenge"} :
              hand[w][c] # 0 => hand[w][c] # hand[v][c]
      BY <1>3, <1>9, <2>4, OwnNumbers
    <3>2. /\ hand[w].access # 0 => hand[w].access # hand[v].access
          /\ hand[w].refresh # 0 => hand[w].refresh # hand[v].refresh
          /\ hand[w].session # 0 => hand[w].session # hand[v].session
          /\ hand[w].challenge # 0 => hand[w].challenge # hand[v].challenge
      BY <3>1
    <3> QED BY <1>1, <1>2, <1>3, <2>1, <2>4, <3>2, OthersKeep
  <2> QED BY <2>2, <2>3, <2>4
<1>10. ChecksHold'
  <2>1. ChallengesFull => ChallengesFull'
    BY <1>1, <1>2, FullStaysFull
  <2>2. ASSUME NEW w \in VUs, NEW f \in failed'[w], w \notin exposed, Sensible(w),
               ~(mode[w] \in MfaModes /\ ChallengesFull)
        PROVE  Spoils(f) \cap lost'[w] # {}
    <3>1. CASE f \in failed[w]
      <4>1. Spoils(f) \cap lost[w] # {}
        BY <1>1, <2>2, <3>1 DEF ChecksHold
      <4>2. lost[w] \subseteq lost'[w]
        BY <1>3
      <4> QED BY <4>1, <4>2
    <3>2. CASE f \notin failed[w]
      <4>1. w = v
        BY <1>3, <2>2, <3>2
      <4>2. Explained(v)
        BY <1>2, <2>2, <4>1 DEF Expected, AInv
      <4> QED BY <2>2, <3>2, <4>1, <4>2 DEF Explained
    <3> QED BY <3>1, <3>2
  <2> QED BY <1>3, <1>8, <2>1, <2>2 DEF ChecksHold
<1>11. \A w \in VUs : w \notin exposed' /\ Sensible(w)' => Pocket(w)'
  BY <1>3, <1>8, <1>9
<1> QED BY <1>5, <1>6, <1>7, <1>10, <1>11 DEF AInv
-----------------------------------------------------------------------------
LEMMA StartKeepsAInv ==
    ASSUME AInv, NEW v \in VUs, StartIteration(v)
    PROVE  AInv'
<1>1. Service /\ ScriptsTyped
  BY TypeParts DEF AInv, Service
<1>2. /\ pc[v] = "idle"
      /\ pc' = [pc EXCEPT ![v] = FirstRequest(mode[v])]
      /\ hand' = [hand EXCEPT ![v] = EmptyHanded]
      /\ failed' = [failed EXCEPT ![v] = {}]
      /\ lost' = [lost EXCEPT ![v] = {}]
      /\ exposed' = IF old = {} THEN exposed \ {v} ELSE exposed \cup {v}
      /\ started' = started + 1
      /\ UNCHANGED <<authVars, mode, setting, restarts, old>>
  BY DEF StartIteration
<1>3. FirstRequest(mode[v]) \in {"badLogin", "sessionLogin", "mfaStart", "login"}
  BY <1>1 DEF FirstRequest, ScriptsTyped, Modes, MfaModes
<1>4. EmptyHanded \in Hand /\ \A credential \in {"access", "refresh", "session", "challenge"} :
                                 EmptyHanded[credential] = 0
  BY DEF EmptyHanded, Hand
<1>5. /\ hand' \in [VUs -> Hand] /\ hand'[v] = EmptyHanded
      /\ pc' \in [VUs -> Requests] /\ pc'[v] \in {"badLogin", "sessionLogin", "mfaStart", "login"}
      /\ failed' \in [VUs -> SUBSET Requests] /\ lost' \in [VUs -> SUBSET Requests]
      /\ failed'[v] = {}
      /\ \A w \in VUs : w # v => /\ pc'[w] = pc[w] /\ hand'[w] = hand[w]
                                 /\ failed'[w] = failed[w] /\ lost'[w] = lost[w]
  BY <1>1, <1>2, <1>3, <1>4 DEF ScriptsTyped, Requests
<1>6. ScriptsTyped'
  BY <1>1, <1>2, <1>5 DEF ScriptsTyped
<1>7. Service'
  BY <1>1, <1>2, SameServes
<1>8. TypeOK' /\ Numbered'
  BY <1>6, <1>7 DEF TypeOK, TablesTyped, ScriptsTyped, Hand, Table, Service
<1>9. Current' \subseteq Current \cup {v}
  BY <1>2, <1>5 DEF Current
<1>10. TOKEN_COUNTER' = TOKEN_COUNTER /\ TOKEN_COUNTER \in Nat \ {0}
  BY <1>1, <1>2 DEF authVars, Service, TablesTyped
<1>11. Held'
  <2>1. ASSUME NEW w \in Current \cup {v}, NEW c \in {"access", "refresh", "session", "challenge"}
        PROVE  hand'[w][c] < TOKEN_COUNTER
    <3>1. CASE w = v
      BY <1>4, <1>5, <1>10, <3>1
    <3>2. CASE w # v
      BY <1>5, <3>2 DEF AInv, Held, Current
    <3> QED BY <3>1, <3>2
  <2> QED BY <1>9, <1>10, <2>1 DEF Held
<1>12. OneHolder'
  <2>1. ASSUME NEW x \in Current \cup {v}, NEW w \in Current \cup {v}, x # w,
               NEW c \in {"access", "refresh", "session", "challenge"}, hand'[x][c] # 0
        PROVE  hand'[x][c] # hand'[w][c]
    <3>1. x # v
      BY <1>4, <1>5, <2>1
    <3>2. CASE w = v
      BY <1>4, <1>5, <2>1, <3>2
    <3>3. CASE w # v
      BY <1>5, <2>1, <3>1, <3>3 DEF AInv, OneHolder, Current
    <3> QED BY <3>2, <3>3
  <2> QED BY <1>9, <2>1 DEF OneHolder, Current
<1>13. Sheltered'
  BY <1>2, <1>5 DEF AInv, Sheltered
<1>14. \A w \in VUs : /\ Sensible(w)' <=> Sensible(w)
                      /\ w # v => (w \in exposed' <=> w \in exposed)
  BY <1>2 DEF Sensible
<1>15. ChecksHold'
  BY <1>2, <1>5, <1>14 DEF AInv, ChecksHold, ChallengesFull, authVars
<1>16. ASSUME NEW w \in VUs, w \notin exposed', Sensible(w)
       PROVE  Pocket(w)'
  <2>1. CASE w = v
    <3>1. hand'[v].session = 0
      BY <1>5 DEF EmptyHanded
    <3> QED BY <1>5, <2>1, <3>1 DEF Pocket
  <2>2. CASE w # v
    <3>1. Pocket(w)
      BY <1>14, <1>16, <2>2 DEF AInv
    <3>2. Serves(0, 0, 0, 0)
      BY <1>1, <1>2, SameServes
    <3> QED BY <1>1, <1>2, <1>5, <1>7, <2>2, <3>1, <3>2, OthersKeep
  <2> QED BY <2>1, <2>2
<1> QED BY <1>8, <1>11, <1>12, <1>13, <1>14, <1>15, <1>16 DEF AInv

LEMMA RestartKeepsAInv ==
    ASSUME AInv, Restart
    PROVE  AInv'
<1>1. Service /\ ScriptsTyped
  BY TypeParts DEF AInv, Service
<1>2. /\ Service' /\ restarts' = restarts + 1
      /\ old' = {v \in VUs : pc[v] # "idle"} /\ exposed' = VUs
      /\ UNCHANGED <<mode, setting, pc, hand, failed, lost, started>>
  BY RestartServes DEF Restart
<1>3. ScriptsTyped'
  BY <1>1, <1>2 DEF ScriptsTyped
<1>4. TypeOK' /\ Numbered'
  BY <1>2, <1>3 DEF TypeOK, TablesTyped, ScriptsTyped, Hand, Table, Service
<1>5. OneHolder' /\ Held'
  BY <1>2 DEF OneHolder, Held, Current
<1>6. ChecksHold' /\ Sheltered'
  BY <1>2 DEF ChecksHold, Sheltered
<1> QED BY <1>2, <1>4, <1>5, <1>6 DEF AInv

LEMMA InitAInv == Init => AInv
<1> SUFFICES ASSUME Init PROVE AInv
  OBVIOUS
<1>1. TypeOK
  <2>1. setting \in [VUs -> [access : Int, refresh : Int, session : Int]]
    <3>1. ASSUME NEW m \in Modes
          PROVE  Settings(m) \subseteq [access : Int, refresh : Int, session : Int]
      <4> DEFINE a == IF m \in RefreshModes THEN AccessUses ELSE {1}
                 r == IF m \in RefreshModes THEN RefreshUses ELSE {2}
                 s == IF m = "session" THEN SessionUses ELSE {2}
      <4>1. a \subseteq Int /\ r \subseteq Int /\ s \subseteq Int
        BY ScriptsAssumption
      <4>2. Settings(m) = [access : a, refresh : r, session : s]
        BY DEF Settings
      <4>3. \A x \in [access : a, refresh : r, session : s] :
               x \in [access : Int, refresh : Int, session : Int]
        <5> HIDE DEF a, r, s
        <5> QED BY <4>1
      <4>4. [access : a, refresh : r, session : s] \subseteq
               [access : Int, refresh : Int, session : Int]
        <5> HIDE DEF a, r, s
        <5> QED BY <4>3
      <4> QED BY <4>2, <4>4
    <3>2. UNION {Settings(m) : m \in Modes} \subseteq [access : Int, refresh : Int, session : Int]
      BY <3>1
    <3> QED BY <3>2 DEF Init
  <2> QED BY <2>1 DEF Init, AuthInit, TypeOK, EmptyTable, EmptyHanded, Requests
<1>2. Numbered
  BY DEF Init, AuthInit, Numbered, EmptyTable
<1>3. OneHolder /\ Held /\ Sheltered
  BY DEF Init, OneHolder, Held, Sheltered, Current
<1>4. ChecksHold
  BY DEF Init, ChecksHold
<1>5. \A v \in VUs : Pocket(v)
  BY DEF Init, Pocket
<1> QED BY <1>1, <1>2, <1>3, <1>4, <1>5 DEF AInv

LEMMA NextAInv == AInv /\ [Next]_vars => AInv'
<1> SUFFICES ASSUME AInv, [Next]_vars PROVE AInv'
  OBVIOUS
<1>1. Service /\ ScriptsTyped
  BY TypeParts DEF AInv, Service
<1>2. ASSUME NEW v \in VUs, CheckoutScript(v) \/ RefreshScript(v) \/ SessionScript(v)
                            \/ MfaScript(v) \/ ManualClient(v)
      PROVE  AInv'
  BY <1>1, <1>2, CheckoutWorks, RefreshWorks, SessionWorks, MfaWorks, ManualWorks,
     WorksKeepsAInv
<1>3. CASE UNCHANGED vars
  <2>1. Service' /\ ScriptsTyped'
    BY <1>1, <1>3, SameServes DEF vars, scriptVars, ScriptsTyped
  <2>2. TypeOK' /\ Numbered'
    BY <2>1 DEF TypeOK, TablesTyped, ScriptsTyped, Hand, Table, Service
  <2>3. OneHolder' /\ Held' /\ Sheltered' /\ ChecksHold'
    BY <1>3 DEF AInv, vars, scriptVars, authVars, OneHolder, Held, Current, Sheltered,
                ChecksHold, Sensible, ChallengesFull
  <2>4. (\A v \in VUs : v \notin exposed /\ Sensible(v) => Pocket(v))'
    BY <1>3 DEF AInv, vars, scriptVars, authVars, Pocket, Sensible, ChallengesFull,
                Worth, Usable
  <2> QED BY <2>2, <2>3, <2>4 DEF AInv
<1> QED BY <1>2, <1>3, StartKeepsAInv, RestartKeepsAInv DEF Next
-----------------------------------------------------------------------------
(***************************************************************************)
(* The tables and the virtual users keep their types.                      *)
(***************************************************************************)
THEOREM AuthTypeCorrect == Spec => []TypeOK
<1>1. AInv => TypeOK
  BY DEF AInv
<1> QED BY <1>1, InitAInv, NextAInv, PTL DEF Spec

(***************************************************************************)
(* No two virtual users, of one run or of several, hold the same           *)
(* credential, those apart whose iterations began before a restart.        *)
(***************************************************************************)
THEOREM CredentialsHaveOneHolder == Spec => []OneHolder
<1>1. AInv => OneHolder
  BY DEF AInv
<1> QED BY <1>1, InitAInv, NextAInv, PTL DEF Spec

(***************************************************************************)
(* No check of a script with sensible settings fails but for a lost answer *)
(* of the same iteration, a restart it met, or a full table of challenges, *)
(* however the requests of all users interleave, are lost or handled       *)
(* without their answer arriving.                                          *)
(***************************************************************************)
THEOREM ChecksFailForAReason == Spec => []ChecksHold
<1>1. AInv => ChecksHold
  BY DEF AInv
<1> QED BY <1>1, InitAInv, NextAInv, PTL DEF Spec

(***************************************************************************)
(* A credential that is used up, logged out or verified stays so until the *)
(* target is started again; after a restart as well, though its numbers    *)
(* are given out a second time.                                            *)
(***************************************************************************)
THEOREM SpentCredentialsStaySpent == Spec => SpentStaysSpent
<1> DEFINE Stays ==
      restarts' = restarts =>
         /\ \A t \in DOMAIN ACCESS_TOKENS :
               ~Usable(ACCESS_TOKENS, t) => ~Usable(ACCESS_TOKENS', t)
         /\ \A t \in DOMAIN REFRESH_TOKENS :
               ~Usable(REFRESH_TOKENS, t) => ~Usable(REFRESH_TOKENS', t)
         /\ \A t \in DOMAIN SESSIONS : ~Usable(SESSIONS, t) => ~Usable(SESSIONS', t)
         /\ \A c \in DOMAIN MFA_CHALLENGES :
               MFA_CHALLENGES[c] => c \in DOMAIN MFA_CHALLENGES' /\ MFA_CHALLENGES'[c]
<1>1. AInv /\ [Next]_vars => [Stays]_vars
  <2> SUFFICES ASSUME AInv, Next PROVE Stays
    OBVIOUS
  <2>1. Service /\ ScriptsTyped
    BY TypeParts DEF AInv, Service
  <2>2. ASSUME NEW a, NEW r, NEW s, NEW c, Serves(a, r, s, c)
        PROVE  Stays
    BY <2>2 DEF Serves, KeepsBut, KeepsChallengesBut
  <2>3. ASSUME NEW v \in VUs, StartIteration(v)
        PROVE  Stays
    <3>1. UNCHANGED authVars
      BY <2>3 DEF StartIteration
    <3>2. Serves(0, 0, 0, 0)
      BY <2>1, <3>1, SameServes
    <3> QED BY <2>2, <3>2
  <2>4. ASSUME NEW v \in VUs, CheckoutScript(v) \/ RefreshScript(v) \/ SessionScript(v)
                              \/ MfaScript(v) \/ ManualClient(v)
        PROVE  Stays
    <3>1. Works(v)
      BY <2>1, <2>4, CheckoutWorks, RefreshWorks, SessionWorks, MfaWorks, ManualWorks
    <3> QED BY <2>2, <3>1 DEF Works
  <2>5. CASE Restart
    BY <2>1, <2>5 DEF Restart, ScriptsTyped
  <2> QED BY <2>3, <2>4, <2>5 DEF Next
<1>2. SpentStaysSpent <=> [][Stays]_vars
  BY DEF SpentStaysSpent
<1> HIDE DEF Stays
<1> QED BY <1>1, <1>2, InitAInv, NextAInv, PTL DEF Spec
=============================================================================
