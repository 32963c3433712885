------------------------------ MODULE AuthFlow ------------------------------
(***************************************************************************)
(* The auth-flow target (src/target-apps/apps/auth_flow_api.py): an        *)
(* in-memory service that hands out credentials with a number of uses.     *)
(* Every handler is an `async def' without an await, so it runs to its end *)
(* before the next request is looked at: one handler is one step.          *)
(*                                                                         *)
(* A credential is the value of TOKEN_COUNTER it was made from.  The code  *)
(* hashes that number with a prefix and the user's name, so that two       *)
(* credentials are equal exactly when table, user and number are; every    *)
(* template logs in as the same user.  0 stands for a value the answer did *)
(* not contain; a body that should hold it is refused with 422.            *)
(*                                                                         *)
(* A handler has two halves: <Name>Status is the HTTP status it answers in *)
(* the current state, and <Name> is what it does to the tables.            *)
(***************************************************************************)
EXTENDS Integers, FiniteSets

CONSTANTS
    MAX_ACCESS_USES,            \* largest access_token_uses of a request
    MAX_REFRESH_USES,           \* largest refresh_uses
    MAX_SESSION_USES,           \* largest session_uses
    MAX_ACTIVE_MFA_CHALLENGES   \* size at which the challenge table is full

ASSUME LimitsAssumption ==
    /\ {MAX_ACCESS_USES, MAX_REFRESH_USES, MAX_SESSION_USES} \subseteq Nat \ {0}
    /\ MAX_ACTIVE_MFA_CHALLENGES \in Nat \ {0}

VARIABLES
    ACCESS_TOKENS, REFRESH_TOKENS, SESSIONS,    \* number -> credential
    MFA_CHALLENGES,                             \* number -> was it used
    TOKEN_COUNTER,                              \* next number to be given out
    ORDER_COUNTER                               \* next order to be given out

authVars == <<ACCESS_TOKENS, REFRESH_TOKENS, SESSIONS, MFA_CHALLENGES,
              TOKEN_COUNTER, ORDER_COUNTER>>

Credential == [uses_left : Nat, revoked : BOOLEAN]

EmptyTable == [t \in {} |-> 0]

AuthInit ==
    /\ ACCESS_TOKENS = EmptyTable
    /\ REFRESH_TOKENS = EmptyTable
    /\ SESSIONS = EmptyTable
    /\ MFA_CHALLENGES = EmptyTable
    /\ TOKEN_COUNTER = 1
    /\ ORDER_COUNTER = 1

(***************************************************************************)
(* The tables.                                                             *)
(***************************************************************************)
\* Mutation: a token without uses is good once more.
UsableOnceMore(T, t) == t \in DOMAIN T /\ ~T[t].revoked /\ T[t].uses_left >= 0

Usable(T, t) == t \in DOMAIN T /\ ~T[t].revoked /\ T[t].uses_left > 0

Issue(T, t, uses) ==
    [x \in DOMAIN T \cup {t} |->
        IF x = t THEN [uses_left |-> uses, revoked |-> FALSE] ELSE T[x]]

Spend(T, t) == [T EXCEPT ![t].uses_left = @ - 1]

\* Mutation: a logout leaves the token as it is.
RevokeNothing(T, t) == T

Revoke(T, t) == [T EXCEPT ![t].revoked = TRUE]

ChallengesFull == Cardinality(DOMAIN MFA_CHALLENGES) >= MAX_ACTIVE_MFA_CHALLENGES

(***************************************************************************)
(* POST /api/login.                                                        *)
(***************************************************************************)
LoginStatus(validPassword, uses, refreshes) ==
    IF uses \notin 1..MAX_ACCESS_USES \/ refreshes \notin 1..MAX_REFRESH_USES THEN 422
    ELSE IF ~validPassword THEN 401 ELSE 200

Login(validPassword, uses, refreshes) ==
    IF LoginStatus(validPassword, uses, refreshes) = 200
    THEN /\ ACCESS_TOKENS' = Issue(ACCESS_TOKENS, TOKEN_COUNTER, uses)
         /\ REFRESH_TOKENS' = Issue(REFRESH_TOKENS, TOKEN_COUNTER + 1, refreshes)
         /\ TOKEN_COUNTER' = TOKEN_COUNTER + 2
         /\ UNCHANGED <<SESSIONS, MFA_CHALLENGES, ORDER_COUNTER>>
    ELSE UNCHANGED authVars

(***************************************************************************)
(* GET /api/profile: a bearer token is spent by being shown.  POST         *)
(* /api/checkout spends it as well and adds an order; GET /api/orders      *)
(* spends it even when there is no such order.                             *)
(***************************************************************************)
ProfileStatus(token) == IF Usable(ACCESS_TOKENS, token) THEN 200 ELSE 401

Profile(token) ==
    /\ ACCESS_TOKENS' = IF ProfileStatus(token) = 200
                        THEN Spend(ACCESS_TOKENS, token) ELSE ACCESS_TOKENS
    /\ UNCHANGED <<REFRESH_TOKENS, SESSIONS, MFA_CHALLENGES, TOKEN_COUNTER, ORDER_COUNTER>>

Checkout(token) ==
    /\ ACCESS_TOKENS' = IF ProfileStatus(token) = 200
                        THEN Spend(ACCESS_TOKENS, token) ELSE ACCESS_TOKENS
    /\ ORDER_COUNTER' = IF ProfileStatus(token) = 200
                        THEN ORDER_COUNTER + 1 ELSE ORDER_COUNTER
    /\ UNCHANGED <<REFRESH_TOKENS, SESSIONS, MFA_CHALLENGES, TOKEN_COUNTER>>

GetOrder(token) == Profile(token)

(***************************************************************************)
(* POST /api/logout: a spent or revoked token may still be logged out.     *)
(***************************************************************************)
LogoutStatus(token) == IF token \in DOMAIN ACCESS_TOKENS THEN 200 ELSE 401

Logout(token) ==
    /\ ACCESS_TOKENS' = IF LogoutStatus(token) = 200
                        THEN Revoke(ACCESS_TOKENS, token) ELSE ACCESS_TOKENS
    /\ UNCHANGED <<REFRESH_TOKENS, SESSIONS, MFA_CHALLENGES, TOKEN_COUNTER, ORDER_COUNTER>>

(***************************************************************************)
(* POST /api/refresh: one use of the refresh token buys an access token.   *)
(***************************************************************************)
RefreshStatus(token, uses) ==
    IF token = 0 \/ uses \notin 1..MAX_ACCESS_USES THEN 422
    ELSE IF Usable(REFRESH_TOKENS, token) THEN 200 ELSE 401

\* Mutation: a refreshed token takes the number of the next one.
RefreshStandsStill(token, uses) ==
    IF RefreshStatus(token, uses) = 200
    THEN /\ REFRESH_TOKENS' = Spend(REFRESH_TOKENS, token)
         /\ ACCESS_TOKENS' = Issue(ACCESS_TOKENS, TOKEN_COUNTER, uses)
         /\ UNCHANGED <<SESSIONS, MFA_CHALLENGES, TOKEN_COUNTER, ORDER_COUNTER>>
    ELSE UNCHANGED authVars

Refresh(token, uses) ==
    IF RefreshStatus(token, uses) = 200
    THEN /\ REFRESH_TOKENS' = Spend(REFRESH_TOKENS, token)
         /\ ACCESS_TOKENS' = Issue(ACCESS_TOKENS, TOKEN_COUNTER, uses)
         /\ TOKEN_COUNTER' = TOKEN_COUNTER + 1
         /\ UNCHANGED <<SESSIONS, MFA_CHALLENGES, ORDER_COUNTER>>
    ELSE UNCHANGED authVars

(***************************************************************************)
(* POST /api/session/login, GET /api/session/profile and POST              *)
(* /api/session/logout.                                                    *)
(***************************************************************************)
SessionLoginStatus(validPassword, uses) ==
    IF uses \notin 1..MAX_SESSION_USES THEN 422
    ELSE IF ~validPassword THEN 401 ELSE 200

\* Mutation: a login renews the sessions its user has.
SessionLoginRenews(validPassword, uses) ==
    IF SessionLoginStatus(validPassword, uses) = 200
    THEN /\ SESSIONS' = [x \in DOMAIN SESSIONS \cup {TOKEN_COUNTER} |->
                            [uses_left |-> uses, revoked |-> FALSE]]
         /\ TOKEN_COUNTER' = TOKEN_COUNTER + 1
         /\ UNCHANGED <<ACCESS_TOKENS, REFRESH_TOKENS, MFA_CHALLENGES, ORDER_COUNTER>>
    ELSE UNCHANGED authVars

SessionLogin(validPassword, uses) ==
    IF SessionLoginStatus(validPassword, uses) = 200
    THEN /\ SESSIONS' = Issue(SESSIONS, TOKEN_COUNTER, uses)
         /\ TOKEN_COUNTER' = TOKEN_COUNTER + 1
         /\ UNCHANGED <<ACCESS_TOKENS, REFRESH_TOKENS, MFA_CHALLENGES, ORDER_COUNTER>>
    ELSE UNCHANGED authVars

SessionProfileStatus(cookie) == IF Usable(SESSIONS, cookie) THEN 200 ELSE 401

SessionProfile(cookie) ==
    /\ SESSIONS' = IF SessionProfileStatus(cookie) = 200
                   THEN Spend(SESSIONS, cookie) ELSE SESSIONS
    /\ UNCHANGED <<ACCESS_TOKENS, REFRESH_TOKENS, MFA_CHALLENGES, TOKEN_COUNTER, ORDER_COUNTER>>

SessionLogoutStatus(cookie) == IF cookie \in DOMAIN SESSIONS THEN 200 ELSE 401

SessionLogout(cookie) ==
    /\ SESSIONS' = IF SessionLogoutStatus(cookie) = 200
                   THEN Revoke(SESSIONS, cookie) ELSE SESSIONS
    /\ UNCHANGED <<ACCESS_TOKENS, REFRESH_TOKENS, MFA_CHALLENGES, TOKEN_COUNTER, ORDER_COUNTER>>

(***************************************************************************)
(* POST /api/mfa/login/start: the cap is compared with every challenge     *)
(* ever started, used ones too, and no handler takes one out.              *)
(***************************************************************************)
MfaStartStatus(validPassword) ==
    IF ~validPassword THEN 401
    ELSE IF ChallengesFull THEN 422 ELSE 200

MfaStart(validPassword) ==
    IF MfaStartStatus(validPassword) = 200
    THEN /\ MFA_CHALLENGES' = [c \in DOMAIN MFA_CHALLENGES \cup {TOKEN_COUNTER} |->
                                  IF c = TOKEN_COUNTER THEN FALSE ELSE MFA_CHALLENGES[c]]
         /\ TOKEN_COUNTER' = TOKEN_COUNTER + 1
         /\ UNCHANGED <<ACCESS_TOKENS, REFRESH_TOKENS, SESSIONS, ORDER_COUNTER>>
    ELSE UNCHANGED authVars

(***************************************************************************)
(* POST /api/mfa/login/verify: a challenge buys one session or one pair of *)
(* tokens.                                                                 *)
(***************************************************************************)
MfaVerifyStatus(challenge, validCode, uses, refreshes, sessionUses) ==
    IF \/ challenge = 0 \/ uses \notin 1..MAX_ACCESS_USES
       \/ refreshes \notin 1..MAX_REFRESH_USES \/ sessionUses \notin 1..MAX_SESSION_USES
    THEN 422
    ELSE IF challenge \notin DOMAIN MFA_CHALLENGES THEN 401
    ELSE IF MFA_CHALLENGES[challenge] \/ ~validCode THEN 401 ELSE 200

MfaVerify(challenge, validCode, issueMode, uses, refreshes, sessionUses) ==
    IF MfaVerifyStatus(challenge, validCode, uses, refreshes, sessionUses) = 200
    THEN /\ MFA_CHALLENGES' = [MFA_CHALLENGES EXCEPT ![challenge] = TRUE]
         /\ \/ /\ issueMode = "session"
               /\ SESSIONS' = Issue(SESSIONS, TOKEN_COUNTER, sessionUses)
               /\ TOKEN_COUNTER' = TOKEN_COUNTER + 1
               /\ UNCHANGED <<ACCESS_TOKENS, REFRESH_TOKENS>>
            \/ /\ issueMode = "bearer"
               /\ ACCESS_TOKENS' = Issue(ACCESS_TOKENS, TOKEN_COUNTER, uses)
               /\ REFRESH_TOKENS' = Issue(REFRESH_TOKENS, TOKEN_COUNTER + 1, refreshes)
               /\ TOKEN_COUNTER' = TOKEN_COUNTER + 2
               /\ UNCHANGED SESSIONS
         /\ UNCHANGED ORDER_COUNTER
    ELSE UNCHANGED authVars

(***************************************************************************)
(* The service is started again: its tables are gone, and its counters     *)
(* give out the same numbers, hence the same tokens, once more.            *)
(***************************************************************************)
RestartTarget ==
    /\ ACCESS_TOKENS' = EmptyTable
    /\ REFRESH_TOKENS' = EmptyTable
    /\ SESSIONS' = EmptyTable
    /\ MFA_CHALLENGES' = EmptyTable
    /\ TOKEN_COUNTER' = 1
    /\ ORDER_COUNTER' = 1
=============================================================================
