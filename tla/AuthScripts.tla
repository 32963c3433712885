----------------------------- MODULE AuthScripts -----------------------------
(***************************************************************************)
(* The three k6 scripts that load the auth-flow target                     *)
(* (src/engines/k6/target_apps_auth_*.js), run by virtual users against    *)
(* one AuthFlow service.  A virtual user sends a request, waits for its    *)
(* answer and checks it before it goes on, so that one request with its    *)
(* check is one step, and the requests of several virtual users, of one or *)
(* of several runs, interleave.                                            *)
(*                                                                         *)
(* A failed check is recorded and the iteration goes on, as in k6.  So     *)
(* does a request whose answer is lost (a timeout, a reset connection):    *)
(* k6 hands the script a response with status 0 and no body, whether or    *)
(* not the target handled the request.  Its check fails, and reading a     *)
(* body that is not there ends the iteration.  The variables of an         *)
(* iteration and the cookies of a virtual user are gone when the next one  *)
(* starts.                                                                 *)
(***************************************************************************)
EXTENDS AuthFlow

CONSTANTS
    VUs,                \* the virtual users of all the runs
    AccessUses, RefreshUses, SessionUses,   \* values that tasks give the scripts
    MaxIterations,      \* bound: iterations started in all
    MaxLost,            \* bound: requests with a lost answer in the last iterations
    MaxRestarts         \* bound: times the target is started again

(***************************************************************************)
(* The settings are environment variables, which a task may give any       *)
(* value; user, password, order and MFA channel keep their defaults here.  *)
(* The limits of the target (5, 3 and 5 uses) leave room for the uses that *)
(* the scripts write themselves.                                           *)
(***************************************************************************)
ASSUME ScriptsAssumption ==
    /\ AccessUses \subseteq Int /\ RefreshUses \subseteq Int /\ SessionUses \subseteq Int
    /\ MAX_ACCESS_USES >= 3 /\ MAX_REFRESH_USES >= 2 /\ MAX_SESSION_USES >= 2
    /\ MaxIterations \in Nat /\ MaxLost \in Nat /\ MaxRestarts \in Nat

VARIABLES
    mode,       \* the script of each virtual user, and its FLOW_MODE
    setting,    \* ACCESS_TOKEN_USES, REFRESH_USES and SESSION_USES of each one
    pc,         \* the request each one sends next
    hand,       \* the credentials of each one's iteration
    failed,     \* the requests of each one's iteration whose check failed
    lost,       \* the requests of each one's iteration whose answer was lost
    started,    \* iterations started
    restarts,   \* times the target was started again
    old,        \* who is in an iteration that began before the last restart
    exposed     \* whose iteration met a restart, or one that had

scriptVars == <<mode, setting, pc, hand, failed, lost, started, restarts, old, exposed>>
vars == <<authVars, scriptVars>>

Modes == {"checkout", "refresh", "failure-branches", "session",
          "mfa-bearer", "mfa-session", "manual"}

Requests == {"idle", "login", "profile", "checkout",
             "badLogin", "firstProfile", "expiredProfile", "refresh",
             "refreshedProfile", "logout", "revokedProfile",
             "sessionLogin", "sessionProfile", "sessionLogout", "revokedSession",
             "mfaStart", "mfaVerify", "mfaProfile", "mfaSessionProfile", "order"}

RefreshModes == {"refresh", "failure-branches"}

MfaModes == {"mfa-bearer", "mfa-session"}

\* What the script of a mode reads from its environment; the rest is left as
\* its default.
Settings(m) ==
    [access : IF m \in RefreshModes THEN AccessUses ELSE {1},
     refresh : IF m \in RefreshModes THEN RefreshUses ELSE {2},
     session : IF m = "session" THEN SessionUses ELSE {2}]

EmptyHanded == [access |-> 0, refresh |-> 0, session |-> 0, challenge |-> 0]

FirstRequest(m) ==
    CASE m = "failure-branches" -> "badLogin"
      [] m = "session" -> "sessionLogin"
      [] m \in MfaModes -> "mfaStart"
      [] m \in {"checkout", "refresh", "manual"} -> "login"

Init ==
    /\ AuthInit
    /\ mode \in [VUs -> Modes]
    /\ setting \in [VUs -> UNION {Settings(m) : m \in Modes}]
    /\ \A v \in VUs : setting[v] \in Settings(mode[v])
    /\ pc = [v \in VUs |-> "idle"]
    /\ hand = [v \in VUs |-> EmptyHanded]
    /\ failed = [v \in VUs |-> {}]
    /\ lost = [v \in VUs |-> {}]
    /\ started = 0
    /\ restarts = 0
    /\ old = {}
    /\ exposed = {}

StartIteration(v) ==
    /\ pc[v] = "idle" /\ started < MaxIterations
    /\ pc' = [pc EXCEPT ![v] = FirstRequest(mode[v])]
    /\ hand' = [hand EXCEPT ![v] = EmptyHanded]
    /\ failed' = [failed EXCEPT ![v] = {}]
    /\ lost' = [lost EXCEPT ![v] = {}]
    /\ exposed' = IF old = {} THEN exposed \ {v} ELSE exposed \cup {v}
    /\ started' = started + 1
    /\ UNCHANGED <<authVars, mode, setting, restarts, old>>

(***************************************************************************)
(* The virtual user's half of a request: from this one to the next, with   *)
(* the check ok of the answer.                                             *)
(***************************************************************************)
Step(v, from, to, ok) ==
    /\ pc[v] = from
    /\ pc' = [pc EXCEPT ![v] = to]
    /\ failed' = IF ok THEN failed ELSE [failed EXCEPT ![v] = @ \cup {from}]
    /\ old' = IF to = "idle" THEN old \ {v} ELSE old
    /\ UNCHANGED <<mode, setting, lost, started, restarts, exposed>>

(***************************************************************************)
(* The answer is lost, after the target handled the request or without.    *)
(* The script goes on empty-handed, to "idle" when it reads the body.      *)
(***************************************************************************)
Lose(v, from, to, handled) ==
    /\ pc[v] = from
    /\ Cardinality(UNION {lost[u] : u \in VUs}) < MaxLost
    /\ pc' = [pc EXCEPT ![v] = to]
    /\ failed' = [failed EXCEPT ![v] = @ \cup {from}]
    /\ lost' = [lost EXCEPT ![v] = @ \cup {from}]
    /\ old' = IF to = "idle" THEN old \ {v} ELSE old
    /\ handled \/ UNCHANGED authVars
    /\ UNCHANGED <<mode, setting, hand, started, restarts, exposed>>

Keep(v, credential, number) == hand' = [hand EXCEPT ![v][credential] = number]

KeepTokens(v, status) ==
    hand' = [hand EXCEPT ![v].access = IF status = 200 THEN TOKEN_COUNTER ELSE 0,
                         ![v].refresh = IF status = 200 THEN TOKEN_COUNTER + 1 ELSE 0]

(***************************************************************************)
(* target_apps_auth_checkout.js: log in for the default uses, show the     *)
(* token to the profile and to the checkout.                               *)
(***************************************************************************)
CheckoutScript(v) ==
    /\ mode[v] = "checkout"
    /\ \/ /\ Step(v, "login", "profile", LoginStatus(TRUE, 3, 2) = 200)
          /\ Login(TRUE, 3, 2)
          /\ KeepTokens(v, LoginStatus(TRUE, 3, 2))
       \/ /\ Step(v, "profile", "checkout", ProfileStatus(hand[v].access) = 200)
          /\ Profile(hand[v].access)
          /\ UNCHANGED hand
       \/ /\ Step(v, "checkout", "idle", ProfileStatus(hand[v].access) = 200)
          /\ Checkout(hand[v].access)
          /\ UNCHANGED hand
       \/ Lose(v, "login", "idle", Login(TRUE, 3, 2))
       \/ Lose(v, "profile", "checkout", Profile(hand[v].access))
       \/ Lose(v, "checkout", "idle", Checkout(hand[v].access))

(***************************************************************************)
(* target_apps_auth_refresh_flow.js: use an access token up, have it       *)
(* refused, buy the next one and log it out.  With ASSERT_FAILURE_BRANCHES *)
(* a login with a wrong password goes first.                               *)
(***************************************************************************)
RefreshScript(v) ==
    LET uses == setting[v].access
        refreshes == setting[v].refresh
        status == RefreshStatus(hand[v].refresh, uses + 1)
    IN
    /\ mode[v] \in RefreshModes
    /\ \/ /\ Step(v, "badLogin", "login", LoginStatus(FALSE, 3, 2) = 401)
          /\ Login(FALSE, 3, 2)
          /\ UNCHANGED hand
       \/ /\ Step(v, "login", "firstProfile", LoginStatus(TRUE, uses, refreshes) = 200)
          /\ Login(TRUE, uses, refreshes)
          /\ KeepTokens(v, LoginStatus(TRUE, uses, refreshes))
       \/ /\ Step(v, "firstProfile", "expiredProfile", ProfileStatus(hand[v].access) = 200)
          /\ Profile(hand[v].access)
          /\ UNCHANGED hand
       \/ /\ Step(v, "expiredProfile", "refresh", ProfileStatus(hand[v].access) = 401)
          /\ Profile(hand[v].access)
          /\ UNCHANGED hand
       \/ /\ Step(v, "refresh", "refreshedProfile", status = 200)
          /\ Refresh(hand[v].refresh, uses + 1)
          /\ Keep(v, "access", IF status = 200 THEN TOKEN_COUNTER ELSE 0)
       \/ /\ Step(v, "refreshedProfile", "logout", ProfileStatus(hand[v].access) = 200)
          /\ Profile(hand[v].access)
          /\ UNCHANGED hand
       \/ /\ Step(v, "logout", "revokedProfile", LogoutStatus(hand[v].access) = 200)
          /\ Logout(hand[v].access)
          /\ UNCHANGED hand
       \/ /\ Step(v, "revokedProfile", "idle", ProfileStatus(hand[v].access) = 401)
          /\ Profile(hand[v].access)
          /\ UNCHANGED hand
       \/ Lose(v, "badLogin", "login", Login(FALSE, 3, 2))
       \/ Lose(v, "login", "idle", Login(TRUE, uses, refreshes))
       \/ Lose(v, "firstProfile", "expiredProfile", Profile(hand[v].access))
       \/ Lose(v, "expiredProfile", "refresh", Profile(hand[v].access))
       \/ Lose(v, "refresh", "idle", Refresh(hand[v].refresh, uses + 1))
       \/ Lose(v, "refreshedProfile", "logout", Profile(hand[v].access))
       \/ Lose(v, "logout", "revokedProfile", Logout(hand[v].access))
       \/ Lose(v, "revokedProfile", "idle", Profile(hand[v].access))

(***************************************************************************)
(* target_apps_auth_session_mfa_flow.js, FLOW_MODE session: the answer to  *)
(* the logout deletes the cookie, so that the last request carries none.   *)
(* No body is read: the script goes on without the cookie of a lost login, *)
(* and with the one that a lost logout did not delete.                     *)
(***************************************************************************)
SessionScript(v) ==
    /\ mode[v] = "session"
    /\ \/ LET status == SessionLoginStatus(TRUE, setting[v].session)
          IN /\ Step(v, "sessionLogin", "sessionProfile", status = 200)
             /\ SessionLogin(TRUE, setting[v].session)
             /\ Keep(v, "session", IF status = 200 THEN TOKEN_COUNTER ELSE hand[v].session)
       \/ /\ Step(v, "sessionProfile", "sessionLogout",
                  SessionProfileStatus(hand[v].session) = 200)
          /\ SessionProfile(hand[v].session)
          /\ UNCHANGED hand
       \/ LET status == SessionLogoutStatus(hand[v].session)
          IN /\ Step(v, "sessionLogout", "revokedSession", status = 200)
             /\ SessionLogout(hand[v].session)
             /\ Keep(v, "session", IF status = 200 THEN 0 ELSE hand[v].session)
       \/ /\ Step(v, "revokedSession", "idle", SessionProfileStatus(hand[v].session) = 401)
          /\ SessionProfile(hand[v].session)
          /\ UNCHANGED hand
       \/ Lose(v, "sessionLogin", "sessionProfile", SessionLogin(TRUE, setting[v].session))
       \/ Lose(v, "sessionProfile", "sessionLogout", SessionProfile(hand[v].session))
       \/ Lose(v, "sessionLogout", "revokedSession", SessionLogout(hand[v].session))
       \/ Lose(v, "revokedSession", "idle", SessionProfile(hand[v].session))

(***************************************************************************)
(* The same script, FLOW_MODE mfa: it works the code out from the user and *)
(* the channel as the target does, and takes a session or tokens for it.   *)
(* Only the tokens are read from the body of the second answer.            *)
(***************************************************************************)
MfaScript(v) ==
    /\ mode[v] \in MfaModes
    /\ \/ /\ Step(v, "mfaStart", "mfaVerify", MfaStartStatus(TRUE) = 200)
          /\ MfaStart(TRUE)
          /\ Keep(v, "challenge", IF MfaStartStatus(TRUE) = 200 THEN TOKEN_COUNTER ELSE 0)
       \/ LET status == MfaVerifyStatus(hand[v].challenge, TRUE, 2, 1, 2)
          IN \/ /\ mode[v] = "mfa-session"
                /\ Step(v, "mfaVerify", "mfaSessionProfile", status = 200)
                /\ MfaVerify(hand[v].challenge, TRUE, "session", 2, 1, 2)
                /\ Keep(v, "session", IF status = 200 THEN TOKEN_COUNTER ELSE hand[v].session)
             \/ /\ mode[v] = "mfa-bearer"
                /\ Step(v, "mfaVerify", "mfaProfile", status = 200)
                /\ MfaVerify(hand[v].challenge, TRUE, "bearer", 2, 1, 2)
                /\ KeepTokens(v, status)
       \/ /\ Step(v, "mfaSessionProfile", "idle", SessionProfileStatus(hand[v].session) = 200)
          /\ SessionProfile(hand[v].session)
          /\ UNCHANGED hand
       \/ /\ Step(v, "mfaProfile", "idle", ProfileStatus(hand[v].access) = 200)
          /\ Profile(hand[v].access)
          /\ UNCHANGED hand
       \/ Lose(v, "mfaStart", "idle", MfaStart(TRUE))
       \/ /\ mode[v] = "mfa-session"
          /\ Lose(v, "mfaVerify", "mfaSessionProfile",
                  MfaVerify(hand[v].challenge, TRUE, "session", 2, 1, 2))
       \/ /\ mode[v] = "mfa-bearer"
          /\ Lose(v, "mfaVerify", "idle",
                  MfaVerify(hand[v].challenge, TRUE, "bearer", 2, 1, 2))
       \/ Lose(v, "mfaSessionProfile", "idle", SessionProfile(hand[v].session))
       \/ Lose(v, "mfaProfile", "idle", Profile(hand[v].access))

(***************************************************************************)
(* No script asks for an order or sends a wrong code; a person with a      *)
(* client of his own may.                                                  *)
(***************************************************************************)
ManualClient(v) ==
    /\ mode[v] = "manual"
    /\ \/ /\ Step(v, "login", "order", TRUE)
          /\ Login(TRUE, 1, 1)
          /\ KeepTokens(v, LoginStatus(TRUE, 1, 1))
       \/ /\ Step(v, "order", "mfaStart", TRUE)
          /\ GetOrder(hand[v].access)
          /\ UNCHANGED hand
       \/ /\ Step(v, "mfaStart", "mfaVerify", TRUE)
          /\ MfaStart(TRUE)
          /\ Keep(v, "challenge", IF MfaStartStatus(TRUE) = 200 THEN TOKEN_COUNTER ELSE 0)
       \/ /\ Step(v, "mfaVerify", "idle", TRUE)
          /\ MfaVerify(hand[v].challenge, FALSE, "session", 2, 1, 2)
          /\ UNCHANGED hand

Restart ==
    /\ restarts < MaxRestarts
    /\ restarts' = restarts + 1
    /\ RestartTarget
    /\ old' = {v \in VUs : pc[v] # "idle"}
    /\ exposed' = VUs
    /\ UNCHANGED <<mode, setting, pc, hand, failed, lost, started>>

Next ==
    \/ \E v \in VUs : \/ StartIteration(v) \/ CheckoutScript(v) \/ RefreshScript(v)
                      \/ SessionScript(v) \/ MfaScript(v) \/ ManualClient(v)
    \/ Restart

Spec == Init /\ [][Next]_vars
-----------------------------------------------------------------------------
(***************************************************************************)
(* Type correctness of the target's tables and of the virtual users.       *)
(***************************************************************************)
TypeOK ==
    /\ \A T \in {ACCESS_TOKENS, REFRESH_TOKENS, SESSIONS} :
          T \in [DOMAIN T -> Credential]
    /\ MFA_CHALLENGES \in [DOMAIN MFA_CHALLENGES -> BOOLEAN]
    /\ TOKEN_COUNTER \in Nat \ {0} /\ ORDER_COUNTER \in Nat \ {0}
    /\ mode \in [VUs -> Modes]
    /\ setting \in [VUs -> [access : Int, refresh : Int, session : Int]]
    /\ pc \in [VUs -> Requests]
    /\ hand \in [VUs -> [access : Nat, refresh : Nat, session : Nat, challenge : Nat]]
    /\ failed \in [VUs -> SUBSET Requests] /\ lost \in [VUs -> SUBSET Requests]
    /\ started \in Nat /\ restarts \in Nat
    /\ old \subseteq VUs /\ exposed \subseteq VUs

(***************************************************************************)
(* Lost answers that let the check of a request fail: its own, and that of *)
(* an earlier request of the iteration that it relies on.                  *)
(***************************************************************************)
Spoils(request) ==
    {request} \cup
    CASE request = "expiredProfile" -> {"firstProfile"}
      [] request = "revokedProfile" -> {"logout"}
      [] request \in {"sessionProfile", "sessionLogout"} -> {"sessionLogin"}
      [] request = "revokedSession" -> {"sessionLogout"}
      [] request = "mfaSessionProfile" -> {"mfaVerify"}
      [] OTHER -> {}

(***************************************************************************)
(* The settings the flow of the script is made for: one showing uses the   *)
(* access token up, and the target accepts the other numbers.              *)
(***************************************************************************)
Sensible(v) ==
    /\ mode[v] \in RefreshModes =>
          setting[v].access = 1 /\ setting[v].refresh \in 1..MAX_REFRESH_USES
    /\ mode[v] = "session" => setting[v].session \in 1..MAX_SESSION_USES

(***************************************************************************)
(* A check of a script with sensible settings fails only when there is a   *)
(* reason for it: the answer to that request or to one it relies on was    *)
(* lost, the iteration met a restart of the target or ran beside one that  *)
(* had, or, for the MFA script, the target has no challenges left to give. *)
(* Whatever the other virtual users and runs do to the same service, lose  *)
(* or log out, every request that a script expects to be accepted is, and  *)
(* every one that it expects to be refused (an expired token, a revoked    *)
(* one, a session after its logout) is.                                    *)
(***************************************************************************)
ChecksHold ==
    \A v \in VUs : \A f \in failed[v] :
        \/ Spoils(f) \cap lost[v] # {}
        \/ v \in exposed
        \/ ~Sensible(v)
        \/ mode[v] \in MfaModes /\ ChallengesFull

(***************************************************************************)
(* No two virtual users hold the same credential in the middle of their    *)
(* iterations: the counter is shared by all four tables and all runs.  A   *)
(* target that was started again counts from 1, and gives out tokens that  *)
(* the iterations begun before still hold; those that began after it do    *)
(* not share theirs.                                                       *)
(***************************************************************************)
OneHolder ==
    \A v, w \in {u \in VUs \ old : pc[u] # "idle"} :
        \A credential \in {"access", "refresh", "session", "challenge"} :
            v # w /\ hand[v][credential] # 0 => hand[v][credential] # hand[w][credential]

(***************************************************************************)
(* What was used up, logged out or verified never works again, for         *)
(* anybody, until the target is started again.                             *)
(***************************************************************************)
SpentStaysSpent ==
    [][restarts' = restarts =>
         /\ \A t \in DOMAIN ACCESS_TOKENS :
               ~Usable(ACCESS_TOKENS, t) => ~Usable(ACCESS_TOKENS', t)
         /\ \A t \in DOMAIN REFRESH_TOKENS :
               ~Usable(REFRESH_TOKENS, t) => ~Usable(REFRESH_TOKENS', t)
         /\ \A t \in DOMAIN SESSIONS : ~Usable(SESSIONS, t) => ~Usable(SESSIONS', t)
         /\ \A c \in DOMAIN MFA_CHALLENGES :
               MFA_CHALLENGES[c] => c \in DOMAIN MFA_CHALLENGES' /\ MFA_CHALLENGES'[c]]_vars

(***************************************************************************)
(* What the documents say of the cap (src/docs/v3/domains/                 *)
(* p-loadtesting-target-apps.md: max_active_mfa_challenges = 20): a start  *)
(* with the right password is refused only while that many challenges are  *)
(* active.  The code counts the used ones as well, and nothing takes one   *)
(* out, so that the twenty-first iteration is refused for good.            *)
(***************************************************************************)
CapCountsActive ==
    MfaStartStatus(TRUE) = 422 =>
        Cardinality({c \in DOMAIN MFA_CHALLENGES : ~MFA_CHALLENGES[c]})
            >= MAX_ACTIVE_MFA_CHALLENGES
=============================================================================
