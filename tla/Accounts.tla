------------------------------ MODULE Accounts ------------------------------
(***************************************************************************)
(* Accounts and their keys: the users table with the sealed master key     *)
(* (mycelium-auth users.rs, mycelium-crypto seal.rs), login with its       *)
(* throttle and second factor (login.rs, throttle.rs, totp.rs), sessions   *)
(* (session.rs), API keys (api_key.rs), passkey ceremonies (webauthn.rs),  *)
(* the service-key seal and the cache of opened master keys (state.rs of   *)
(* mycelium-web, lib.rs of mycelium-mcp), and the handlers of              *)
(* mycelium-web's api.rs that change them behind the session, login and    *)
(* CSRF layers (middleware.rs, server.rs).                                 *)
(*                                                                         *)
(* A request is a task.  Nothing locks an account, so a step is one SQL    *)
(* statement or transaction, or one lock of the throttle; the requests     *)
(* interleave and may end between any two steps (Abort: a statement fails, *)
(* the connection drops); Restart loses the memory of the process.         *)
(*                                                                         *)
(* A cipher text is what opens it and what is inside.  Hashes and sealed   *)
(* JSON are equal exactly when they were made by the same statement, which *)
(* the field "made" says (the salts are random).  Time is abstracted to    *)
(* whether a session, a challenge or a throttle window has run out.        *)
(* Requests refused without a change (wrong CSRF token, a short password,  *)
(* a mistyped repetition) and the account pages are left out.              *)
(***************************************************************************)
EXTENDS Naturals, FiniteSets, FiniteSetsExt

CONSTANTS
    Users,        \* usernames
    Passwords,
    SessionIds,
    KeyIds,       \* API keys
    Tasks,        \* bound: requests in flight at once
    None,
    FailureLimits, \* what an admin may ask login_max_failures to be
    LimitMin, LimitMax, \* LOGIN_FAILURES_MIN, LOGIN_FAILURES_MAX
    Requests,     \* bound: the kinds of request made in a behaviour
    MaxRequests,  \* bound: requests in one behaviour
    MaxWindows,   \* bound: throttle windows that run out
    MaxRestarts   \* bound: restarts of the process

ASSUME AccountsAssumption ==
    /\ None \notin Users \cup Passwords \cup SessionIds \cup KeyIds /\ None \notin Nat
    /\ FailureLimits \subseteq Nat
    /\ LimitMin \in Nat \ {0} /\ LimitMax \in Nat /\ LimitMin <= LimitMax
    /\ IsFiniteSet(Tasks)
    /\ MaxRequests \in Nat /\ MaxWindows \in Nat /\ MaxRestarts \in Nat

VARIABLES
    account,    \* the users table
    session,    \* the sessions table
    apiKey,     \* the api_keys table
    challenge,  \* the webauthn_challenges table: live ones, by age
    passkey,    \* the webauthn_credentials table: the challenges that made them
    config,     \* login_max_failures of the "security" row
    throttle,   \* failures and the window of a username, in memory
    limit,      \* the throttle's max_failures, in memory
    cache,      \* MasterKeyCache
    task,       \* the requests in flight
    \* history
    minted,     \* secrets generated so far
    requests, windows, restarts,
    loosest,    \* the highest limit the throttle ever had
    generation, \* password changes committed, per user
    reported,   \* the last of them that was reported as done, per user
    cards,      \* the recovery keys a user was shown
    current,    \* the recovery keys that a user's record ever held
    unshown,    \* users with a response lost that carried a recovery key
    unsealed    \* users whose service seal could not be written

tables  == <<account, session, apiKey, challenge, passkey, config>>
memory  == <<throttle, limit, cache>>
bounds  == <<minted, requests, windows, restarts>>
history == <<loosest, generation, reported, cards, current, unshown, unsealed>>
vars    == <<tables, memory, task, bounds, history>>

Secrets == Nat \ {0}

\* SealedMasterKey: one master key under the password and under the recovery
\* key; "made" is the statement that generated its salt and nonces.
Seal == [password : Passwords, inPassword : Secrets,
         recovery : Secrets, inRecovery : Secrets, made : Nat]

Account == [hash : Passwords, seal : Seal, service : Secrets \cup {None},
            totp : Secrets \cup {None}, role : {"admin", "user"}]

ASSUME NoRowIsNone == None \notin Account

Exists(u) == account[u] # None

\* Requests by what their handlers do; pc is the statement that comes next.
Idle == [op |-> "idle"]
Busy(t) == task[t].op # "idle"
At(t, op, pc) == task[t].op = op /\ task[t].pc = pc
Goto(t, pc) == task' = [task EXCEPT ![t].pc = pc]
End(t) == task' = [task EXCEPT ![t] = Idle]

Fresh ==
    [account |-> [u \in Users |-> None], cache |-> [u \in Users |-> None],
     session |-> [s \in SessionIds |-> None], cards |-> [u \in Users |-> {}],
     minted |-> 0]

\* The state after /setup and the first login of u.
Installed(u, p, s) ==
    [account |-> [Fresh.account EXCEPT ![u] =
                     [hash |-> p, service |-> 1, totp |-> None, role |-> "admin",
                      seal |-> [password |-> p, inPassword |-> 1,
                                recovery |-> 2, inRecovery |-> 1, made |-> 2]]],
     cache |-> [Fresh.cache EXCEPT ![u] = 1],
     session |-> [Fresh.session EXCEPT ![s] =
                     [user |-> u, generation |-> 0, expired |-> FALSE]],
     cards |-> [Fresh.cards EXCEPT ![u] = {2}],
     minted |-> 2]

Init ==
    /\ \E start \in {Fresh} \cup {Installed(u, p, s) :
                        u \in Users, p \in Passwords, s \in SessionIds} :
          /\ account = start.account /\ cache = start.cache
          /\ session = start.session /\ minted = start.minted
          /\ cards = start.cards /\ current = start.cards
    /\ apiKey = [k \in KeyIds |-> None]
    /\ challenge = [u \in Users |-> {}] /\ passkey = [u \in Users |-> {}]
    /\ config = LimitMin
    /\ throttle = [u \in Users |-> [failures |-> 0, cool |-> TRUE]]
    /\ limit = LimitMin
    /\ task = [t \in Tasks |-> Idle]
    /\ requests = 0 /\ windows = 0 /\ restarts = 0
    /\ loosest = LimitMin
    /\ generation = [u \in Users |-> 0] /\ reported = [u \in Users |-> 0]
    /\ unshown = {} /\ unsealed = {}

-----------------------------------------------------------------------------
(* Admission. *)

Start(t, op, pc, u, p, q) ==
    /\ op \in Requests /\ ~Busy(t) /\ requests < MaxRequests
    /\ requests' = requests + 1
    /\ task' = [task EXCEPT ![t] =
                   [op |-> op, pc |-> pc, user |-> u, password |-> p, other |-> q,
                    record |-> None, secret |-> None, generation |-> 0]]

\* The requests of a signed-in user, with the statement each starts with and
\* whether it needs RequireAdmin.
SignedIn == [change |-> "read", rotate |-> "read", enroll |-> "write",
             disable |-> "write", begin |-> "write", finish |-> "consume",
             forget |-> "write", mint |-> "write", revoke |-> "list",
             create |-> "insert", tune |-> "write"]
AdminOnly == {"create", "tune"}

\* SessionManager::get finds a session that has not expired.
Lives(s) == session[s] # None /\ ~session[s].expired

\* RequireAdmin and SessionUser.
Permitted(u, op) == Exists(u) /\ (op \in AdminOnly => account[u].role = "admin")

\* csrf_protect: everything but a GET presents the token of its own session,
\* in a header or in the form.
CsrfPasses(s, op, token) == op = "begin" \/ token = s

\* session_auth, require_login_gate, csrf_protect and the extractors let a
\* request through on a live session s.  token is the session whose page the
\* form is from (None: none), p and q are what it says.
Admit(t, s, token, op, p, q) ==
    /\ Lives(s)
    /\ CsrfPasses(s, op, token)
    /\ Permitted(session[s].user, op)
    /\ Start(t, op, SignedIn[op], session[s].user, p, q)
    /\ UNCHANGED <<tables, memory, minted, windows, restarts, history>>

\* SessionManager::get deletes an expired session it meets.
MeetExpired(s) ==
    /\ session[s] # None /\ session[s].expired
    /\ session' = [session EXCEPT ![s] = None]
    /\ UNCHANGED <<account, apiKey, challenge, passkey, config, memory, task,
                   bounds, history>>

\* ApiKeyManager::verify.
Verified(k) == apiKey[k] # None /\ ~apiKey[k].revoked

\* An API key lets a request through; only the passkey ceremony's start and
\* end take a user without a session.
AdmitBearer(t, k, op) ==
    /\ Verified(k)
    /\ op \in {"begin", "finish"}
    /\ Start(t, op, SignedIn[op], apiKey[k].user, None, None)
    /\ UNCHANGED <<tables, memory, minted, windows, restarts, history>>

\* GET /logout deletes the session of the cookie, whatever its state.
Logout(s) ==
    /\ "logout" \in Requests /\ session[s] # None
    /\ session' = [session EXCEPT ![s] = None]
    /\ UNCHANGED <<account, apiKey, challenge, passkey, config, memory, task,
                   bounds, history>>

-----------------------------------------------------------------------------
(* Login. *)

\* Mutant: one failure more than the limit.
AllowedOneMore(u, max) == throttle[u].failures <= max \/ throttle[u].cool

\* AuthThrottle::check: allowed below the limit, and again whenever the
\* window since the last failure has run out.
Allowed(u, max) == throttle[u].failures < max \/ throttle[u].cool

\* AuthThrottle::record_failure and record_success.
Failed(u) == [throttle EXCEPT ![u] = [failures |-> throttle[u].failures + 1, cool |-> FALSE]]
Succeeded(u) == [throttle EXCEPT ![u] = [failures |-> 0, cool |-> TRUE]]

\* login_submit up to the throttle check: the limits of the config row are
\* applied, then the name is checked.  q is the code (None: no code given).
LoginStart(t, u, p, q) ==
    /\ limit' = config
    /\ loosest' = Max({loosest, config})
    /\ Allowed(u, config)
    /\ Start(t, "login", "authenticate", u, p, q)
    /\ UNCHANGED <<tables, throttle, cache, minted, windows, restarts,
                   generation, reported, cards, current, unshown, unsealed>>

\* authenticate_local: the hash decides who is known, the seal must open too.
Known(r, p) == r # None /\ r.hash = p
Opens(r, p) == Known(r, p) /\ r.seal.password = p

\* The code that an enrolled secret asks for (totp.rs).
Satisfies(r, code) == r.totp = None \/ code = r.totp

\* authenticate_local and the TOTP check, all on one read of the row; what is
\* left is the verdict.  A missing code is refused without a failure count.
Authenticate(t) ==
    /\ At(t, "login", "authenticate")
    /\ LET r == account[task[t].user]
           p == task[t].password
           code == task[t].other
       IN  \/ /\ \/ ~Known(r, p)
                 \/ Opens(r, p) /\ ~Satisfies(r, code) /\ code # None
              /\ Goto(t, "fail")
           \/ /\ Known(r, p)
              /\ Opens(r, p) => ~Satisfies(r, code) /\ code = None
              /\ End(t)
           \/ /\ Opens(r, p) /\ Satisfies(r, code)
              /\ task' = [task EXCEPT ![t].pc = "succeed", ![t].secret = r.seal.inPassword]
    /\ UNCHANGED <<tables, memory, bounds, history>>

RecordFailure(t) ==
    /\ At(t, "login", "fail")
    /\ throttle' = Failed(task[t].user)
    /\ End(t)
    /\ UNCHANGED <<tables, limit, cache, bounds, history>>

RecordSuccess(t) ==
    /\ At(t, "login", "succeed")
    /\ throttle' = Succeeded(task[t].user)
    /\ Goto(t, "session")
    /\ UNCHANGED <<tables, limit, cache, bounds, history>>

\* create_with_ttl.
NewSession(u) == [user |-> u, expired |-> FALSE, generation |-> generation[u]]

\* Always a fresh session.
CreateSession(t, s) ==
    /\ At(t, "login", "session") /\ session[s] = None
    /\ session' = [session EXCEPT ![s] = NewSession(task[t].user)]
    /\ Goto(t, "seal")
    /\ UNCHANGED <<account, apiKey, challenge, passkey, config, memory, bounds, history>>

\* persist_service_seal, and what its callers do after it: a failure is only
\* logged; login and setup keep the key in the cache, rotation and the
\* creations show the recovery key.
Cached(t) == task[t].op \in {"login", "setup"}
Shows(t)  == task[t].op \in {"setup", "create", "rotate"}
Key(t)    == IF task[t].op = "login" THEN task[t].secret ELSE task[t].record.inPassword

ServiceSeal(t, written) ==
    /\ Busy(t) /\ task[t].pc = "seal"
    /\ LET u == task[t].user IN
       /\ IF written
          THEN /\ account' = [account EXCEPT ![u].service = Key(t)]
               /\ unsealed' = unsealed \ {u}
          ELSE account' = account /\ unsealed' = unsealed \cup {u}
       /\ cache' = IF Cached(t) THEN [cache EXCEPT ![u] = Key(t)] ELSE cache
       /\ cards' = IF Shows(t) THEN [cards EXCEPT ![u] = @ \cup {task[t].record.recovery}]
                               ELSE cards
    /\ End(t)
    /\ UNCHANGED <<session, apiKey, challenge, passkey, config, throttle, limit, bounds,
                   loosest, generation, reported, current, unshown>>

\* MasterKeyCache::for_user: the cached key, or the one the service seal holds.
FetchKey(u) ==
    /\ Exists(u) /\ cache[u] = None /\ account[u].service # None
    /\ cache' = [cache EXCEPT ![u] = account[u].service]
    /\ UNCHANGED <<tables, throttle, limit, task, bounds, history>>

-----------------------------------------------------------------------------
(* Creating accounts. *)

\* seal_master_key with a fresh master key k and recovery key k + 1.
NewSeal(p, k) == [password |-> p, inPassword |-> k, recovery |-> k + 1, inRecovery |-> k,
                  made |-> k + 1]

\* setup_submit counts the users first.
SetupStart(t, u, p) ==
    /\ \A v \in Users : ~Exists(v)
    /\ Start(t, "setup", "insert", u, p, u)
    /\ UNCHANGED <<tables, memory, minted, windows, restarts, history>>

\* create_local: what its INSERT writes.
NewAccount(p, role, k) == [hash |-> p, seal |-> NewSeal(p, k), service |-> None,
                           totp |-> None, role |-> role]

\* Mutant: the handler forgets the service seal.
CreateLocalUnsealed(t, role) ==
    /\ Busy(t) /\ task[t].pc = "insert"
    /\ task[t].op = "setup" => role = "admin"
    /\ account' = [account EXCEPT ![task[t].other] =
                      NewAccount(task[t].password, role, minted + 1)]
    /\ End(t)
    /\ minted' = minted + 2
    /\ UNCHANGED <<session, apiKey, challenge, passkey, config, memory, requests, windows,
                   restarts, history>>

\* setup_submit and admin_create_user: one INSERT.  A username that is taken by
\* then ends the request (UNIQUE); role is what the admin's form says, setup
\* makes an admin.
CreateLocal(t, role) ==
    /\ Busy(t) /\ task[t].pc = "insert"
    /\ task[t].op = "setup" => role = "admin"
    /\ LET u == task[t].other
           new == NewAccount(task[t].password, role, minted + 1)
       IN  IF Exists(u)
           THEN End(t) /\ UNCHANGED <<account, current>>
           ELSE /\ account' = [account EXCEPT ![u] = new]
                /\ current' = [current EXCEPT ![u] = {new.seal.recovery}]
                /\ task' = [task EXCEPT ![t].pc = "seal", ![t].user = u, ![t].record = new.seal]
    /\ minted' = minted + 2
    /\ UNCHANGED <<session, apiKey, challenge, passkey, config, memory, requests, windows,
                   restarts, loosest, generation, reported, cards, unshown, unsealed>>

-----------------------------------------------------------------------------
(* Changing the password and the recovery key. *)

\* Both requests read the row and prove the current password on what they
\* read: the change against the hash, the rotation by opening the seal.
Proves(t, r) ==
    IF task[t].op = "change" THEN Opens(r, task[t].password)
                             ELSE r # None /\ r.seal.password = task[t].password

ReadRecord(t) ==
    /\ Busy(t) /\ task[t].op \in {"change", "rotate"} /\ task[t].pc = "read"
    /\ LET r == account[task[t].user] IN
       IF Proves(t, r)
       THEN task' = [task EXCEPT ![t].record = r.seal, ![t].pc = "write"]
       ELSE End(t)
    /\ UNCHANGED <<tables, memory, bounds, history>>

\* reseal_password: the master key under the new password, the recovery seal
\* as it was read.
Resealed(t) == [task[t].record EXCEPT !.password = task[t].other, !.made = minted + 1]

\* The UPDATE of change_password_min: hash and seal at once, whatever the row
\* holds by now.
WritePassword(t) ==
    /\ At(t, "change", "write")
    /\ LET u == task[t].user IN
       /\ account' = [account EXCEPT ![u].hash = task[t].other, ![u].seal = Resealed(t)]
       /\ generation' = [generation EXCEPT ![u] = @ + 1]
       /\ task' = [task EXCEPT ![t].pc = "purge", ![t].generation = generation[u] + 1]
    /\ minted' = minted + 1
    /\ UNCHANGED <<session, apiKey, challenge, passkey, config, memory,
                   requests, windows, restarts, loosest, reported, cards, current, unshown,
                   unsealed>>

\* Mutant: only the expired sessions are deleted.
PurgeExpiredSessions(t) ==
    /\ At(t, "change", "purge")
    /\ LET u == task[t].user IN
       /\ session' = [s \in SessionIds |->
             IF session[s] # None /\ session[s].user = u /\ session[s].expired
             THEN None ELSE session[s]]
       /\ reported' = [reported EXCEPT ![u] = Max({@, task[t].generation})]
    /\ End(t)
    /\ UNCHANGED <<account, apiKey, challenge, passkey, config, memory, bounds,
                   loosest, generation, cards, current, unshown, unsealed>>

\* delete_all_for_user.
Without(u) == [s \in SessionIds |->
                  IF session[s] # None /\ session[s].user = u THEN None ELSE session[s]]

\* LoginService::change_password_min then deletes every session of the user
\* and reports success.
PurgeSessions(t) ==
    /\ At(t, "change", "purge")
    /\ LET u == task[t].user IN
       /\ session' = Without(u)
       /\ reported' = [reported EXCEPT ![u] = Max({@, task[t].generation})]
    /\ End(t)
    /\ UNCHANGED <<account, apiKey, challenge, passkey, config, memory, bounds,
                   loosest, generation, cards, current, unshown, unsealed>>

\* rotate_recovery_key: the password seal as it was read.
Rotated(t) == [task[t].record EXCEPT !.recovery = minted + 1, !.made = minted + 1,
                                     !.inRecovery = task[t].record.inPassword]

\* update_sealed: a compare-and-swap on the JSON that was read.
Matches(u, read) == account[u].seal = read

\* Mutant: the answer of the comparison is ignored and the card shown anyway.
WriteRecoveryUnasked(t) ==
    /\ At(t, "rotate", "write")
    /\ LET u == task[t].user
           won == Matches(u, task[t].record)
       IN  /\ account' = IF won THEN [account EXCEPT ![u].seal = Rotated(t)] ELSE account
           /\ current' = IF won THEN [current EXCEPT ![u] = @ \cup {minted + 1}] ELSE current
    /\ task' = [task EXCEPT ![t].pc = "seal", ![t].record = Rotated(t)]
    /\ minted' = minted + 1
    /\ UNCHANGED <<session, apiKey, challenge, passkey, config, memory, requests, windows,
                   restarts, loosest, generation, reported, cards, unshown, unsealed>>

\* account_recovery_regenerate: a request that loses shows nothing.
WriteRecovery(t) ==
    /\ At(t, "rotate", "write")
    /\ LET u == task[t].user IN
       IF Matches(u, task[t].record)
       THEN /\ account' = [account EXCEPT ![u].seal = Rotated(t)]
            /\ current' = [current EXCEPT ![u] = @ \cup {minted + 1}]
            /\ task' = [task EXCEPT ![t].pc = "seal", ![t].record = Rotated(t)]
       ELSE End(t) /\ UNCHANGED <<account, current>>
    /\ minted' = minted + 1
    /\ UNCHANGED <<session, apiKey, challenge, passkey, config, memory, requests, windows,
                   restarts, loosest, generation, reported, cards, unshown, unsealed>>

-----------------------------------------------------------------------------
(* Second factors, API keys, settings: one statement each. *)

Writes(t, op) == At(t, op, "write")

\* set_secret and clear_secret: the column that login reads.
SetSecret(u, secret) == [account EXCEPT ![u].totp = secret]

\* The factor is live from this statement on.
TotpEnroll(t) ==
    /\ Writes(t, "enroll")
    /\ account' = SetSecret(task[t].user, minted + 1)
    /\ minted' = minted + 1
    /\ End(t)
    /\ UNCHANGED <<session, apiKey, challenge, passkey, config, memory,
                   requests, windows, restarts, history>>

TotpDisable(t) ==
    /\ Writes(t, "disable")
    /\ account' = SetSecret(task[t].user, None)
    /\ End(t)
    /\ UNCHANGED <<session, apiKey, challenge, passkey, config, memory, bounds, history>>

\* The challenges that have not expired.
Live(u) == {c \in challenge[u] : ~c.expired}

\* start_enrollment: purges the expired challenges, stores a new one.
StartEnrollment(t) ==
    /\ Writes(t, "begin")
    /\ challenge' = [challenge EXCEPT ![task[t].user] =
                        Live(task[t].user) \cup {[id |-> minted + 1, expired |-> FALSE]}]
    /\ minted' = minted + 1
    /\ End(t)
    /\ UNCHANGED <<account, session, apiKey, passkey, config, memory,
                   requests, windows, restarts, history>>

Newest(u) == CHOOSE c \in Live(u) : \A d \in Live(u) : d.id <= c.id

\* Mutant: the challenge is read and not deleted.
ReadChallenge(t) ==
    /\ At(t, "finish", "consume") /\ Live(task[t].user) # {}
    /\ \E c \in Live(task[t].user) :
          task' = [task EXCEPT ![t].pc = "store", ![t].secret = c.id]
    /\ UNCHANGED <<tables, memory, bounds, history>>

\* consume_challenge: the newest live challenge is deleted and handed out, in
\* one transaction.
ConsumeChallenge(t) ==
    /\ At(t, "finish", "consume")
    /\ LET u == task[t].user IN
       IF Live(u) = {}
       THEN End(t) /\ challenge' = challenge
       ELSE /\ challenge' = [challenge EXCEPT ![u] = @ \ {Newest(u)}]
            /\ task' = [task EXCEPT ![t].pc = "store", ![t].secret = Newest(u).id]
    /\ UNCHANGED <<account, session, apiKey, passkey, config, memory, bounds, history>>

\* finish_enrollment: the browser's answer is to some challenge and is
\* verified against the one that was consumed; credential ids are unique.
StorePasskey(t, answered) ==
    /\ At(t, "finish", "store")
    /\ passkey' = IF answered = task[t].secret
                  THEN [passkey EXCEPT ![task[t].user] = @ \cup {answered}]
                  ELSE passkey
    /\ End(t)
    /\ UNCHANGED <<account, session, apiKey, challenge, config, memory, bounds, history>>

RemovePasskey(t, c) ==
    /\ Writes(t, "forget")
    /\ passkey' = [passkey EXCEPT ![task[t].user] = @ \ {c}]
    /\ End(t)
    /\ UNCHANGED <<account, session, apiKey, challenge, config, memory, bounds, history>>

\* ApiKeyManager::mint, revoke and list_for_user.
NewKey(u) == [user |-> u, revoked |-> FALSE]
Revoked(k) == [apiKey EXCEPT ![k].revoked = TRUE]
Listed(u) == {k \in KeyIds : apiKey[k] # None /\ apiKey[k].user = u}

MintKey(t, k) ==
    /\ Writes(t, "mint") /\ apiKey[k] = None
    /\ apiKey' = [apiKey EXCEPT ![k] = NewKey(task[t].user)]
    /\ End(t)
    /\ UNCHANGED <<account, session, challenge, passkey, config, memory, bounds, history>>

\* keys_revoke: only a key that the user's list holds; COALESCE keeps an
\* earlier revocation.
RevokeKey(t, k) ==
    /\ At(t, "revoke", "list")
    /\ apiKey' = IF k \in Listed(task[t].user) THEN Revoked(k) ELSE apiKey
    /\ End(t)
    /\ UNCHANGED <<account, session, challenge, passkey, config, memory, bounds, history>>

\* admin_save_security clamps what the form says.
Clamped(n) == IF n < LimitMin THEN LimitMin ELSE IF n > LimitMax THEN LimitMax ELSE n

SaveSecurity(t, n) ==
    /\ Writes(t, "tune")
    /\ config' = Clamped(n)
    /\ End(t)
    /\ UNCHANGED <<account, session, apiKey, challenge, passkey, memory, bounds, history>>

-----------------------------------------------------------------------------
(* Time and failure. *)

WindowElapses(u) ==
    /\ ~throttle[u].cool /\ windows < MaxWindows
    /\ throttle' = [throttle EXCEPT ![u].cool = TRUE]
    /\ windows' = windows + 1
    /\ UNCHANGED <<tables, limit, cache, task, minted, requests, restarts, history>>

SessionExpires(s) ==
    /\ "expiry" \in Requests
    /\ session[s] # None /\ ~session[s].expired
    /\ session' = [session EXCEPT ![s].expired = TRUE]
    /\ UNCHANGED <<account, apiKey, challenge, passkey, config, memory, task, bounds, history>>

ChallengeExpires(u, c) ==
    /\ "expiry" \in Requests
    /\ c \in Live(u)
    /\ challenge' = [challenge EXCEPT ![u] = (@ \ {c}) \cup {[c EXCEPT !.expired = TRUE]}]
    /\ UNCHANGED <<account, session, apiKey, passkey, config, memory, task, bounds, history>>

\* A statement fails or the connection drops: the request ends where it is.
Sealing(u)  == {t \in Tasks : Busy(t) /\ task[t].pc = "seal" /\ task[t].user = u}
Gone(T)     == {u \in Users : Sealing(u) \cap T # {}}
GoneCard(T) == {u \in Users : \E t \in Sealing(u) \cap T : Shows(t)}

Abort(t) ==
    /\ Busy(t)
    /\ unsealed' = unsealed \cup Gone({t}) /\ unshown' = unshown \cup GoneCard({t})
    /\ End(t)
    /\ UNCHANGED <<tables, memory, bounds, loosest, generation, reported, cards, current>>

Restart ==
    /\ restarts < MaxRestarts
    /\ restarts' = restarts + 1
    /\ task' = [t \in Tasks |-> Idle]
    /\ unsealed' = unsealed \cup Gone(Tasks) /\ unshown' = unshown \cup GoneCard(Tasks)
    /\ throttle' = [u \in Users |-> [failures |-> 0, cool |-> TRUE]]
    /\ limit' = LimitMin
    /\ cache' = [u \in Users |-> None]
    /\ UNCHANGED <<tables, minted, requests, windows, loosest, generation, reported, cards,
                   current>>

-----------------------------------------------------------------------------
\* What the forms of a request can hold, by what the handlers tell apart.
Forms(op) == CASE op = "change" -> Passwords \X Passwords
               [] op = "rotate" -> Passwords \X {None}
               [] op = "create" -> Passwords \X Users
               [] OTHER         -> {<<None, None>>}

\* A code of the secret enrolled when the form is sent, a wrong one, or none.
Codes(u) == {None} \cup IF Exists(u) /\ account[u].totp # None THEN {0, account[u].totp} ELSE {}

Handle(t) ==
    \/ Authenticate(t) \/ RecordFailure(t) \/ RecordSuccess(t)
    \/ \E s \in SessionIds : CreateSession(t, s)
    \/ \E written \in BOOLEAN : ServiceSeal(t, written)
    \/ \E role \in {"admin", "user"} : CreateLocal(t, role)
    \/ ReadRecord(t) \/ WritePassword(t) \/ PurgeSessions(t) \/ WriteRecovery(t)
    \/ TotpEnroll(t) \/ TotpDisable(t)
    \/ StartEnrollment(t) \/ ConsumeChallenge(t)
    \/ \E c \in 1 .. minted : StorePasskey(t, c) \/ RemovePasskey(t, c)
    \/ \E k \in KeyIds : MintKey(t, k) \/ RevokeKey(t, k)
    \/ \E n \in FailureLimits : SaveSecurity(t, n)
    \/ Abort(t)

Arrive(t) ==
    \/ \E s \in SessionIds, token \in SessionIds \cup {None}, op \in DOMAIN SignedIn :
          \E f \in Forms(op) : Admit(t, s, token, op, f[1], f[2])
    \/ \E k \in KeyIds, op \in DOMAIN SignedIn : AdmitBearer(t, k, op)
    \/ \E u \in Users, p \in Passwords :
          SetupStart(t, u, p) \/ \E q \in Codes(u) : LoginStart(t, u, p, q)

Next ==
    \/ \E t \in Tasks : Arrive(t) \/ Handle(t)
    \/ \E s \in SessionIds : MeetExpired(s) \/ Logout(s) \/ SessionExpires(s)
    \/ \E u \in Users : FetchKey(u) \/ WindowElapses(u)
                          \/ \E c \in Live(u) : ChallengeExpires(u, c)
    \/ Restart

Spec == Init /\ [][Next]_vars

-----------------------------------------------------------------------------
(* Properties. *)

Request == [op : DOMAIN SignedIn \cup {"login", "setup"},
            pc : {"authenticate", "fail", "succeed", "session", "seal", "insert", "read",
                  "write", "purge", "consume", "store", "list"},
            user : Users, password : Passwords \cup {None},
            other : Passwords \cup Users \cup Nat \cup {None},
            record : Seal \cup {None}, secret : Nat \cup {None}, generation : Nat]

TypeOK ==
    /\ account \in [Users -> Account \cup {None}]
    /\ session \in [SessionIds ->
           [user : Users, generation : Nat, expired : BOOLEAN] \cup {None}]
    /\ apiKey \in [KeyIds -> [user : Users, revoked : BOOLEAN] \cup {None}]
    /\ challenge \in [Users -> SUBSET [id : Secrets, expired : BOOLEAN]]
    /\ passkey \in [Users -> SUBSET Secrets]
    /\ config \in LimitMin .. LimitMax /\ limit \in LimitMin .. LimitMax
    /\ throttle \in [Users -> [failures : Nat, cool : BOOLEAN]]
    /\ cache \in [Users -> Secrets \cup {None}]
    /\ task \in [Tasks -> Request \cup {Idle}]
    /\ loosest \in LimitMin .. LimitMax
    /\ minted \in Nat /\ requests \in Nat /\ windows \in Nat /\ restarts \in Nat
    /\ generation \in [Users -> Nat] /\ reported \in [Users -> Nat]
    /\ cards \in [Users -> SUBSET Secrets] /\ current \in [Users -> SUBSET Secrets]
    /\ unshown \subseteq Users /\ unsealed \subseteq Users

\* Every way to a master key leads to the same one, the one all files of the
\* user are encrypted under: the password seal, which the password that passes
\* the hash opens, the recovery seal, the service seal and the cache.  Where
\* the service seal is missing its one write was lost or is still to come
\* (users.rs:authenticate_local, change_password_min, update_sealed,
\* state.rs:persist_service_seal, seal.rs).
OneMasterKey ==
    \A u \in Users : Exists(u) =>
        LET a == account[u] IN
        /\ a.hash = a.seal.password
        /\ a.seal.inRecovery = a.seal.inPassword
        /\ a.service \in {None, a.seal.inPassword}
        /\ cache[u] \in {None, a.seal.inPassword}
        /\ a.service = None => u \in unsealed \/ Sealing(u) # {}

\* A recovery key that is shown was once in force, and the one in force has been
\* shown or is about to be, unless the response that carried it was lost
\* (api.rs:account_recovery_regenerate, setup_submit, admin_create_user).
CardsHonest ==
    \A u \in Users : Exists(u) =>
        /\ cards[u] \subseteq current[u]
        /\ \/ account[u].seal.recovery \in cards[u]
           \/ u \in unshown
           \/ \E t \in Sealing(u) : Shows(t) /\ task[t].record.recovery = account[u].seal.recovery

\* Once a password change is reported, no session is left that was there when
\* the new password took effect (login.rs:change_password_min).
ChangeEndsSessions ==
    \A s \in SessionIds : session[s] # None =>
        session[s].generation >= reported[session[s].user]

\* The throttle is checked and counted under separate locks: failures get past
\* the limit by the requests in flight, for every window that ran out, and by
\* no more (throttle.rs:check, record_failure; login.rs:login_with_options).
ThrottleBound ==
    \A u \in Users :
        throttle[u].failures < loosest + Cardinality(Tasks) * (1 + windows)

\* A passkey challenge is used once: nobody else holds a challenge that was
\* consumed or that made a passkey (webauthn.rs:consume_challenge).
ChallengeUsedOnce ==
    LET Held(u) == {t \in Tasks : At(t, "finish", "store") /\ task[t].user = u}
        Spent(u) == passkey[u] \cup {task[t].secret : t \in Held(u)}
    IN  \A u \in Users :
            /\ Spent(u) \cap {c.id : c \in challenge[u]} = {}
            /\ \A t \in Held(u) : task[t].secret \notin passkey[u]
            /\ \A t1, t2 \in Held(u) : task[t1].secret = task[t2].secret => t1 = t2
=============================================================================
