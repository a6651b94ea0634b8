------------------------------ MODULE Accounts ------------------------------
(***************************************************************************)
(* The master database of tenants and users, and those who use it: the     *)
(* start of the server, which makes a default tenant and its first user;   *)
(* the scripts bootstrap-tenant and create-user, run beside the server;     *)
(* and AuthService.login, behind the rate limit.  A token carries the       *)
(* database and the role as the login read them, and is believed until it   *)
(* expires, whatever the scripts write meanwhile.                          *)
(***************************************************************************)
EXTENDS LoginRateLimit

CONSTANTS Request,     \* logins in flight
          Code,        \* tenant codes
          BootCode,    \* AUTH_BOOTSTRAP_TENANT
          BootEmail,   \* AUTH_BOOTSTRAP_USER
          Db,          \* tenant databases
          BootDb,      \* AUTH_BOOTSTRAP_TENANT_DATABASE_URL
          Password,
          BootPassword,  \* AUTH_BOOTSTRAP_PASSWORD
          Ephemeral,   \* no AUTH_TOKEN_SECRET: a signing key for each start
          Ttl,         \* tokenTtlMs, in ticks
          MaxLogins, MaxScripts, MaxStarts  \* bounds

ASSUME AccountsAssumption ==
    /\ BootCode \in Code /\ BootEmail \in Email /\ BootDb \in Db /\ BootPassword \in Password
    /\ None \notin Code \cup Db \cup Password
    /\ Ephemeral \in BOOLEAN
    /\ Ttl \in Nat
    /\ MaxLogins \in Nat /\ MaxScripts \in Nat /\ MaxStarts \in Nat

VARIABLES tenants,   \* by code, the databaseUrl of the tenant
          users,     \* by code and email, password and role
          server,    \* how far the start of the server is
          script,    \* what a running script has still to write
          req,       \* what each login waits for
          session,   \* a token that a client holds
          logins, scripts, starts,  \* how many there were, for the bounds
          torn,      \* history: somebody died between a tenant and its user
          crossed    \* history: a script was at work while the server was starting

masterVars == <<tenants, users>>
vars == <<now, limitVars, masterVars, server, script, req, session, logins, scripts, starts,
          torn, crossed>>

\* An account is its password; the role goes the same way and nobody looks at it.
Idle == [step |-> "idle"]

\* code is None until it is known, guessed if the client did not say which tenant.
\* moved and changed are history: the tenants whose database, or account of this
\* email, was written since the login began; issued is when it ended.
Login == [step : {"tenant", "user"}, email : Email, password : Password,
          code : Code \cup {None}, guessed : BOOLEAN, db : Db \cup {None},
          moved : SUBSET Code, changed : SUBSET Code]
Script == [step : {"user"}, code : Code, email : Email, password : Password]
Session == [code : Code, email : Email, password : Password, db : Db, exp : Nat,
            key : Nat, issued : Nat, guessed : BOOLEAN,
            moved : SUBSET Code, changed : SUBSET Code]

TypeOK ==
    /\ RateLimitTypes
    /\ tenants \in [Code -> Db \cup {None}]
    /\ users \in [Code -> [Email -> Password \cup {None}]]
    /\ \A c \in Code, e \in Email : users[c][e] # None => tenants[c] # None
    /\ server \in {"down", "starting", "tenant", "user", "up", "refused"}
    /\ server = "user" => tenants[BootCode] # None
    /\ script \in {Idle} \cup Script
    /\ script # Idle => tenants[script.code] # None
    /\ req \in [Request -> {Idle} \cup Login]
    /\ \A r \in Request : req[r].step = "user" => req[r].code # None /\ req[r].db # None
    /\ session \in {Idle} \cup Session
    /\ logins \in 0 .. MaxLogins /\ scripts \in 0 .. MaxScripts /\ starts \in 0 .. MaxStarts
    /\ torn \in BOOLEAN /\ crossed \in BOOLEAN

Init ==
    /\ RateLimitInit
    /\ tenants = [c \in Code |-> None]
    /\ users = [c \in Code |-> [e \in Email |-> None]]
    /\ server = "down" /\ script = Idle /\ session = Idle
    /\ req = [r \in Request |-> Idle]
    /\ logins = 0 /\ scripts = 0 /\ starts = 0
    /\ torn = FALSE /\ crossed = FALSE

-----------------------------------------------------------------------------
\* The master database.

\* History: what is written while a login is under way, or its session in use.
Moved(work, c) == IF work = Idle THEN Idle ELSE [work EXCEPT !.moved = @ \cup {c}]
Changed(work, c, e) ==
    IF work # Idle /\ work.email = e THEN [work EXCEPT !.changed = @ \cup {c}] ELSE work

WriteTenant(c, db) ==
    /\ tenants' = [tenants EXCEPT ![c] = db]
    /\ req' = [r \in Request |-> Moved(req[r], c)]
    /\ session' = Moved(session, c)

WriteUser(c, e, p) ==
    /\ users' = [users EXCEPT ![c][e] = p]
    /\ req' = [r \in Request |-> Changed(req[r], c, e)]
    /\ session' = Changed(session, c, e)

\* Mutant: the users are not counted.
NeverAnyUsers == TRUE

\* userCount = 0
NoUsers == \A c \in Code, e \in Email : users[c][e] = None

-----------------------------------------------------------------------------
\* The start of the server: AuthService.onModuleInit.

Start ==
    /\ server \in {"down", "refused"}
    /\ starts < MaxStarts
    /\ starts' = starts + 1
    /\ server' = "starting" /\ crossed' = (script # Idle)
    /\ UNCHANGED <<now, limitVars, masterVars, script, req, session, logins, scripts, torn>>

\* There are users; or there are none, and no credentials for the first one.
CountUsers ==
    /\ server = "starting"
    /\ \E credentials \in BOOLEAN :
         server' = IF NoUsers /\ credentials THEN "tenant" ELSE "up"
    /\ UNCHANGED <<now, limitVars, masterVars, script, req, session, logins, scripts, starts,
                   torn, crossed>>

\* tenant.create: refused if the code is taken, and the start with it.
CreateTenant ==
    /\ server = "tenant"
    /\ IF tenants[BootCode] # None
       THEN server' = "refused" /\ UNCHANGED <<tenants, req, session>>
       ELSE server' = "user" /\ WriteTenant(BootCode, BootDb)
    /\ UNCHANGED <<now, limitVars, users, script, logins, scripts,
                   starts, torn, crossed>>

\* user.create: refused if a script has just made that user.
CreateUser ==
    /\ server = "user"
    /\ IF users[BootCode][BootEmail] # None
       THEN server' = "refused" /\ UNCHANGED <<users, req, session>>
       ELSE /\ server' = "up"
            /\ WriteUser(BootCode, BootEmail, BootPassword)
    /\ UNCHANGED <<now, limitVars, tenants, script, logins, scripts,
                   starts, torn, crossed>>

\* The process ends, with its logins and buckets.
Crash ==
    /\ server \notin {"down", "refused"}
    /\ server' = "down"
    /\ torn' = (torn \/ server = "user")
    /\ buckets' = << >>
    /\ recent' = [key \in Key |-> [a \in Age |-> 0]]
    /\ told' = [key \in Key |-> [at |-> 0, until |-> 0]]
    /\ req' = [r \in Request |-> Idle]
    /\ UNCHANGED <<now, masterVars, script, session, logins, scripts, starts, crossed>>

-----------------------------------------------------------------------------
\* The scripts, each a process of its own.

\* bootstrap-tenant: the tenant is made, or moved to another database ...
BootstrapTenant(c, db, e, p) ==
    /\ script = Idle
    /\ scripts < MaxScripts
    /\ scripts' = scripts + 1
    /\ WriteTenant(c, db)
    /\ script' = [step |-> "user", code |-> c, email |-> e, password |-> p]
    /\ crossed' = (crossed \/ server \in {"starting", "tenant", "user"})
    /\ UNCHANGED <<now, limitVars, users, server, logins, starts, torn>>

\* ... and then its admin made, or given that password.  Its location is in StockLocations.
BootstrapUser ==
    /\ script # Idle
    /\ WriteUser(script.code, script.email, script.password)
    /\ script' = Idle
    /\ crossed' = (crossed \/ server \in {"starting", "tenant", "user"})
    /\ UNCHANGED <<now, limitVars, tenants, server, logins, scripts,
                   starts, torn>>

ScriptDies ==
    /\ script # Idle
    /\ script' = Idle /\ torn' = TRUE
    /\ UNCHANGED <<now, limitVars, masterVars, server, req, session, logins, scripts, starts,
                   crossed>>

\* Mutant: the tenant is not looked up.
RunCreateUserAnywhere(c, e, p) ==
    /\ scripts < MaxScripts
    /\ scripts' = scripts + 1
    /\ WriteUser(c, e, p)
    /\ crossed' = (crossed \/ server \in {"starting", "tenant", "user"})
    /\ UNCHANGED <<now, limitVars, tenants, server, script, logins, starts, torn>>

\* create-user: an unknown tenant is an error, a known user gets password and role.
RunCreateUser(c, e, p) ==
    /\ tenants[c] # None
    /\ scripts < MaxScripts
    /\ scripts' = scripts + 1
    /\ WriteUser(c, e, p)
    /\ crossed' = (crossed \/ server \in {"starting", "tenant", "user"})
    /\ UNCHANGED <<now, limitVars, tenants, server, script, logins,
                   starts, torn>>

-----------------------------------------------------------------------------
\* POST auth/login.

Become(r, login) == req' = [req EXCEPT ![r] = login]

\* The guard, then the handler up to its first query; without an email it ends there.
Attempt(r, ip, e, p, c) ==
    LET guarded == Guarded(ip, e) IN
    /\ server = "up" /\ req[r] = Idle
    /\ logins < MaxLogins
    /\ logins' = logins + 1
    /\ Counting(guarded)
    /\ Become(r, IF guarded.allowed /\ e # None
                 THEN [step |-> "tenant", email |-> e, password |-> p, code |-> c,
                       guessed |-> c = None, db |-> None, moved |-> {}, changed |-> {}]
                 ELSE Idle)
    /\ UNCHANGED <<masterVars, server, script, session, scripts, starts, torn, crossed>>

\* Mutant: any of the tenants that have the email will do.
FirstTenant(login) ==
    IF login.code # None THEN {login.code} \ {c \in Code : tenants[c] = None}
    ELSE LET codes == {c \in Code : users[c][login.email] # None}
         IN  {c \in codes : c = CHOOSE d \in codes : TRUE}

\* By its code, or wherever the email has an account.
TenantsFor(login) ==
    IF login.code # None THEN {login.code} \ {c \in Code : tenants[c] = None}
    ELSE {c \in Code : users[c][login.email] # None}

\* resolveTenant: none, or several, are refused.
ResolveTenant(r) ==
    /\ req[r].step = "tenant"
    /\ \/ Cardinality(TenantsFor(req[r])) # 1 /\ Become(r, Idle)
       \/ \E c \in Code :
            /\ TenantsFor(req[r]) = {c}
            /\ Become(r, [req[r] EXCEPT !.step = "user", !.code = c, !.db = tenants[c]])
    /\ UNCHANGED <<now, limitVars, masterVars, server, script, session, logins, scripts,
                   starts, torn, crossed>>

SigningKey == IF Ephemeral THEN starts ELSE 0

\* The user is found, the password verified, and the token signed; a client may
\* or may not keep it.
Issue(r) ==
    LET login == req[r] IN
    /\ login.step = "user"
    /\ Become(r, Idle)
    /\ IF users[login.code][login.email] = login.password
       THEN session' = [code |-> login.code, email |-> login.email, password |-> login.password,
                        db |-> login.db, exp |-> (now + Ttl) \div Second,
                        key |-> SigningKey, issued |-> now, guessed |-> login.guessed,
                        moved |-> login.moved, changed |-> login.changed]
       ELSE UNCHANGED session
    /\ UNCHANGED <<now, limitVars, masterVars, server, script, logins, scripts, starts, torn,
                   crossed>>

\* A login whose query fails, or whose answer is lost.
Abort(r) ==
    /\ req[r] # Idle
    /\ Become(r, Idle)
    /\ UNCHANGED <<now, limitVars, masterVars, server, script, session, logins, scripts,
                   starts, torn, crossed>>

\* Mutant: a token that is signed is believed.
BelievedForever(s) == s # Idle /\ server = "up" /\ s.key = SigningKey

\* AuthGuard: the requests of this session are served, in the database it names.
Believed(s) ==
    /\ s # Idle /\ server = "up"
    /\ s.key = SigningKey
    /\ s.exp * Second >= now

TickAll ==
    /\ Tick
    /\ UNCHANGED <<masterVars, server, script, req, session, logins, scripts, starts, torn,
                   crossed>>

Next ==
    \/ Start \/ CountUsers \/ CreateTenant \/ CreateUser \/ Crash
    \/ \E c \in Code, e \in Email, p \in Password :
         \/ \E db \in Db : BootstrapTenant(c, db, e, p)
         \/ RunCreateUser(c, e, p)
    \/ BootstrapUser \/ ScriptDies
    \/ \E r \in Request :
         \/ \E ip \in Ip, e \in Email \cup {None}, p \in Password, c \in Code \cup {None} :
              Attempt(r, ip, e, p, c)
         \/ ResolveTenant(r) \/ Issue(r) \/ Abort(r)
    \/ TickAll

Spec == Init /\ [][Next]_vars

-----------------------------------------------------------------------------
\* Properties.

\* A session acts in the database, and with the password and role, that its
\* account has; or these were changed after its login began, and then it is
\* believed for the rest of its time only.
SessionsAgeOut ==
    Believed(session) =>
        /\ session.db # tenants[session.code] => session.code \in session.moved
        /\ session.password # users[session.code][session.email] =>
             session.code \in session.changed
        /\ now <= session.issued + Ttl

\* A client that did not say its tenant has a session of the only one that had its
\* email when the login began; an account elsewhere was written since.
GuessedTenantWasOnly ==
    session # Idle /\ session.guessed =>
        \A c \in Code \ {session.code} :
            users[c][session.email] # None => c \in session.changed

\* A start is refused only if somebody died between a tenant and its user, or a
\* script wrote during the start.
RefusedStartExplained == server = "refused" => torn \/ crossed
=============================================================================
