----------------------------- MODULE ConfigCache -----------------------------
(***************************************************************************)
(* The configuration that AxonautService and HusseService keep in          *)
(* this.config, and its copy in the SecureConfig table of a tenant.        *)
(* setConfig answers as soon as the memory is set and leaves the save to    *)
(* itself; whoever finds no configuration in memory loads the one of its   *)
(* tenant, over two awaits.  The service is one object for all tenants,    *)
(* and the two services share nothing: a behaviour is about one of them.   *)
(***************************************************************************)
EXTENDS Naturals, Sequences, SequencesExt

CONSTANTS Request,      \* request slots of the server
          Tenant,       \* the tenants that use it
          None,         \* no configuration, no tenant
          Reloaded,     \* by service, what it makes of each configuration it had stored
          MaxSets,      \* bound: configurations that are set
          MaxStarts     \* bound: restarts of the process

\* Axonaut stores the key only, so custom URLs come back as the default ones;
\* Husse stores the account as it is.
Service == {"axonaut", "husse"}

ASSUME ConfigAssumption ==
    /\ None \notin Tenant
    /\ \A s \in Service :
         /\ None \notin DOMAIN Reloaded[s]
         /\ Reloaded[s] \in [DOMAIN Reloaded[s] -> DOMAIN Reloaded[s]]
         /\ \A c \in DOMAIN Reloaded[s] :
              /\ Reloaded[s][Reloaded[s][c]] = Reloaded[s][c]
              /\ s = "husse" => Reloaded[s][c] = c
    /\ MaxSets \in Nat /\ MaxStarts \in Nat

VARIABLES service,       \* the service this behaviour is about
          cache,         \* this.config
          store,         \* by tenant, what its SecureConfig row decrypts to
          saves,         \* the saves that are under way, in the order of their calls
          req,           \* what each request slot waits for
          sets, starts,  \* how many were made, for the bounds
          last,          \* history: by tenant, the configuration answered for last
          lost,          \* history: tenants whose last one was not, or not last, stored
          users,         \* history: tenants that wrote this.config since the start
          slips          \* history: how a load got an old configuration since the start

configVars == <<cache, store, saves, sets, last, lost, users, slips>>

\* What clients configure: a key with its URLs, or an account.
Config == DOMAIN Reloaded[service]

Idle == [step |-> "idle"]
Save == [tenant : Tenant, config : Config]

SavesOf(t) == {i \in DOMAIN saves : saves[i].tenant = t}
Loading == {r \in Request : req[r].step \in {"load", "fill", "resume"}}

\* Two configurations that the store does not tell apart.
SameKey(c, d) == Reloaded[service][c] = Reloaded[service][d]

\* The store of t has what t configured last.
UpToDate(t) ==
    last[t] # None => store[t] # None /\ SameKey(store[t], last[t])

ConfigTypes ==
    /\ service \in Service
    /\ cache \in Config \cup {None}
    /\ store \in [Tenant -> Config \cup {None}]
    /\ \A t \in Tenant : store[t] # None => store[t] = Reloaded[service][store[t]]
    /\ saves \in Seq(Save)
    /\ last \in [Tenant -> Config \cup {None}]
    /\ lost \subseteq Tenant /\ users \subseteq Tenant
    /\ slips \subseteq {"behind", "overrun"}
    /\ cache # None => users # {}
    /\ sets \in 0 .. MaxSets /\ starts \in 0 .. MaxStarts

\* What earlier runs of the process have stored.
ConfigInit ==
    /\ service \in Service
    /\ cache = None
    /\ store \in [Tenant -> {Reloaded[service][c] : c \in Config} \cup {None}]
    /\ saves = << >>
    /\ sets = 0 /\ starts = 0
    /\ last = store
    /\ lost = {} /\ users = {} /\ slips = {}

-----------------------------------------------------------------------------
Become(r, work) == req' = [req EXCEPT ![r] = work]

\* History: whoever is at work for t may use what has just been set for t.
Accepting(t, c) ==
    [r \in Request |-> IF req[r] # Idle /\ req[r].tenant = t
                       THEN [req[r] EXCEPT !.accepts = @ \cup {c}] ELSE req[r]]

\* Mutant: a configuration that is in memory is not replaced.
RememberedOnce(c) == IF cache = None THEN c ELSE cache

Remembered(c) == c

\* POST config: the memory is set and the answer given; the save goes its way.
\* A configuration that is not valid is refused before anything is set.
SetConfig(t, c) ==
    /\ sets < MaxSets
    /\ sets' = sets + 1
    /\ cache' = Remembered(c)
    /\ saves' = Append(saves, [tenant |-> t, config |-> c])
    /\ last' = [last EXCEPT ![t] = c]
    /\ lost' = IF SavesOf(t) = {} THEN lost \ {t} ELSE lost
    /\ users' = users \cup {t}
    /\ slips' = IF Loading = {} THEN slips ELSE slips \cup {"overrun"}
    /\ req' = Accepting(t, c)
    /\ UNCHANGED <<service, store, starts>>

\* Mutant: a row that exists is left as it is.
InsertedOnly(save) == [store EXCEPT ![save.tenant] =
                   IF @ = None THEN Reloaded[service][save.config] ELSE @]

\* SecureConfigService.save: the upsert in the database of the tenant that asked.
Upserted(save) == [store EXCEPT ![save.tenant] = Reloaded[service][save.config]]

\* Saves of one tenant may land in another order than they were called in.
SaveLands(i) ==
    LET t == saves[i].tenant IN
    /\ store' = Upserted(saves[i])
    /\ saves' = RemoveAt(saves, i)
    /\ lost' = IF \E k \in SavesOf(t) : k < i THEN lost \cup {t} ELSE lost
    /\ UNCHANGED <<service, cache, req, sets, starts, last, users, slips>>

\* The catch of setConfig: a warning in the log.
SaveFails(i) ==
    /\ lost' = lost \cup {saves[i].tenant}
    /\ saves' = RemoveAt(saves, i)
    /\ UNCHANGED <<service, cache, store, req, sets, starts, last, users, slips>>

\* loadFromSecureStore: the row of the tenant is read.
Load(r) ==
    LET t == req[r].tenant IN
    /\ req[r].step = "load"
    /\ Become(r, [req[r] EXCEPT !.step = "fill", !.config = store[t]])
    /\ slips' = IF UpToDate(t) THEN slips ELSE slips \cup {"behind"}
    /\ UNCHANGED <<service, cache, store, saves, sets, starts, last, lost, users>>

\* Its continuation sets the memory, to null too, whatever it is by then.
Fill(r) ==
    /\ req[r].step = "fill"
    /\ cache' = req[r].config
    /\ users' = users \cup {req[r].tenant}
    /\ Become(r, [req[r] EXCEPT !.step = "resume", !.config = None])
    /\ UNCHANGED <<service, store, saves, sets, starts, last, lost, slips>>

\* The process dies and starts again: what was in memory is gone.
RestartConfig ==
    /\ starts < MaxStarts
    /\ starts' = starts + 1
    /\ cache' = None
    /\ saves' = << >>
    /\ lost' = lost \cup {t \in Tenant : SavesOf(t) # {}}
    /\ users' = {} /\ slips' = {}
    /\ req' = [r \in Request |-> Idle]
    /\ UNCHANGED <<service, store, sets, last>>
=============================================================================
