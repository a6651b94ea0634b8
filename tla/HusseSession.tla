---------------------------- MODULE HusseSession ----------------------------
(***************************************************************************)
(* Who uses the configuration of ConfigCache.  A request to Axonaut takes  *)
(* it once and goes.  An import from Husse logs in with it and fetches the *)
(* product pages; HusseService keeps one cookie, and the origin it is for, *)
(* for all requests, so that a login, a logout or another import changes   *)
(* the session under an import that is half-way.  What becomes of the       *)
(* products is CatalogueImport.                                            *)
(***************************************************************************)
EXTENDS ConfigCache

CONSTANTS Pages,        \* how many pages an import or a fetch reads
          MaxRequests   \* bound: requests served

ASSUME PagesAssumption ==
    Pages \in Nat \ {0} /\ MaxRequests \in Nat

VARIABLES cookie,   \* cookieHeader: the account whose session it opens
          origin,   \* allowedOrigin is set
          requests  \* how many were begun, for the bound

vars == <<service, cache, store, saves, req, sets, starts, last, lost, users, slips,
          cookie, origin, requests>>

\* config is what was read, then the account that the request is for (None for
\* a fetch); tenant is None if the request does not need what its tenant configured;
\* sent the session that the page under way was asked with.  accepts is history: the configurations its
\* tenant had last when it began or set since; disturbed, that another login
\* was answered since its own.
Work == [kind : {"use", "import", "login", "fetch"}, tenant : Tenant \cup {None},
         step : {"load", "fill", "resume", "used", "login", "fetch", "page"},
         config : Config \cup {None}, left : 0 .. Pages,
         sent : Config \cup {None},
         accepts : SUBSET Config, disturbed : BOOLEAN]

TypeOK ==
    /\ ConfigTypes
    /\ cookie \in Config \cup {None}
    /\ origin \in BOOLEAN /\ requests \in 0 .. MaxRequests
    /\ req \in [Request -> {Idle} \cup Work]
    /\ \A r \in Request : req[r] # Idle =>
         /\ req[r].step \in {"used", "login"} => req[r].config # None
         /\ req[r].step = "page" <=> req[r].left # 0
         /\ service = "axonaut" => req[r].kind = "use"

Init ==
    /\ ConfigInit
    /\ req = [r \in Request |-> Idle]
    /\ cookie = None /\ origin = FALSE /\ requests = 0

-----------------------------------------------------------------------------
Begun(kind, t) ==
    [kind |-> kind, tenant |-> t, step |-> "load", config |-> None,
     left |-> 0, sent |-> None,
     accepts |-> {last[u] : u \in {t} \ {None}} \ {None}, disturbed |-> FALSE]

Receive(r, work) ==
    /\ req[r] = Idle
    /\ requests < MaxRequests
    /\ requests' = requests + 1
    /\ Become(r, work)

\* Once there is a configuration, an import logs in with it and a request to
\* Axonaut uses it; GET husse/config has its answer.
With(work, c) ==
    IF service = "axonaut" THEN [work EXCEPT !.config = c, !.step = "used"]
    ELSE IF work.kind = "import" THEN [work EXCEPT !.config = c, !.step = "login"]
    ELSE Idle

\* ensureConfig of Axonaut, GET config of both, an import from Husse: the
\* configuration is taken from memory, or loaded.
Begin(r, t, kind) ==
    /\ kind = "import" => service = "husse"
    /\ Receive(r, IF cache # None THEN With(Begun(kind, t), cache) ELSE Begun(kind, t))
    /\ UNCHANGED <<service, configVars, starts, cookie, origin>>

\* Mutant: nobody looks whether there is one after the load.
ResumeAnyway(r) ==
    /\ req[r].step = "resume"
    /\ Become(r, With(req[r], cache))
    /\ UNCHANGED <<service, configVars, starts, cookie, origin, requests>>

\* Back in ensureConfig or resolveCredentials: the memory may be another one again.
Resume(r) ==
    /\ req[r].step = "resume"
    /\ Become(r, IF cache = None THEN Idle ELSE With(req[r], cache))
    /\ UNCHANGED <<service, configVars, starts, cookie, origin, requests>>

\* An import with the credentials in its request, and POST husse/login.
BeginWith(r, kind, c) ==
    /\ service = "husse"
    /\ Receive(r, [Begun(kind, None) EXCEPT !.step = "login", !.config = c])
    /\ UNCHANGED <<service, configVars, starts, cookie, origin>>

\* POST husse/fetch: under whatever session there is.
BeginFetch(r) ==
    /\ service = "husse"
    /\ Receive(r, [Begun("fetch", None) EXCEPT !.step = "fetch"])
    /\ UNCHANGED <<service, configVars, starts, cookie, origin>>

\* History: the pages of whoever fetches may now be of another session.
Disturbed(work) ==
    IF work # Idle /\ work.kind = "import" /\ work.step \in {"fetch", "page"}
    THEN [work EXCEPT !.disturbed = TRUE] ELSE work

\* Mutant: a session that is there is kept.
KeepsSession(c) == IF cookie = None THEN c ELSE cookie

NewSession(c) == c

\* performLogin, once Husse has answered with a cookie.
LoginOk(r) ==
    LET work == req[r] IN
    /\ work.step = "login"
    /\ cookie' = NewSession(work.config)
    /\ origin' = TRUE
    /\ req' = [q \in Request |->
                 IF q # r THEN Disturbed(req[q])
                 ELSE IF work.kind = "login" THEN Idle
                 ELSE [work EXCEPT !.step = "fetch"]]
    /\ UNCHANGED <<service, configVars, starts, requests>>

\* fetchPages, from one page to the next: each is asked for with the cookie there
\* is, after a look at the origin.
Asked(work, left) ==
    IF left = 0 THEN Idle
    ELSE IF ~origin THEN Idle
    ELSE [work EXCEPT !.step = "page", !.left = left, !.sent = cookie]

FetchPages(r) ==
    /\ req[r].step = "fetch"
    /\ Become(r, IF cookie = None THEN Idle ELSE Asked(req[r], Pages))
    /\ UNCHANGED <<service, configVars, starts, cookie, origin, requests>>

\* Husse serves the page, or a login page if it has ended the session.
PageOk(r) ==
    /\ req[r].step = "page"
    /\ Become(r, Asked(req[r], req[r].left - 1))
    /\ UNCHANGED <<service, configVars, starts, cookie, origin, requests>>

\* The login is refused, a page not served, or the request answered.
End(r) ==
    /\ req[r].step \in {"load", "used", "login", "page"}
    /\ Become(r, Idle)
    /\ UNCHANGED <<service, configVars, starts, cookie, origin, requests>>

\* Mutant: logging out leaves the origin.
ClearCookieOnly ==
    /\ cookie # None
    /\ cookie' = None
    /\ UNCHANGED <<service, configVars, starts, req, origin, requests>>

\* POST husse/logout.
ClearCookie ==
    /\ cookie # None
    /\ cookie' = None /\ origin' = FALSE
    /\ UNCHANGED <<service, configVars, starts, req, requests>>

Restart == RestartConfig /\ cookie' = None /\ origin' = FALSE /\ UNCHANGED requests

\* A step that has to do with the configuration alone.
Configure ==
    /\ \/ \E t \in Tenant, c \in Config : SetConfig(t, c)
       \/ \E i \in DOMAIN saves : SaveLands(i) \/ SaveFails(i)
       \/ \E r \in Request : Load(r) \/ Fill(r)
    /\ UNCHANGED <<cookie, origin, requests>>

Next ==
    \/ Configure
    \/ \E r \in Request :
         \/ \E t \in Tenant, kind \in {"use", "import"} : Begin(r, t, kind)
         \/ \E c \in Config, kind \in {"import", "login"} : BeginWith(r, kind, c)
         \/ BeginFetch(r)
         \/ Resume(r) \/ LoginOk(r) \/ FetchPages(r) \/ PageOk(r) \/ End(r)
    \/ ClearCookie
    \/ Restart

Spec == Init /\ [][Next]_vars

-----------------------------------------------------------------------------
\* Properties.

\* An answered setConfig is in the store of its tenant, or on its way there, unless
\* a save of that tenant failed, died with the process or was overtaken.
AnsweredIsStored ==
    \A t \in Tenant \ lost :
        last[t] # None =>
            IF SavesOf(t) = {} THEN store[t] = Reloaded[service][last[t]]
            ELSE \E i \in SavesOf(t) :
                   /\ saves[i].config = last[t]
                   /\ \A k \in SavesOf(t) : k <= i

\* Whoever asked for the configuration of its tenant goes on with the key, or the
\* account, that the tenant had last when the request began or has set since;
\* unless since the start of the process another tenant wrote the memory, a
\* setConfig came during a load, or a load found a store that was behind.
UsesOwnLatest ==
    \A r \in Request :
        /\ req[r] # Idle /\ req[r].tenant # None /\ req[r].step \in {"used", "login", "fetch", "page"}
        /\ users \subseteq {req[r].tenant} /\ slips = {}
        => \E c \in req[r].accepts : SameKey(c, req[r].config)

\* The pages of an import come from the account it logged in with, unless another
\* login was answered while it was fetching.
PagesOfOwnAccount ==
    \A r \in Request :
        req[r].step = "page" /\ req[r].kind = "import" /\ ~req[r].disturbed
        => req[r].sent \in {req[r].config, None}

\* No page is asked for without a session, though fetchPages only looks at the
\* cookie before the first page: a logout ends the imports that are under way.
NoPageWithoutSession ==
    \A r \in Request : req[r].step = "page" => req[r].sent # None
=============================================================================
