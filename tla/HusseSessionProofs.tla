-------------------------- MODULE HusseSessionProofs --------------------------
(***************************************************************************)
(* Proofs about ConfigCache and HusseSession, for any number of requests,   *)
(* tenants, configurations and pages.                                      *)
(***************************************************************************)
EXTENDS HusseSession, TLAPS

-----------------------------------------------------------------------------
(***************************************************************************)
(* What holds of a request, given what it may look at.                     *)
(***************************************************************************)
Shape(w) ==
    /\ w \in Work
    /\ w.step \in {"used", "login"} => w.config # None
    /\ w.step = "page" <=> w.left # 0
    /\ service = "axonaut" => w.kind = "use"
    /\ w.step \in {"load", "fill", "resume"} =>
         w.tenant # None /\ w.kind \in {"use", "import"} /\ ~w.disturbed

\* The session under an import that nobody disturbed is its own, or gone.
SessionAt(ck, w) ==
    /\ w.step = "page" => w.sent # None
    /\ w.kind = "import" /\ ~w.disturbed /\ w.step \in {"fetch", "page"} =>
         /\ ck \in {w.config, None}
         /\ w.step = "page" => w.sent = w.config

\* A request knows what its tenant had last; what it loaded is that, and what it
\* goes on with was that at some moment, as long as nothing slipped.
OwnAt(ls, us, sl, w) ==
    w.tenant # None =>
        /\ ls[w.tenant] # None => ls[w.tenant] \in w.accepts
        /\ w.step = "fill" /\ w.config # None /\ sl = {} =>
             ls[w.tenant] # None /\ SameKey(w.config, ls[w.tenant])
        /\ w.step \in {"used", "login", "fetch", "page"} /\ us \subseteq {w.tenant} /\ sl = {} =>
             \E c \in w.accepts : SameKey(c, w.config)

RequestAt(ck, ls, us, sl, w) ==
    w = Idle \/ (Shape(w) /\ SessionAt(ck, w) /\ OwnAt(ls, us, sl, w))

RequestsInv ==
    /\ req \in [Request -> {Idle} \cup Work]
    /\ \A r \in Request : RequestAt(cookie, last, users, slips, req[r])

SessionInv ==
    /\ cookie \in Config \cup {None}
    /\ origin \in BOOLEAN /\ (origin <=> cookie # None)
    /\ requests \in 0 .. MaxRequests

StoreInv ==
    /\ ConfigTypes
    /\ AnsweredIsStored
    /\ \A t \in Tenant : last[t] = None => store[t] = None /\ SavesOf(t) = {}

\* What is in memory is what the only tenant that wrote it had last.
MemoryInv ==
    \A t \in Tenant :
        users \subseteq {t} /\ slips = {} /\ cache # None =>
            last[t] # None /\ SameKey(cache, last[t])

Inv == StoreInv /\ MemoryInv /\ SessionInv /\ RequestsInv

LEMMA ServiceFacts ==
    ASSUME service \in Service
    PROVE  /\ None \notin Config
           /\ \A c \in Config : /\ Reloaded[service][c] \in Config
                                /\ Reloaded[service][Reloaded[service][c]] = Reloaded[service][c]
  BY ConfigAssumption DEF Config

LEMMA WorkIsNotIdle == \A w \in Work : w # Idle /\ w.step # "idle"
  BY DEF Work, Idle

LEMMA InvTypes == Inv => TypeOK
  <1> SUFFICES ASSUME Inv PROVE TypeOK
    OBVIOUS
  <1>1. origin \in BOOLEAN
    BY DEF Inv, SessionInv
  <1> QED
    BY <1>1 DEF Inv, StoreInv, SessionInv, RequestsInv, RequestAt, Shape, TypeOK

LEMMA Initially == Init => Inv
  <1> SUFFICES ASSUME Init PROVE Inv
    OBVIOUS
  <1>1. /\ service \in Service /\ cache = None /\ saves = << >> /\ last = store
        /\ sets = 0 /\ starts = 0 /\ lost = {} /\ users = {} /\ slips = {}
        /\ store \in [Tenant -> {Reloaded[service][c] : c \in Config} \cup {None}]
        /\ req = [r \in Request |-> Idle] /\ cookie = None /\ origin = FALSE /\ requests = 0
    BY DEF Init, ConfigInit
  <1>2. store \in [Tenant -> Config \cup {None}]
        /\ \A t \in Tenant : store[t] # None => store[t] = Reloaded[service][store[t]]
    BY <1>1, ServiceFacts
  <1>3. saves \in Seq(Save) /\ \A t \in Tenant : SavesOf(t) = {}
    BY <1>1 DEF SavesOf
  <1>4. ConfigTypes
    <2>1. sets \in 0 .. MaxSets /\ starts \in 0 .. MaxStarts
      BY <1>1, ConfigAssumption
    <2>2. last \in [Tenant -> Config \cup {None}]
      BY <1>1, <1>2
    <2> QED
      BY <1>1, <1>2, <1>3, <2>1, <2>2 DEF ConfigTypes
  <1>5. AnsweredIsStored
    BY <1>1, <1>2, <1>3 DEF AnsweredIsStored
  <1>6. StoreInv
    BY <1>1, <1>3, <1>4, <1>5 DEF StoreInv
  <1>7. MemoryInv /\ RequestsInv
    BY <1>1 DEF MemoryInv, RequestsInv, RequestAt
  <1>8. SessionInv
    <2>1. origin \in BOOLEAN /\ ~origin
      BY <1>1, Zenon
    <2>2. cookie \in Config \cup {None} /\ cookie = None /\ requests \in 0 .. MaxRequests
      BY <1>1, PagesAssumption
    <2> QED
      BY <2>1, <2>2 DEF SessionInv
  <1> QED
    BY <1>6, <1>7, <1>8 DEF Inv

-----------------------------------------------------------------------------
(***************************************************************************)
(* The steps of one request that leave the configuration and the session.   *)
(***************************************************************************)
LEMMA ConfigUntouched ==
    ASSUME StoreInv, MemoryInv, UNCHANGED <<service, configVars, starts>>
    PROVE  StoreInv' /\ MemoryInv'
  BY DEF StoreInv, MemoryInv, ConfigTypes, AnsweredIsStored, SavesOf, SameKey, Config, Save,
         configVars

LEMMA WorkStays ==
    ASSUME service' = service
    PROVE  /\ Config' = Config /\ Work' = Work /\ Save' = Save
           /\ \A c, d : SameKey(c, d)' <=> SameKey(c, d)
           /\ \A w : Shape(w)' <=> Shape(w)
           /\ \A ck, ls, us, sl, w : RequestAt(ck, ls, us, sl, w)' <=> RequestAt(ck, ls, us, sl, w)
  <1>1. Config' = Config /\ \A c, d : SameKey(c, d)' <=> SameKey(c, d)
    BY DEF Config, SameKey
  <1>2. Work' = Work /\ Save' = Save
    BY <1>1 DEF Work, Save
  <1>3. \A w : Shape(w)' <=> Shape(w)
    BY <1>2 DEF Shape
  <1>4. \A ls, us, sl, w : OwnAt(ls, us, sl, w)' <=> OwnAt(ls, us, sl, w)
    BY <1>1 DEF OwnAt
  <1> QED
    BY <1>1, <1>2, <1>3, <1>4 DEF RequestAt, SessionAt

LEMMA OneContinues ==
    ASSUME Inv, NEW r \in Request, NEW w, RequestAt(cookie, last, users, slips, w),
           Become(r, w), UNCHANGED <<service, configVars, starts, cookie, origin>>,
           requests' \in 0 .. MaxRequests
    PROVE  Inv'
  <1>1. StoreInv' /\ MemoryInv'
    BY ConfigUntouched DEF Inv
  <1>2. w \in {Idle} \cup Work
    BY DEF RequestAt, Shape
  <1>3. /\ req' = [req EXCEPT ![r] = w] /\ last' = last /\ users' = users /\ slips' = slips
        /\ cookie' = cookie /\ origin' = origin /\ service' = service
    BY DEF Become, configVars
  <1>4. SessionInv'
    BY <1>3, WorkStays DEF Inv, SessionInv
  <1>5. req' \in [Request -> {Idle} \cup Work']
    BY <1>2, <1>3, WorkStays DEF Inv, RequestsInv
  <1>6. \A q \in Request : RequestAt(cookie, last, users, slips, req'[q])
    BY <1>3 DEF Inv, RequestsInv
  <1>7. RequestsInv'
    BY <1>3, <1>5, <1>6, WorkStays DEF RequestsInv
  <1> QED
    BY <1>1, <1>4, <1>7 DEF Inv

LEMMA IdleAt == RequestAt(cookie, last, users, slips, Idle)
  BY DEF RequestAt

\* With the configuration in memory, a request of a tenant goes on with what is
\* in memory, which is that of its tenant if nobody else's may be there.
LEMMA WithAt ==
    ASSUME Inv, NEW w, Shape(w), w.tenant \in Tenant, w.left = 0, ~w.disturbed,
           w.kind \in {"use", "import"},
           last[w.tenant] # None => last[w.tenant] \in w.accepts,
           cache # None
    PROVE  RequestAt(cookie, last, users, slips, With(w, cache))
  <1>1. CASE With(w, cache) = Idle
    BY <1>1 DEF RequestAt
  <1>2. ASSUME NEW step \in {"used", "login"},
               With(w, cache) = [w EXCEPT !.config = cache, !.step = step]
        PROVE  RequestAt(cookie, last, users, slips, With(w, cache))
    <2> DEFINE v == [w EXCEPT !.config = cache, !.step = step]
    <2>1. cache \in Config /\ w \in Work
      BY DEF Inv, StoreInv, ConfigTypes, Shape
    <2>2. /\ v \in Work /\ v.step = step /\ v.config = cache /\ v.tenant = w.tenant
          /\ v.left = 0 /\ v.kind = w.kind /\ v.accepts = w.accepts
      BY <2>1 DEF Work
    <2> HIDE DEF v
    <2>3. Shape(v)
      BY <2>2 DEF Shape
    <2>4. SessionAt(cookie, v)
      BY <2>2 DEF SessionAt
    <2>5. OwnAt(last, users, slips, v)
      BY <2>2 DEF OwnAt, Inv, MemoryInv, SameKey
    <2> QED
      BY <1>2, <2>3, <2>4, <2>5 DEF RequestAt, v
  <1>3. \/ With(w, cache) = Idle
        \/ \E step \in {"used", "login"} :
             With(w, cache) = [w EXCEPT !.config = cache, !.step = step]
    BY DEF With
  <1> QED
    BY <1>1, <1>2, <1>3

LEMMA BegunShape ==
    ASSUME Inv, NEW kind \in {"use", "import", "login", "fetch"}, NEW t \in Tenant \cup {None},
           service = "axonaut" => kind = "use"
    PROVE  /\ Begun(kind, t) \in Work /\ Begun(kind, t).kind = kind
           /\ t # None /\ kind \in {"use", "import"} => Shape(Begun(kind, t))
           /\ Begun(kind, t).tenant = t /\ Begun(kind, t).step = "load"
           /\ Begun(kind, t).left = 0 /\ Begun(kind, t).sent = None
           /\ ~Begun(kind, t).disturbed
           /\ t # None /\ last[t] # None => last[t] \in Begun(kind, t).accepts
  <1> DEFINE accepts == {last[u] : u \in {t} \ {None}} \ {None}
  <1>1. accepts \in SUBSET Config
    BY DEF Inv, StoreInv, ConfigTypes
  <1>2. t # None /\ last[t] # None => last[t] \in accepts
    OBVIOUS
  <1>3. 0 \in 0 .. Pages /\ FALSE \in BOOLEAN
    BY PagesAssumption
  <1> HIDE DEF accepts
  <1>4. Begun(kind, t) = [kind |-> kind, tenant |-> t, step |-> "load", config |-> None,
                          left |-> 0, sent |-> None, accepts |-> accepts, disturbed |-> FALSE]
    BY DEF Begun, accepts
  <1>5. Begun(kind, t) \in Work
    BY <1>1, <1>3, <1>4 DEF Work
  <1> QED
    BY <1>2, <1>4, <1>5 DEF Shape

LEMMA ReceiveKeeps ==
    ASSUME Inv, NEW r \in Request, NEW w, RequestAt(cookie, last, users, slips, w),
           Receive(r, w), UNCHANGED <<service, configVars, starts, cookie, origin>>
    PROVE  Inv'
  <1>1. requests' \in 0 .. MaxRequests
    BY PagesAssumption DEF Receive, Inv, SessionInv
  <1> QED
    BY <1>1, OneContinues DEF Receive

LEMMA BeginKeeps ==
    ASSUME Inv, NEW r \in Request, NEW t \in Tenant, NEW kind \in {"use", "import"},
           Begin(r, t, kind)
    PROVE  Inv'
  <1> DEFINE w == Begun(kind, t)
  <1>1. service \in Service /\ t # None /\ (service = "axonaut" => kind = "use")
    BY ConfigAssumption DEF Inv, StoreInv, ConfigTypes, Begin
  <1>2. /\ Shape(w) /\ w.kind = kind /\ w.tenant = t /\ w.step = "load"
        /\ w.left = 0 /\ ~w.disturbed /\ (last[t] # None => last[t] \in w.accepts)
    BY <1>1, BegunShape
  <1> HIDE DEF w
  <1>3. CASE cache # None
    <2>1. RequestAt(cookie, last, users, slips, With(w, cache))
      BY <1>2, <1>3, WithAt
    <2> QED
      BY <1>3, <2>1, ReceiveKeeps DEF Begin, w
  <1>4. CASE cache = None
    <2>1. RequestAt(cookie, last, users, slips, w)
      BY <1>2 DEF RequestAt, SessionAt, OwnAt
    <2> QED
      BY <1>4, <2>1, ReceiveKeeps DEF Begin, w
  <1> QED
    BY <1>3, <1>4

LEMMA BeginWithKeeps ==
    ASSUME Inv, NEW r \in Request, NEW kind \in {"import", "login"}, NEW c \in Config,
           BeginWith(r, kind, c)
    PROVE  Inv'
  <1> DEFINE w == [Begun(kind, None) EXCEPT !.step = "login", !.config = c]
  <1>1. /\ service = "husse" /\ c # None
    BY ServiceFacts DEF BeginWith, Inv, StoreInv, ConfigTypes
  <1>2. /\ Begun(kind, None) \in Work /\ Begun(kind, None).tenant = None
        /\ Begun(kind, None).left = 0
    BY <1>1, BegunShape
  <1>3. w \in Work /\ w.tenant = None /\ w.left = 0 /\ w.step = "login" /\ w.config = c
    BY <1>2 DEF Work
  <1>4. RequestAt(cookie, last, users, slips, w)
    BY <1>1, <1>3 DEF RequestAt, Shape, SessionAt, OwnAt
  <1> QED
    BY <1>4, ReceiveKeeps DEF BeginWith

LEMMA BeginFetchKeeps ==
    ASSUME Inv, NEW r \in Request, BeginFetch(r)
    PROVE  Inv'
  <1> DEFINE w == [Begun("fetch", None) EXCEPT !.step = "fetch"]
  <1>1. service = "husse"
    BY DEF BeginFetch
  <1>2. /\ Begun("fetch", None) \in Work /\ Begun("fetch", None).tenant = None
        /\ Begun("fetch", None).left = 0 /\ Begun("fetch", None).kind = "fetch"
    BY <1>1, BegunShape
  <1>3. w \in Work /\ w.tenant = None /\ w.left = 0 /\ w.step = "fetch" /\ w.kind = "fetch"
    BY <1>2 DEF Work
  <1>4. RequestAt(cookie, last, users, slips, w)
    BY <1>1, <1>3 DEF RequestAt, Shape, SessionAt, OwnAt
  <1> QED
    BY <1>4, ReceiveKeeps DEF BeginFetch

\* A request at work, by its step.
LEMMA AtWork ==
    ASSUME Inv, NEW r \in Request, req[r].step # "idle"
    PROVE  /\ req[r] \in Work /\ Shape(req[r]) /\ SessionAt(cookie, req[r])
           /\ OwnAt(last, users, slips, req[r])
  BY DEF Inv, RequestsInv, RequestAt, Idle, Shape

LEMMA ResumeKeeps ==
    ASSUME Inv, NEW r \in Request, Resume(r)
    PROVE  Inv'
  <1>1. /\ req[r].step = "resume"
        /\ Become(r, IF cache = None THEN Idle ELSE With(req[r], cache))
        /\ UNCHANGED <<service, configVars, starts, cookie, origin, requests>>
    BY DEF Resume
  <1>2. /\ Shape(req[r]) /\ OwnAt(last, users, slips, req[r]) /\ req[r].left = 0
        /\ req[r].tenant \in Tenant /\ req[r].tenant # None
        /\ req[r].kind \in {"use", "import"} /\ ~req[r].disturbed
    BY <1>1, AtWork DEF Shape, Work
  <1>3. requests' \in 0 .. MaxRequests
    BY <1>1 DEF Inv, SessionInv
  <1>4. CASE cache = None
    BY <1>1, <1>3, <1>4, IdleAt, OneContinues
  <1>5. CASE cache # None
    <2>1. RequestAt(cookie, last, users, slips, With(req[r], cache))
      BY <1>2, <1>5, WithAt DEF OwnAt
    <2> QED
      BY <1>1, <1>3, <1>5, <2>1, OneContinues
  <1> QED
    BY <1>4, <1>5

LEMMA AskedAt ==
    ASSUME Inv, NEW r \in Request, req[r].step \in {"fetch", "page"}, NEW left \in 0 .. Pages
    PROVE  RequestAt(cookie, last, users, slips, Asked(req[r], left))
  <1> DEFINE v == [req[r] EXCEPT !.step = "page", !.left = left, !.sent = cookie]
  <1>1. CASE left # 0 /\ origin
    <2>1. /\ req[r] \in Work /\ Shape(req[r]) /\ SessionAt(cookie, req[r])
          /\ OwnAt(last, users, slips, req[r])
      BY AtWork
    <2>2. cookie \in Config /\ cookie # None
      BY <1>1 DEF Inv, SessionInv
    <2>3. /\ v \in Work /\ v.step = "page" /\ v.left = left /\ v.sent = cookie
          /\ v.kind = req[r].kind /\ v.tenant = req[r].tenant /\ v.config = req[r].config
          /\ v.accepts = req[r].accepts /\ v.disturbed = req[r].disturbed
      BY <2>1, <2>2 DEF Work
    <2>4. Asked(req[r], left) = v
      BY <1>1 DEF Asked
    <2> HIDE DEF v
    <2>5. Shape(v)
      BY <1>1, <2>1, <2>3 DEF Shape
    <2>6. SessionAt(cookie, v)
      BY <2>1, <2>2, <2>3 DEF SessionAt
    <2>7. OwnAt(last, users, slips, v)
      BY <2>1, <2>3 DEF OwnAt
    <2> QED
      BY <2>4, <2>5, <2>6, <2>7 DEF RequestAt
  <1>2. CASE ~(left # 0 /\ origin)
    BY <1>2, IdleAt DEF Asked
  <1> QED
    BY <1>1, <1>2

LEMMA FetchPagesKeeps ==
    ASSUME Inv, NEW r \in Request, FetchPages(r)
    PROVE  Inv'
  <1>1. /\ req[r].step = "fetch"
        /\ Become(r, IF cookie = None THEN Idle ELSE Asked(req[r], Pages))
        /\ UNCHANGED <<service, configVars, starts, cookie, origin, requests>>
    BY DEF FetchPages
  <1>2. requests' \in 0 .. MaxRequests /\ Pages \in 0 .. Pages
    BY <1>1, PagesAssumption DEF Inv, SessionInv
  <1>3. RequestAt(cookie, last, users, slips, Asked(req[r], Pages))
    BY <1>1, <1>2, AskedAt
  <1> QED
    BY <1>1, <1>2, <1>3, IdleAt, OneContinues

LEMMA PageOkKeeps ==
    ASSUME Inv, NEW r \in Request, PageOk(r)
    PROVE  Inv'
  <1>1. /\ req[r].step = "page" /\ Become(r, Asked(req[r], req[r].left - 1))
        /\ UNCHANGED <<service, configVars, starts, cookie, origin, requests>>
    BY DEF PageOk
  <1>2. requests' \in 0 .. MaxRequests
    BY <1>1 DEF Inv, SessionInv
  <1>3. req[r].left - 1 \in 0 .. Pages
    BY <1>1, AtWork, PagesAssumption DEF Shape, Work
  <1>4. RequestAt(cookie, last, users, slips, Asked(req[r], req[r].left - 1))
    BY <1>1, <1>3, AskedAt
  <1> QED
    BY <1>1, <1>2, <1>4, OneContinues

LEMMA EndKeeps ==
    ASSUME Inv, NEW r \in Request, End(r)
    PROVE  Inv'
  <1>1. requests' \in 0 .. MaxRequests
    BY DEF End, Inv, SessionInv
  <1> QED
    BY <1>1, IdleAt, OneContinues DEF End

-----------------------------------------------------------------------------
(***************************************************************************)
(* The session.                                                            *)
(***************************************************************************)
\* Another login disturbs the imports that fetch; it changes nothing else of a request.
LEMMA DisturbedAt ==
    ASSUME NEW ck, NEW w, RequestAt(cookie, last, users, slips, w)
    PROVE  RequestAt(ck, last, users, slips, Disturbed(w))
  <1>1. CASE Disturbed(w) = w
    <2>1. w = Idle \/ ~(w.kind = "import" /\ w.step \in {"fetch", "page"}) \/ w.disturbed
      <3> SUFFICES ASSUME w # Idle, w.kind = "import", w.step \in {"fetch", "page"}
                   PROVE  w.disturbed
        OBVIOUS
      <3>1. w \in Work /\ w = [w EXCEPT !.disturbed = TRUE]
        BY <1>1 DEF Disturbed, RequestAt, Shape
      <3>2. [w EXCEPT !.disturbed = TRUE].disturbed
        BY <3>1 DEF Work
      <3> QED
        BY <3>1, <3>2
    <2> QED
      BY <1>1, <2>1 DEF RequestAt, SessionAt
  <1>2. CASE Disturbed(w) # w
    <2> DEFINE v == [w EXCEPT !.disturbed = TRUE]
    <2>1. /\ w # Idle /\ Disturbed(w) = v /\ Shape(w) /\ w \in Work
          /\ SessionAt(cookie, w) /\ OwnAt(last, users, slips, w)
          /\ w.step \in {"fetch", "page"}
      BY <1>2 DEF Disturbed, RequestAt, Shape
    <2>2. /\ v \in Work /\ v.step = w.step /\ v.left = w.left /\ v.sent = w.sent
          /\ v.kind = w.kind /\ v.tenant = w.tenant /\ v.config = w.config
          /\ v.accepts = w.accepts /\ v.disturbed
      BY <2>1 DEF Work
    <2> HIDE DEF v
    <2> QED
      BY <2>1, <2>2 DEF RequestAt, Shape, SessionAt, OwnAt
  <1> QED
    BY <1>1, <1>2

LEMMA LoginOkKeeps ==
    ASSUME Inv, NEW r \in Request, LoginOk(r)
    PROVE  Inv'
  <1> DEFINE work == req[r]
             w == [work EXCEPT !.step = "fetch"]
  <1>1. /\ work.step = "login" /\ cookie' = work.config /\ origin' = TRUE
        /\ req' = [q \in Request |-> IF q # r THEN Disturbed(req[q])
                                     ELSE IF work.kind = "login" THEN Idle ELSE w]
        /\ service' = service /\ last' = last /\ users' = users /\ slips' = slips
        /\ requests' = requests /\ UNCHANGED <<service, configVars, starts>>
    BY DEF LoginOk, NewSession, configVars
  <1>2. /\ work \in Work /\ Shape(work) /\ OwnAt(last, users, slips, work)
        /\ work.config # None /\ work.config \in Config /\ work.left = 0
    BY <1>1, AtWork DEF Shape, Work
  <1>3. RequestAt(work.config, last, users, slips, w)
    <2>1. /\ w \in Work /\ w.step = "fetch" /\ w.left = work.left
          /\ w.kind = work.kind /\ w.tenant = work.tenant /\ w.config = work.config
          /\ w.accepts = work.accepts
      BY <1>2 DEF Work
    <2> HIDE DEF w, work
    <2> QED
      BY <1>1, <1>2, <2>1 DEF RequestAt, Shape, SessionAt, OwnAt
  <1>4. StoreInv' /\ MemoryInv'
    BY <1>1, ConfigUntouched DEF Inv
  <1>5. SessionInv'
    BY <1>1, <1>2, WorkStays DEF Inv, SessionInv
  <1> HIDE DEF w, work
  <1>6. \A q \in Request : RequestAt(work.config, last, users, slips, req'[q])
    <2> SUFFICES ASSUME NEW q \in Request
                 PROVE  RequestAt(work.config, last, users, slips, req'[q])
      OBVIOUS
    <2>1. CASE q # r
      BY <1>1, <2>1, DisturbedAt DEF Inv, RequestsInv
    <2>2. CASE q = r
      BY <1>1, <1>3, <2>2 DEF RequestAt
    <2> QED
      BY <2>1, <2>2
  <1>7. req' \in [Request -> {Idle} \cup Work']
    BY <1>1, <1>6, WorkStays DEF RequestAt, Shape
  <1>8. RequestsInv'
    BY <1>1, <1>6, <1>7, WorkStays DEF RequestsInv
  <1> QED
    BY <1>4, <1>5, <1>8 DEF Inv

LEMMA ClearCookieKeeps == ASSUME Inv, ClearCookie PROVE Inv'
  <1>1. /\ cookie' = None /\ origin' = FALSE /\ req' = req /\ requests' = requests
        /\ service' = service /\ last' = last /\ users' = users /\ slips' = slips
        /\ UNCHANGED <<service, configVars, starts>>
    BY DEF ClearCookie, configVars
  <1>2. StoreInv' /\ MemoryInv'
    BY <1>1, ConfigUntouched DEF Inv
  <1>3. SessionInv'
    BY <1>1, WorkStays DEF Inv, SessionInv
  <1>4. \A r \in Request : RequestAt(None, last, users, slips, req[r])
    BY DEF Inv, RequestsInv, RequestAt, SessionAt
  <1>5. RequestsInv'
    BY <1>1, <1>4, WorkStays DEF Inv, RequestsInv
  <1> QED
    BY <1>2, <1>3, <1>5 DEF Inv

-----------------------------------------------------------------------------
(***************************************************************************)
(* The saves under way.                                                    *)
(***************************************************************************)
SavesIn(ss, t) == {k \in DOMAIN ss : ss[k].tenant = t}

LatestIn(ss, t, c) ==
    \E i \in SavesIn(ss, t) : ss[i].config = c /\ \A k \in SavesIn(ss, t) : k <= i

StoredOr(st, ss, t, c) ==
    IF SavesIn(ss, t) = {} THEN st[t] = Reloaded[service][c] ELSE LatestIn(ss, t, c)

LEMMA StoredMeans ==
    AnsweredIsStored <=>
        \A t \in Tenant \ lost : last[t] # None => StoredOr(store, saves, t, last[t])
  BY DEF AnsweredIsStored, StoredOr, LatestIn, SavesIn, SavesOf

LEMMA StoredMeansNext ==
    ASSUME service' = service,
           \A t \in Tenant \ lost' : last'[t] # None => StoredOr(store', saves', t, last'[t])
    PROVE  AnsweredIsStored'
  BY DEF AnsweredIsStored, StoredOr, LatestIn, SavesIn, SavesOf

LEMMA OneRemoved ==
    ASSUME NEW ss \in Seq(Save), NEW i \in DOMAIN ss
    PROVE  /\ RemoveAt(ss, i) \in Seq(Save)
           /\ DOMAIN RemoveAt(ss, i) = 1 .. Len(ss) - 1
           /\ \A k \in 1 .. Len(ss) - 1 :
                RemoveAt(ss, i)[k] = IF k < i THEN ss[k] ELSE ss[k + 1]
  <1>1. i \in 1 .. Len(ss) /\ Len(ss) \in Nat
    OBVIOUS
  <1> DEFINE before == SubSeq(ss, 1, i - 1)
             after  == SubSeq(ss, i + 1, Len(ss))
  <1>2. before \in Seq(Save) /\ Len(before) = i - 1
        /\ \A k \in 1 .. i - 1 : before[k] = ss[k]
    BY <1>1
  <1>3. after \in Seq(Save) /\ Len(after) = Len(ss) - i
        /\ \A k \in 1 .. Len(ss) - i : after[k] = ss[i + k]
    BY <1>1
  <1>4. RemoveAt(ss, i) = before \o after
    BY DEF RemoveAt
  <1> HIDE DEF before, after
  <1>5. before \o after \in Seq(Save) /\ Len(before \o after) = Len(ss) - 1
    BY <1>1, <1>2, <1>3
  <1>6. ASSUME NEW k \in 1 .. Len(ss) - 1
        PROVE  (before \o after)[k] = IF k < i THEN ss[k] ELSE ss[k + 1]
    <2>1. CASE k < i
      BY <1>1, <1>2, <1>3, <2>1
    <2>2. CASE k >= i
      <3>1. (before \o after)[k] = after[k - (i - 1)]
        BY <1>1, <1>2, <1>3, <2>2
      <3>2. k - (i - 1) \in 1 .. Len(ss) - i /\ i + (k - (i - 1)) = k + 1
        BY <1>1, <2>2
      <3> QED
        BY <1>1, <1>3, <2>2, <3>1, <3>2, SMTT(30)
    <2>3. k \in Int /\ i \in Int
      BY <1>1
    <2>4. k < i \/ k >= i
      BY <2>3
    <2> QED
      BY <2>1, <2>2, <2>4
  <1>7. DOMAIN (before \o after) = 1 .. Len(ss) - 1
    BY <1>5
  <1> HIDE DEF before, after
  <1> QED
    BY <1>4, <1>5, <1>6, <1>7

LEMMA OthersStay ==
    ASSUME NEW ss \in Seq(Save), NEW i \in DOMAIN ss, NEW t
    PROVE  /\ SavesIn(RemoveAt(ss, i), t) = {} <=> SavesIn(ss, t) \subseteq {i}
           /\ \A c : LatestIn(ss, t, c) /\ (\E j \in SavesIn(ss, t) : j > i) =>
                LatestIn(RemoveAt(ss, i), t, c)
           /\ \A c : LatestIn(ss, t, c) /\ ss[i].tenant # t => LatestIn(RemoveAt(ss, i), t, c)
  <1> DEFINE rest == RemoveAt(ss, i)
             place(k) == IF k < i THEN k ELSE k - 1
  <1>1. /\ i \in 1 .. Len(ss) /\ Len(ss) \in Nat /\ DOMAIN ss = 1 .. Len(ss)
        /\ DOMAIN rest = 1 .. Len(ss) - 1
        /\ \A k \in 1 .. Len(ss) - 1 : rest[k] = IF k < i THEN ss[k] ELSE ss[k + 1]
    BY OneRemoved
  <1> HIDE DEF rest
  <1>2. \A k \in SavesIn(ss, t) \ {i} : place(k) \in SavesIn(rest, t) /\ rest[place(k)] = ss[k]
    BY <1>1 DEF SavesIn
  <1>3. \A n \in SavesIn(rest, t) : \E k \in SavesIn(ss, t) \ {i} : n = place(k)
    <2> SUFFICES ASSUME NEW n \in SavesIn(rest, t)
                 PROVE  \E k \in SavesIn(ss, t) \ {i} : n = place(k)
      OBVIOUS
    <2> DEFINE k == IF n < i THEN n ELSE n + 1
    <2>1. k \in SavesIn(ss, t) \ {i} /\ n = place(k)
      BY <1>1 DEF SavesIn
    <2> QED
      BY <2>1
  <1>4. SavesIn(rest, t) = {} <=> SavesIn(ss, t) \subseteq {i}
    BY <1>2, <1>3
  <1>5. ASSUME NEW c, NEW j \in SavesIn(ss, t), j # i, ss[j].config = c,
               \A k \in SavesIn(ss, t) : k <= j
        PROVE  LatestIn(rest, t, c)
    <2>1. place(j) \in SavesIn(rest, t) /\ rest[place(j)].config = c
      BY <1>2, <1>5
    <2>2. \A n \in SavesIn(rest, t) : n <= place(j)
      <3>1. \A k \in SavesIn(ss, t) : k \in Int
        BY <1>1 DEF SavesIn
      <3> QED
        BY <1>1, <1>3, <1>5, <3>1
    <2> HIDE DEF place
    <2> QED
      BY <2>1, <2>2 DEF LatestIn
  <1>6. ASSUME NEW c, LatestIn(ss, t, c), \E j \in SavesIn(ss, t) : j > i
        PROVE  LatestIn(rest, t, c)
    <2>1. PICK j \in SavesIn(ss, t) : ss[j].config = c /\ \A k \in SavesIn(ss, t) : k <= j
      BY <1>6 DEF LatestIn
    <2>2. j # i
      BY <1>1, <1>6, <2>1 DEF SavesIn
    <2> QED
      BY <1>5, <2>1, <2>2
  <1>7. ASSUME NEW c, LatestIn(ss, t, c), ss[i].tenant # t
        PROVE  LatestIn(rest, t, c)
    <2>1. PICK j \in SavesIn(ss, t) : ss[j].config = c /\ \A k \in SavesIn(ss, t) : k <= j
      BY <1>7 DEF LatestIn
    <2>2. j # i
      BY <1>7 DEF SavesIn
    <2> QED
      BY <1>5, <2>1, <2>2
  <1> QED
    BY <1>4, <1>6, <1>7 DEF rest

-----------------------------------------------------------------------------
(***************************************************************************)
(* The configuration.                                                      *)
(***************************************************************************)
LEMMA NoneIsNoConfig == Inv => None \notin Config /\ service \in Service
  BY ServiceFacts DEF Inv, StoreInv, ConfigTypes

LEMMA SavesAreSaves ==
    ASSUME Inv, NEW i \in DOMAIN saves
    PROVE  saves[i].tenant \in Tenant /\ saves[i].config \in Config
  <1>1. saves \in Seq(Save)
    BY DEF Inv, StoreInv, ConfigTypes
  <1>2. saves[i] \in Save
    BY <1>1
  <1> QED
    BY <1>2 DEF Save

LEMMA SetConfigStores ==
    ASSUME Inv, NEW t \in Tenant, NEW c \in Config, SetConfig(t, c)
    PROVE  StoreInv' /\ MemoryInv'
  <1> DEFINE x == [tenant |-> t, config |-> c]
  <1>1. /\ service' = service /\ cache' = c /\ store' = store /\ saves' = Append(saves, x)
        /\ sets < MaxSets /\ sets' = sets + 1 /\ starts' = starts
        /\ last' = [last EXCEPT ![t] = c]
        /\ lost' = IF SavesOf(t) = {} THEN lost \ {t} ELSE lost
        /\ users' = users \cup {t}
        /\ slips' = IF Loading = {} THEN slips ELSE slips \cup {"overrun"}
    BY DEF SetConfig, Remembered
  <1>2. /\ ConfigTypes /\ AnsweredIsStored /\ c # None /\ x \in Save /\ x.tenant = t
        /\ x.config = c /\ saves \in Seq(Save) /\ last \in [Tenant -> Config \cup {None}]
    BY NoneIsNoConfig DEF Inv, StoreInv, ConfigTypes, Save
  <1> HIDE DEF x
  <1>3. /\ saves' \in Seq(Save) /\ DOMAIN saves' = DOMAIN saves \cup {Len(saves) + 1}
        /\ \A k \in DOMAIN saves : saves'[k] = saves[k] /\ k <= Len(saves)
        /\ saves'[Len(saves) + 1] = x /\ Len(saves) \in Nat
        /\ Len(saves) + 1 \notin DOMAIN saves
    BY <1>1, <1>2
  <1>4. ConfigTypes'
    <2>1. sets' \in 0 .. MaxSets
      BY <1>1, <1>2, ConfigAssumption DEF ConfigTypes
    <2>2. last' \in [Tenant -> Config \cup {None}]
      BY <1>1, <1>2
    <2> QED
      BY <1>1, <1>2, <1>3, <2>1, <2>2, WorkStays DEF ConfigTypes
  <1>5. \A u \in Tenant : u # t => SavesIn(saves', u) = SavesIn(saves, u) /\ last'[u] = last[u]
    BY <1>1, <1>2, <1>3 DEF SavesIn
  <1>6. LatestIn(saves', t, c) /\ SavesIn(saves', t) # {}
    <2>1. Len(saves) + 1 \in SavesIn(saves', t)
      BY <1>2, <1>3 DEF SavesIn
    <2>2. \A k \in SavesIn(saves', t) : k <= Len(saves) + 1
      <3>1. \A k \in DOMAIN saves : k \in Nat
        BY <1>2
      <3> QED
        BY <1>3, <3>1 DEF SavesIn
    <2> QED
      BY <1>2, <1>3, <2>1, <2>2 DEF LatestIn
  <1>7. ASSUME NEW u \in Tenant, u \notin lost', last'[u] # None
        PROVE  StoredOr(store', saves', u, last'[u])
    <2>1. CASE u = t
      <3>1. last'[u] = c
        BY <1>1, <1>2, <2>1
      <3> QED
        BY <1>6, <2>1, <3>1 DEF StoredOr
    <2>2. CASE u # t
      <3>1. u \notin lost /\ last'[u] = last[u] /\ SavesIn(saves', u) = SavesIn(saves, u)
        BY <1>1, <1>5, <1>7, <2>2
      <3>2. StoredOr(store, saves, u, last[u])
        BY <1>2, <1>7, <3>1, StoredMeans
      <3>3. \A k \in SavesIn(saves, u) : saves'[k] = saves[k]
        BY <1>3 DEF SavesIn
      <3>4. LatestIn(saves, u, last[u]) => LatestIn(saves', u, last[u])
        BY <3>1, <3>3 DEF LatestIn
      <3> QED
        BY <1>1, <3>1, <3>2, <3>4 DEF StoredOr
    <2> QED
      BY <2>1, <2>2
  <1>8. AnsweredIsStored'
    BY <1>1, <1>7, StoredMeansNext
  <1>9. StoreInv'
    <2>1. \A u \in Tenant : last'[u] = None => store'[u] = None /\ SavesIn(saves', u) = {}
      BY <1>1, <1>2, <1>5 DEF Inv, StoreInv, SavesOf, SavesIn
    <2> QED
      BY <1>4, <1>8, <2>1 DEF StoreInv, SavesOf, SavesIn
  <1>10. MemoryInv'
    BY <1>1, <1>2 DEF MemoryInv, SameKey
  <1> QED
    BY <1>9, <1>10

\* What happened since the start only makes the claims about a request weaker.
LEMMA OwnFades ==
    ASSUME NEW ls, NEW us, NEW us2, NEW sl, NEW sl2, NEW w,
           us \subseteq us2, sl \subseteq sl2, OwnAt(ls, us, sl, w)
    PROVE  OwnAt(ls, us2, sl2, w)
  BY DEF OwnAt

LEMMA SetConfigKeeps ==
    ASSUME Inv, NEW t \in Tenant, NEW c \in Config, SetConfig(t, c),
           UNCHANGED <<cookie, origin, requests>>
    PROVE  Inv'
  <1>1. StoreInv' /\ MemoryInv'
    BY SetConfigStores
  <1>2. /\ service' = service /\ last' = [last EXCEPT ![t] = c] /\ users' = users \cup {t}
        /\ slips' = IF Loading = {} THEN slips ELSE slips \cup {"overrun"}
        /\ req' = Accepting(t, c)
    BY DEF SetConfig
  <1>3. SessionInv'
    BY <1>2, WorkStays DEF Inv, SessionInv
  <1>4. c # None /\ t # None /\ last \in [Tenant -> Config \cup {None}]
    BY NoneIsNoConfig, ConfigAssumption DEF Inv, StoreInv, ConfigTypes
  <1>5. ASSUME NEW q \in Request
        PROVE  RequestAt(cookie, last', users', slips', req'[q])
    <2>1. CASE req[q] = Idle
      BY <1>2, <2>1 DEF Accepting, RequestAt
    <2>2. CASE req[q] # Idle
      <3> DEFINE w == req[q]
                 v == req'[q]
      <3>1. w \in Work /\ Shape(w) /\ SessionAt(cookie, w) /\ OwnAt(last, users, slips, w)
        BY <2>2 DEF Inv, RequestsInv, RequestAt, Shape
      <3>2. v = IF w.tenant = t THEN [w EXCEPT !.accepts = @ \cup {c}] ELSE w
        BY <1>2, <2>2 DEF Accepting
      <3>3. w.accepts \cup {c} \in SUBSET Config
        BY <3>1 DEF Work
      <3>4. /\ v \in Work /\ v.step = w.step /\ v.left = w.left /\ v.sent = w.sent
            /\ v.kind = w.kind /\ v.tenant = w.tenant /\ v.config = w.config
            /\ w.accepts \subseteq v.accepts /\ v.disturbed = w.disturbed
            /\ (w.tenant = t => c \in v.accepts)
        BY <3>1, <3>2, <3>3 DEF Work
      <3>5. w.step = "fill" => slips' # {}
        BY <1>2 DEF Loading
      <3>6. slips \subseteq slips' /\ users \subseteq users' /\ t \in users'
        BY <1>2
      <3>7. w.tenant \in Tenant \cup {None}
        BY <3>1 DEF Work
      <3> HIDE DEF v, w
      <3>8. Shape(v) /\ SessionAt(cookie, v)
        BY <3>1, <3>4 DEF Shape, SessionAt
      <3>9. OwnAt(last', users', slips', v)
        <4>1. ASSUME v.tenant # None, last'[v.tenant] # None
              PROVE  last'[v.tenant] \in v.accepts
          BY <1>2, <1>4, <3>1, <3>4, <3>7, <4>1 DEF OwnAt
        <4>2. ASSUME v.tenant # None, v.step \in {"used", "login", "fetch", "page"},
                     users' \subseteq {v.tenant}, slips' = {}
              PROVE  \E d \in v.accepts : SameKey(d, v.config)
          BY <3>1, <3>4, <3>6, <4>2 DEF OwnAt
        <4> QED
          BY <3>4, <3>5, <4>1, <4>2 DEF OwnAt
      <3> QED
        BY <3>8, <3>9 DEF RequestAt, v
    <2> QED
      BY <2>1, <2>2
  <1>6. req' \in [Request -> {Idle} \cup Work']
    BY <1>2, <1>5, WorkStays DEF RequestAt, Shape, Accepting
  <1>7. RequestsInv'
    BY <1>2, <1>5, <1>6, WorkStays DEF RequestsInv
  <1> QED
    BY <1>1, <1>3, <1>7 DEF Inv

\* Requests and session are as they were.
LEMMA RequestsUntouched ==
    ASSUME Inv, StoreInv', MemoryInv',
           UNCHANGED <<service, req, last, users, slips, cookie, origin, requests>>
    PROVE  Inv'
  <1>1. SessionInv'
    BY WorkStays DEF Inv, SessionInv
  <1>2. RequestsInv'
    BY WorkStays DEF Inv, RequestsInv
  <1> QED
    BY <1>1, <1>2 DEF Inv

LEMMA LatestIsThere ==
    ASSUME NEW ss, NEW t, NEW c, LatestIn(ss, t, c)
    PROVE  SavesIn(ss, t) # {}
  BY DEF LatestIn

\* The saves of the other tenants are not concerned when one is over.
LEMMA OthersStored ==
    ASSUME Inv, NEW i \in DOMAIN saves, service' = service, last' = last,
           saves' = RemoveAt(saves, i), NEW u \in Tenant, u # saves[i].tenant,
           store'[u] = store[u]
    PROVE  /\ u \notin lost /\ last[u] # None => StoredOr(store', saves', u, last[u])
           /\ last[u] = None => store'[u] = None /\ SavesIn(saves', u) = {}
  <1>1. saves \in Seq(Save) /\ SavesOf(u) = SavesIn(saves, u)
    BY DEF Inv, StoreInv, ConfigTypes, SavesOf, SavesIn
  <1>2. SavesIn(saves', u) = {} <=> SavesIn(saves, u) = {}
    <2>1. i \notin SavesIn(saves, u)
      BY DEF SavesIn
    <2> QED
      BY <1>1, <2>1, OthersStay
  <1>3. ASSUME u \notin lost, last[u] # None
        PROVE  StoredOr(store', saves', u, last[u])
    <2>1. StoredOr(store, saves, u, last[u])
      BY <1>3, StoredMeans DEF Inv, StoreInv
    <2>2. LatestIn(saves, u, last[u]) => LatestIn(saves', u, last[u])
      BY <1>1, OthersStay
    <2> QED
      BY <1>2, <2>1, <2>2 DEF StoredOr
  <1>4. last[u] = None => store'[u] = None /\ SavesIn(saves', u) = {}
    BY <1>1, <1>2 DEF Inv, StoreInv
  <1> QED
    BY <1>3, <1>4

LEMMA SaveLandsKeeps ==
    ASSUME Inv, NEW i \in DOMAIN saves, SaveLands(i), UNCHANGED <<cookie, origin, requests>>
    PROVE  Inv'
  <1> DEFINE t == saves[i].tenant
             c == saves[i].config
  <1>1. /\ store' = [store EXCEPT ![t] = Reloaded[service][c]]
        /\ saves' = RemoveAt(saves, i)
        /\ lost' = IF \E k \in SavesOf(t) : k < i THEN lost \cup {t} ELSE lost
        /\ UNCHANGED <<service, cache, req, sets, starts, last, users, slips>>
    BY DEF SaveLands, Upserted
  <1>2. /\ t \in Tenant /\ c \in Config /\ ConfigTypes /\ saves \in Seq(Save)
        /\ service \in Service /\ store \in [Tenant -> Config \cup {None}]
    BY SavesAreSaves DEF Inv, StoreInv, ConfigTypes
  <1>3. /\ Reloaded[service][c] \in Config
        /\ Reloaded[service][Reloaded[service][c]] = Reloaded[service][c]
    BY <1>2, ServiceFacts
  <1> HIDE DEF t, c
  <1>4. /\ i \in SavesIn(saves, t) /\ SavesIn(saves, t) = SavesOf(t) /\ last[t] # None
    BY <1>2 DEF SavesIn, SavesOf, Inv, StoreInv, t
  <1>5. ConfigTypes'
    <2>1. saves' \in Seq(Save)
      BY <1>1, <1>2, OneRemoved
    <2>2. /\ store' \in [Tenant -> Config \cup {None}]
          /\ \A u \in Tenant : store'[u] # None => store'[u] = Reloaded[service][store'[u]]
      BY <1>1, <1>2, <1>3 DEF ConfigTypes
    <2>3. lost' \subseteq Tenant
      BY <1>1, <1>2 DEF ConfigTypes
    <2> QED
      BY <1>1, <1>2, <2>1, <2>2, <2>3, WorkStays DEF ConfigTypes
  <1>6. ASSUME t \notin lost'
        PROVE  StoredOr(store', saves', t, last[t])
    <2>1. t \notin lost /\ \A k \in SavesIn(saves, t) : ~(k < i)
      BY <1>1, <1>4, <1>6
    <2>2. LatestIn(saves, t, last[t])
      BY <1>2, <1>4, <2>1, StoredMeans DEF Inv, StoreInv, StoredOr
    <2>3. CASE SavesIn(saves, t) \subseteq {i}
      <3>1. SavesIn(saves', t) = {}
        BY <1>1, <1>2, <2>3, OthersStay
      <3>2. last[t] = c
        BY <2>2, <2>3 DEF LatestIn, c
      <3> QED
        BY <1>1, <1>2, <3>1, <3>2 DEF StoredOr
    <2>4. CASE ~(SavesIn(saves, t) \subseteq {i})
      <3>1. \A k \in DOMAIN saves : k \in Int
        BY <1>2
      <3>2. \E j \in SavesIn(saves, t) : j > i
        BY <2>1, <2>4, <3>1 DEF SavesIn
      <3>3. LatestIn(saves', t, last[t])
        BY <1>1, <1>2, <2>2, <3>2, OthersStay
      <3> QED
        BY <3>3, LatestIsThere DEF StoredOr
    <2> QED
      BY <2>3, <2>4
  <1>7. \A u \in Tenant : u # t =>
          /\ u \notin lost /\ last[u] # None => StoredOr(store', saves', u, last[u])
          /\ last[u] = None => store'[u] = None /\ SavesIn(saves', u) = {}
    BY <1>1, <1>2, OthersStored DEF t
  <1>8. lost \subseteq lost'
    BY <1>1
  <1>9. AnsweredIsStored'
    BY <1>1, <1>6, <1>7, <1>8, StoredMeansNext
  <1>10. StoreInv'
    <2>1. \A u \in Tenant : last'[u] = None => store'[u] = None /\ SavesIn(saves', u) = {}
      BY <1>1, <1>4, <1>7
    <2> QED
      BY <1>5, <1>9, <2>1 DEF StoreInv, SavesOf, SavesIn
  <1>11. MemoryInv'
    BY <1>1 DEF Inv, MemoryInv, SameKey
  <1> QED
    BY <1>1, <1>10, <1>11, RequestsUntouched

LEMMA SaveFailsKeeps ==
    ASSUME Inv, NEW i \in DOMAIN saves, SaveFails(i), UNCHANGED <<cookie, origin, requests>>
    PROVE  Inv'
  <1> DEFINE t == saves[i].tenant
  <1>1. /\ saves' = RemoveAt(saves, i) /\ lost' = lost \cup {t}
        /\ UNCHANGED <<service, cache, store, req, sets, starts, last, users, slips>>
    BY DEF SaveFails
  <1>2. t \in Tenant /\ ConfigTypes /\ saves \in Seq(Save)
    BY SavesAreSaves DEF Inv, StoreInv, ConfigTypes
  <1> HIDE DEF t
  <1>3. last[t] # None
    BY <1>2 DEF SavesOf, Inv, StoreInv, t
  <1>4. ConfigTypes'
    <2>1. saves' \in Seq(Save)
      BY <1>1, <1>2, OneRemoved
    <2> QED
      BY <1>1, <1>2, <2>1, WorkStays DEF ConfigTypes
  <1>5. \A u \in Tenant : u # t =>
          /\ u \notin lost /\ last[u] # None => StoredOr(store', saves', u, last[u])
          /\ last[u] = None => store'[u] = None /\ SavesIn(saves', u) = {}
    BY <1>1, OthersStored DEF t
  <1>6. AnsweredIsStored'
    BY <1>1, <1>5, StoredMeansNext
  <1>7. StoreInv'
    <2>1. \A u \in Tenant : last'[u] = None => store'[u] = None /\ SavesIn(saves', u) = {}
      BY <1>1, <1>3, <1>5
    <2> QED
      BY <1>4, <1>6, <2>1 DEF StoreInv, SavesOf, SavesIn
  <1>8. MemoryInv'
    BY <1>1 DEF Inv, MemoryInv, SameKey
  <1> QED
    BY <1>1, <1>7, <1>8, RequestsUntouched

\* A request goes on while the memory may change.
LEMMA OneGoesOn ==
    ASSUME Inv, StoreInv', MemoryInv', NEW r \in Request, NEW w,
           RequestAt(cookie, last, users', slips', w), Become(r, w),
           users \subseteq users', slips \subseteq slips',
           UNCHANGED <<service, last, cookie, origin, requests>>
    PROVE  Inv'
  <1>1. SessionInv'
    BY WorkStays DEF Inv, SessionInv
  <1>2. req' = [req EXCEPT ![r] = w] /\ w \in {Idle} \cup Work
    BY DEF Become, RequestAt, Shape
  <1>3. req' \in [Request -> {Idle} \cup Work']
    BY <1>2, WorkStays DEF Inv, RequestsInv
  <1>4. ASSUME NEW q \in Request
        PROVE  RequestAt(cookie, last, users', slips', req'[q])
    <2>1. CASE q = r
      BY <1>2, <2>1 DEF Inv, RequestsInv
    <2>2. CASE q # r
      <3>1. req'[q] = req[q] /\ RequestAt(cookie, last, users, slips, req[q])
        BY <1>2, <2>2 DEF Inv, RequestsInv
      <3> QED
        BY <3>1, OwnFades DEF RequestAt
    <2> QED
      BY <2>1, <2>2
  <1>5. RequestsInv'
    BY <1>3, <1>4, WorkStays DEF RequestsInv
  <1> QED
    BY <1>1, <1>5 DEF Inv

LEMMA LoadKeeps ==
    ASSUME Inv, NEW r \in Request, Load(r), UNCHANGED <<cookie, origin, requests>>
    PROVE  Inv'
  <1> DEFINE work == req[r]
             t == work.tenant
             w == [work EXCEPT !.step = "fill", !.config = store[t]]
  <1>1. /\ work.step = "load" /\ Become(r, w)
        /\ slips' = IF UpToDate(t) THEN slips ELSE slips \cup {"behind"}
        /\ UNCHANGED <<service, cache, store, saves, sets, starts, last, lost, users>>
    BY DEF Load
  <1>2. /\ work \in Work /\ Shape(work) /\ OwnAt(last, users, slips, work)
        /\ t \in Tenant /\ ~work.disturbed /\ work.left = 0 /\ StoreInv
    BY <1>1, AtWork DEF Inv, Shape, Work
  <1>3. store[t] \in Config \cup {None}
    BY <1>2 DEF StoreInv, ConfigTypes
  <1>4. /\ w \in Work /\ w.step = "fill" /\ w.config = store[t] /\ w.left = work.left
        /\ w.kind = work.kind /\ w.tenant = t /\ w.accepts = work.accepts
        /\ w.disturbed = work.disturbed
    BY <1>2, <1>3 DEF Work
  <1> HIDE DEF w, work
  <1>5. Shape(w) /\ SessionAt(cookie, w)
    BY <1>1, <1>2, <1>4 DEF Shape, SessionAt
  <1>6. ASSUME store[t] # None, slips' = {}
        PROVE  last[t] # None /\ SameKey(store[t], last[t])
    BY <1>1, <1>2, <1>6 DEF UpToDate, StoreInv
  <1>7. OwnAt(last, users', slips', w)
    BY <1>1, <1>2, <1>4, <1>6 DEF OwnAt
  <1>8. StoreInv'
    <2>1. ConfigTypes'
      BY <1>1, <1>2, WorkStays DEF StoreInv, ConfigTypes
    <2>2. AnsweredIsStored'
      BY <1>1, <1>2 DEF StoreInv, AnsweredIsStored, SavesOf
    <2> QED
      BY <1>1, <1>2, <2>1, <2>2 DEF StoreInv, SavesOf
  <1>9. MemoryInv'
    BY <1>1 DEF Inv, MemoryInv, SameKey
  <1>10. users \subseteq users' /\ slips \subseteq slips'
    BY <1>1
  <1> QED
    BY <1>1, <1>5, <1>7, <1>8, <1>9, <1>10, OneGoesOn DEF RequestAt

LEMMA FillKeeps ==
    ASSUME Inv, NEW r \in Request, Fill(r), UNCHANGED <<cookie, origin, requests>>
    PROVE  Inv'
  <1> DEFINE work == req[r]
             t == work.tenant
             w == [work EXCEPT !.step = "resume", !.config = None]
  <1>1. /\ work.step = "fill" /\ Become(r, w) /\ cache' = work.config
        /\ users' = users \cup {t}
        /\ UNCHANGED <<service, store, saves, sets, starts, last, lost, slips>>
    BY DEF Fill
  <1>2. /\ work \in Work /\ Shape(work) /\ OwnAt(last, users, slips, work)
        /\ t \in Tenant /\ t # None /\ ~work.disturbed /\ work.left = 0 /\ StoreInv
        /\ work.config \in Config \cup {None}
    BY <1>1, AtWork DEF Inv, Shape, Work
  <1>3. /\ w \in Work /\ w.step = "resume" /\ w.left = work.left
        /\ w.kind = work.kind /\ w.tenant = t /\ w.accepts = work.accepts
        /\ w.disturbed = work.disturbed
    BY <1>2 DEF Work
  <1> HIDE DEF w, work
  <1>4. Shape(w) /\ SessionAt(cookie, w) /\ OwnAt(last, users', slips', w)
    BY <1>1, <1>2, <1>3 DEF Shape, SessionAt, OwnAt
  <1>5. StoreInv'
    <2>1. ConfigTypes'
      BY <1>1, <1>2, WorkStays DEF StoreInv, ConfigTypes
    <2>2. AnsweredIsStored'
      BY <1>1, <1>2 DEF StoreInv, AnsweredIsStored, SavesOf
    <2> QED
      BY <1>1, <1>2, <2>1, <2>2 DEF StoreInv, SavesOf
  <1>6. MemoryInv'
    <2>1. ASSUME NEW u \in Tenant, users' \subseteq {u}, slips' = {}, cache' # None
          PROVE  last[u] # None /\ SameKey(cache', last[u])
      <3>1. u = t
        BY <1>1, <2>1
      <3> QED
        BY <1>1, <1>2, <2>1, <3>1 DEF OwnAt
    <2> QED
      BY <1>1, <2>1 DEF MemoryInv, SameKey
  <1>7. users \subseteq users' /\ slips \subseteq slips'
    BY <1>1
  <1> QED
    BY <1>1, <1>4, <1>5, <1>6, <1>7, OneGoesOn DEF RequestAt

LEMMA RestartKeeps == ASSUME Inv, Restart PROVE Inv'
  <1>1. /\ starts < MaxStarts /\ starts' = starts + 1 /\ cache' = None /\ saves' = << >>
        /\ lost' = lost \cup {t \in Tenant : SavesOf(t) # {}}
        /\ users' = {} /\ slips' = {} /\ req' = [r \in Request |-> Idle]
        /\ cookie' = None /\ origin' = FALSE /\ requests' = requests
        /\ UNCHANGED <<service, store, sets, last>>
    BY DEF Restart, RestartConfig
  <1>2. StoreInv
    BY DEF Inv
  <1>3. saves' \in Seq(Save) /\ \A t \in Tenant : SavesIn(saves', t) = {}
    BY <1>1 DEF SavesIn
  <1>4. ConfigTypes'
    <2>1. starts' \in 0 .. MaxStarts
      BY <1>1, <1>2, ConfigAssumption DEF StoreInv, ConfigTypes
    <2>2. lost' \subseteq Tenant
      BY <1>1, <1>2 DEF StoreInv, ConfigTypes
    <2> QED
      BY <1>1, <1>2, <1>3, <2>1, <2>2, WorkStays DEF StoreInv, ConfigTypes
  <1>5. ASSUME NEW t \in Tenant, t \notin lost', last'[t] # None
        PROVE  StoredOr(store', saves', t, last'[t])
    <2>1. t \notin lost /\ SavesOf(t) = {}
      BY <1>1, <1>5
    <2> QED
      BY <1>1, <1>2, <1>3, <1>5, <2>1 DEF StoreInv, AnsweredIsStored, StoredOr
  <1>6. AnsweredIsStored'
    BY <1>1, <1>5, StoredMeansNext
  <1>7. StoreInv'
    BY <1>1, <1>2, <1>3, <1>4, <1>6 DEF StoreInv, SavesOf, SavesIn
  <1>8. MemoryInv'
    BY <1>1 DEF MemoryInv
  <1>9. SessionInv'
    BY <1>1, WorkStays DEF Inv, SessionInv
  <1>10. RequestsInv'
    BY <1>1 DEF RequestsInv, RequestAt
  <1> QED
    BY <1>7, <1>8, <1>9, <1>10 DEF Inv

-----------------------------------------------------------------------------
(***************************************************************************)
(* The invariant, and what follows from it.                                *)
(***************************************************************************)
LEMMA NextKeeps == Inv /\ [Next]_vars => Inv'
  <1> SUFFICES ASSUME Inv, [Next]_vars PROVE Inv'
    OBVIOUS
  <1>1. CASE Configure
    <2>1. CASE \E t \in Tenant, c \in Config : SetConfig(t, c)
      BY <1>1, <2>1, SetConfigKeeps DEF Configure
    <2>2. CASE \E i \in DOMAIN saves : SaveLands(i) \/ SaveFails(i)
      BY <1>1, <2>2, SaveLandsKeeps, SaveFailsKeeps DEF Configure
    <2>3. CASE \E r \in Request : Load(r) \/ Fill(r)
      BY <1>1, <2>3, LoadKeeps, FillKeeps DEF Configure
    <2> QED
      BY <1>1, <2>1, <2>2, <2>3 DEF Configure
  <1>2. ASSUME NEW r \in Request,
               \/ \E t \in Tenant, kind \in {"use", "import"} : Begin(r, t, kind)
               \/ \E c \in Config, kind \in {"import", "login"} : BeginWith(r, kind, c)
               \/ BeginFetch(r)
        PROVE  Inv'
    BY <1>2, BeginKeeps, BeginWithKeeps, BeginFetchKeeps
  <1>3. ASSUME NEW r \in Request,
               Resume(r) \/ LoginOk(r) \/ FetchPages(r) \/ PageOk(r) \/ End(r)
        PROVE  Inv'
    BY <1>3, ResumeKeeps, LoginOkKeeps, FetchPagesKeeps, PageOkKeeps, EndKeeps
  <1>4. CASE ClearCookie \/ Restart
    BY <1>4, ClearCookieKeeps, RestartKeeps
  <1>5. CASE UNCHANGED vars
    <2>1. UNCHANGED <<service, req, configVars, starts, cookie, origin, requests,
                      last, users, slips>>
      BY <1>5 DEF vars, configVars
    <2>2. StoreInv' /\ MemoryInv'
      BY <2>1, ConfigUntouched DEF Inv
    <2> QED
      BY <2>1, <2>2, RequestsUntouched
  <1> QED
    BY <1>1, <1>2, <1>3, <1>4, <1>5 DEF Next

THEOREM Invariant == Spec => []Inv
  <1>1. Init => Inv
    BY Initially
  <1>2. Inv /\ [Next]_vars => Inv'
    BY NextKeeps
  <1> QED
    BY <1>1, <1>2, PTL DEF Spec

\* Types are kept.
THEOREM TypeCorrect == Spec => []TypeOK
  BY Invariant, InvTypes, PTL

\* An answered setConfig is in the store of its tenant or on its way there, unless
\* a save of the tenant failed, died with the process or was overtaken.
THEOREM AnsweredAlwaysStored == Spec => []AnsweredIsStored
  <1>1. Inv => AnsweredIsStored
    BY DEF Inv, StoreInv
  <1> QED
    BY <1>1, Invariant, PTL

\* Whoever asked for the configuration of its tenant goes on with one that the
\* tenant had last meanwhile, as long as no other tenant wrote the memory and no
\* load was overtaken or read a store that was behind.
THEOREM OwnLatestAlwaysUsed == Spec => []UsesOwnLatest
  <1>1. Inv => UsesOwnLatest
    BY DEF Inv, RequestsInv, RequestAt, OwnAt, UsesOwnLatest
  <1> QED
    BY <1>1, Invariant, PTL

\* An import reads the pages of the account it logged in with, unless another
\* login was answered while it was fetching.
THEOREM PagesAlwaysOfOwnAccount == Spec => []PagesOfOwnAccount
  <1>1. Inv => PagesOfOwnAccount
    <2> SUFFICES ASSUME Inv, NEW r \in Request, req[r].step = "page",
                        req[r].kind = "import", ~req[r].disturbed
                 PROVE  req[r].sent = req[r].config
      BY DEF PagesOfOwnAccount
    <2> QED
      BY AtWork DEF SessionAt
  <1> QED
    BY <1>1, Invariant, PTL

\* No page is asked for without a session, whatever becomes of it between two pages.
THEOREM NeverPageWithoutSession == Spec => []NoPageWithoutSession
  <1>1. Inv => NoPageWithoutSession
    <2> SUFFICES ASSUME Inv, NEW r \in Request, req[r].step = "page"
                 PROVE  req[r].sent # None
      BY DEF NoPageWithoutSession
    <2> QED
      BY AtWork DEF SessionAt
  <1> QED
    BY <1>1, Invariant, PTL
=============================================================================
