--------------------------- MODULE AccountsProofs ---------------------------
(***************************************************************************)
(* Proofs about LoginRateLimit and Accounts, for any addresses, emails,     *)
(* tenants, window and number of logins at once.                           *)
(***************************************************************************)
EXTENDS Accounts, TLAPS

-----------------------------------------------------------------------------
(***************************************************************************)
(* The rate limit.  A bucket is live if an attempt may still be counted in  *)
(* it.  Whoever was refused was refused by a bucket that ends by the time   *)
(* it was told, so a bucket that is live after that was made later.        *)
(***************************************************************************)
BucketsAt(t, bs) ==
    /\ DOMAIN bs \subseteq Key
    /\ \A key \in DOMAIN bs : bs[key] \in Bucket /\ bs[key].resetAt <= t + Window

\* What attempts at t make of the buckets: those that are live stay, with their ends.
Since(t, bs, cs) ==
    /\ {k \in DOMAIN bs : bs[k].resetAt > t} \subseteq DOMAIN cs
    /\ \A k \in DOMAIN cs :
         /\ cs[k].resetAt > t
         /\ IF k \in DOMAIN bs /\ bs[k].resetAt > t
            THEN cs[k].resetAt = bs[k].resetAt
            ELSE cs[k].resetAt = t + Window

ToldBy(t, bs, key, word) ==
    /\ word.at <= t
    /\ word.until # 0 =>
         IF key \in DOMAIN bs
         THEN /\ word.at < bs[key].resetAt
              /\ bs[key].resetAt <= word.until \/ word.at + Window < bs[key].resetAt
         ELSE word.at < t

LimitInv ==
    /\ RateLimitTypes
    /\ \A key \in Key : ToldBy(now, buckets, key, told[key])

\* Seconds rounded up are no less than the time they stand for.
LEMMA RoundedUp ==
    ASSUME NEW n \in Nat
    PROVE  /\ (n + Second - 1) \div Second \in Nat
           /\ Second * ((n + Second - 1) \div Second) \in Nat
           /\ n <= Second * ((n + Second - 1) \div Second)
  <1>1. Second \in Nat /\ Second > 0
    BY RateLimitAssumption
  <1> QED
    BY <1>1

\* What an attempt does to the buckets it does not count in, and to its own.
LEMMA HitBuckets ==
    ASSUME NEW t \in Nat, t = now, NEW bs, BucketsAt(t, bs), NEW key \in Key
    PROVE  /\ BucketsAt(t, Hit(bs, key))
           /\ key \in DOMAIN Hit(bs, key)
           /\ Since(t, bs, Hit(bs, key))
  <1> DEFINE live == Restrict(bs, {k \in DOMAIN bs : ~Expired(bs[k])})
             mine == IF key \in DOMAIN live THEN Counted(live[key])
                     ELSE [count |-> 1, resetAt |-> now + Window]
  <1>1. /\ Window \in Nat /\ Window > 0
        /\ MaxAttempts \in Nat /\ MaxAttempts > 0
    BY RateLimitAssumption
  <1>2. /\ DOMAIN live = {k \in DOMAIN bs : bs[k].resetAt > t}
        /\ \A k \in DOMAIN live : live[k] = bs[k]
    BY DEF Restrict, Expired, BucketsAt, Bucket
  <1>3. Hit(bs, key) = [k \in DOMAIN live \cup {key} |-> IF k = key THEN mine ELSE live[k]]
    BY DEF Hit
  <1>4. /\ mine \in Bucket /\ mine.resetAt > t /\ mine.resetAt <= t + Window
        /\ mine.resetAt = IF key \in DOMAIN live THEN bs[key].resetAt ELSE t + Window
    <2>1. CASE key \in DOMAIN live
      <3>1. bs[key] \in Bucket /\ bs[key].resetAt > t /\ bs[key].resetAt <= t + Window
        BY <1>2, <2>1 DEF BucketsAt
      <3>2. mine = [bs[key] EXCEPT !.count = IF @ <= MaxAttempts THEN @ + 1 ELSE @]
        BY <1>2, <2>1 DEF Counted
      <3> QED
        BY <1>1, <2>1, <3>1, <3>2 DEF Bucket
    <2>2. CASE key \notin DOMAIN live
      <3>1. mine = [count |-> 1, resetAt |-> t + Window]
        BY <2>2
      <3> HIDE DEF live
      <3> QED
        BY <1>1, <2>2, <3>1 DEF Bucket
    <2> QED
      BY <2>1, <2>2
  <1> HIDE DEF live, mine
  <1>5. /\ DOMAIN Hit(bs, key) = DOMAIN live \cup {key}
        /\ \A k \in DOMAIN Hit(bs, key) : Hit(bs, key)[k] = IF k = key THEN mine ELSE bs[k]
    BY <1>2, <1>3
  <1> QED
    BY <1>1, <1>2, <1>4, <1>5 DEF BucketsAt, Since

LEMMA SinceTwice ==
    ASSUME NEW t \in Nat, NEW bs, NEW cs, NEW ds, Since(t, bs, cs), Since(t, cs, ds)
    PROVE  Since(t, bs, ds)
  BY DEF Since

LEMMA GuardedBuckets ==
    ASSUME NEW t \in Nat, t = now, BucketsAt(t, buckets),
           NEW ip \in Ip, NEW email \in Email \cup {None}
    PROVE  /\ BucketsAt(t, Guarded(ip, email).buckets)
           /\ Since(t, buckets, Guarded(ip, email).buckets)
           /\ Guarded(ip, email).refused \subseteq DOMAIN Guarded(ip, email).buckets
  <1> DEFINE address == [ip |-> ip, email |-> None]
             both    == [ip |-> ip, email |-> email]
             first   == Hit(buckets, address)
             second  == IF email # None /\ Allowed(first, address) THEN Hit(first, both)
                        ELSE first
  <1>1. address \in Key /\ both \in Key
    BY DEF Key
  <1>2. BucketsAt(t, first) /\ address \in DOMAIN first /\ Since(t, buckets, first)
    BY <1>1, HitBuckets
  <1>3. email = None => both = address
    OBVIOUS
  <1> DEFINE tried == IF Allowed(first, address) THEN {address, both} ELSE {address}
  <1>4. /\ Guarded(ip, email).buckets = second
        /\ Guarded(ip, email).refused \subseteq tried
    BY DEF Guarded
  <1> HIDE DEF address, both, first
  <1>5. BucketsAt(t, second) /\ Since(t, buckets, second) /\ tried \subseteq DOMAIN second
    <2>1. CASE email # None /\ Allowed(first, address)
      <3>1. /\ BucketsAt(t, Hit(first, both)) /\ both \in DOMAIN Hit(first, both)
            /\ Since(t, first, Hit(first, both))
        BY <1>1, <1>2, HitBuckets
      <3>2. address \in DOMAIN Hit(first, both)
        BY <1>2, <3>1 DEF Since
      <3> QED
        BY <1>2, <2>1, <3>1, <3>2, SinceTwice
    <2>2. CASE ~(email # None /\ Allowed(first, address))
      BY <1>2, <1>3, <2>2
    <2> QED
      BY <2>1, <2>2
  <1> QED
    BY <1>4, <1>5

LEMMA LimitInitially == RateLimitInit => LimitInv
  <1> SUFFICES ASSUME RateLimitInit PROVE LimitInv
    OBVIOUS
  <1>1. now = 0 /\ MaxTime \in Nat /\ DOMAIN buckets = {}
    BY RateLimitAssumption DEF RateLimitInit
  <1> QED
    BY <1>1 DEF RateLimitInit, LimitInv, RateLimitTypes, ToldBy

LEMMA AttemptKeepsLimit ==
    ASSUME LimitInv, NEW ip \in Ip, NEW email \in Email \cup {None},
           Counting(Guarded(ip, email))
    PROVE  LimitInv'
  <1> DEFINE g == Guarded(ip, email)
             until(key) == now + Second * RetryAfter(g.buckets[key])
  <1>1. /\ now \in Nat /\ now \in 0 .. MaxTime /\ now' = now /\ MaxTime \in Nat
        /\ Window \in Nat /\ Window > 0
        /\ BucketsAt(now, buckets)
    BY RateLimitAssumption DEF LimitInv, RateLimitTypes, BucketsAt, Counting
  <1>2. BucketsAt(now, g.buckets) /\ Since(now, buckets, g.buckets)
        /\ g.refused \subseteq DOMAIN g.buckets
    BY <1>1, GuardedBuckets
  <1>3. /\ buckets' = g.buckets
        /\ recent' = [key \in Key |-> IF key \in g.passed THEN [a \in Age |-> recent[key][a] + 1]
                                      ELSE recent[key]]
        /\ told' = [key \in Key |-> IF key \in g.refused THEN [at |-> now, until |-> until(key)]
                                    ELSE told[key]]
    BY DEF Counting
  <1> HIDE DEF g
  <1>4. ASSUME NEW key \in DOMAIN g.buckets
        PROVE  until(key) \in Nat /\ g.buckets[key].resetAt <= until(key)
    <2> DEFINE left == g.buckets[key].resetAt - now
    <2>1. left \in Nat /\ g.buckets[key].resetAt \in Nat
      BY <1>1, <1>2 DEF BucketsAt, Since, Bucket
    <2>2. RetryAfter(g.buckets[key]) = (left + Second - 1) \div Second
      BY DEF RetryAfter
    <2>3. Second * RetryAfter(g.buckets[key]) \in Nat
          /\ left <= Second * RetryAfter(g.buckets[key])
      BY <2>1, <2>2, RoundedUp
    <2> QED
      BY <1>1, <2>1, <2>3
  <1>5. recent' \in [Key -> [Age -> Nat]]
    BY <1>1, <1>3 DEF LimitInv, RateLimitTypes, Age
  <1>6. told' \in [Key -> [at : 0 .. MaxTime, until : Nat]]
    BY <1>1, <1>2, <1>3, <1>4 DEF LimitInv, RateLimitTypes
  <1>7. ASSUME NEW key \in Key
        PROVE  ToldBy(now, g.buckets, key, told'[key])
    <2>1. CASE key \in g.refused
      <3>1. told'[key] = [at |-> now, until |-> until(key)] /\ key \in DOMAIN g.buckets
        BY <1>2, <1>3, <2>1
      <3>2. now < g.buckets[key].resetAt
        BY <1>2, <3>1 DEF Since
      <3> QED
        BY <1>1, <1>4, <3>1, <3>2 DEF ToldBy
    <2>2. CASE key \notin g.refused
      <3>1. told'[key] = told[key] /\ ToldBy(now, buckets, key, told[key])
            /\ told[key].at \in Nat /\ told[key].until \in Nat
        BY <1>1, <1>3, <2>2 DEF LimitInv, RateLimitTypes
      <3>2. CASE key \in DOMAIN g.buckets /\ key \in DOMAIN buckets /\ buckets[key].resetAt > now
        BY <1>1, <1>2, <3>1, <3>2 DEF ToldBy, Since
      <3>3. CASE key \in DOMAIN g.buckets /\ ~(key \in DOMAIN buckets /\ buckets[key].resetAt > now)
        <4>1. g.buckets[key].resetAt = now + Window
          BY <1>2, <3>3 DEF Since
        <4>2. told[key].until # 0 => told[key].at < now
          <5>1. key \in DOMAIN buckets => buckets[key].resetAt \in Nat
            BY <1>1 DEF BucketsAt, Bucket
          <5> QED
            BY <1>1, <3>1, <3>3, <5>1 DEF ToldBy
        <4> QED
          BY <1>1, <3>1, <3>3, <4>1, <4>2 DEF ToldBy
      <3>4. CASE key \notin DOMAIN g.buckets
        <4>1. key \in DOMAIN buckets => buckets[key].resetAt \in Nat /\ buckets[key].resetAt <= now
          BY <1>1, <1>2, <3>4 DEF Since, BucketsAt, Bucket
        <4> QED
          BY <1>1, <3>1, <3>4, <4>1 DEF ToldBy
      <3> QED
        BY <3>2, <3>3, <3>4
    <2> QED
      BY <2>1, <2>2
  <1> QED
    BY <1>1, <1>2, <1>3, <1>5, <1>6, <1>7 DEF LimitInv, RateLimitTypes, BucketsAt

LEMMA TickKeepsLimit ==
    ASSUME LimitInv, Tick
    PROVE  LimitInv'
  <1>1. /\ now \in Nat /\ MaxTime \in Nat /\ now < MaxTime
        /\ now' = now + 1 /\ buckets' = buckets /\ told' = told
        /\ Window \in Nat /\ Window > 0
    BY RateLimitAssumption DEF LimitInv, RateLimitTypes, Tick
  <1>2. recent' \in [Key -> [Age -> Nat]]
    BY <1>1 DEF LimitInv, RateLimitTypes, Tick, Age
  <1>3. \A key \in DOMAIN buckets : buckets[key].resetAt \in Nat
    BY DEF LimitInv, RateLimitTypes, Bucket
  <1>4. \A key \in Key : told[key].at \in Nat /\ told[key].until \in Nat
    BY <1>1 DEF LimitInv, RateLimitTypes
  <1> QED
    BY <1>1, <1>2, <1>3, <1>4 DEF LimitInv, RateLimitTypes, ToldBy

LEMMA CrashKeepsLimit ==
    ASSUME LimitInv, Crash
    PROVE  LimitInv'
  <1>1. /\ now \in 0 .. MaxTime /\ MaxTime \in Nat /\ now' = now
        /\ DOMAIN buckets' = {}
    BY RateLimitAssumption DEF LimitInv, RateLimitTypes, Crash
  <1> QED
    BY <1>1 DEF LimitInv, RateLimitTypes, Crash, ToldBy

LEMMA LimitUntouched ==
    ASSUME LimitInv, UNCHANGED <<now, limitVars>>
    PROVE  LimitInv'
  BY DEF LimitInv, RateLimitTypes, ToldBy, limitVars

LEMMA RetryAfterEnough == LimitInv => RetryAfterIsEnough
  <1> SUFFICES ASSUME LimitInv, NEW key \in Key, Full(key),
                      told[key].until # 0, told[key].until <= now
               PROVE  buckets[key].resetAt > told[key].at + Window
    BY DEF RetryAfterIsEnough
  <1>1. /\ now \in Nat /\ told[key].at \in Nat /\ told[key].until \in Nat /\ Window \in Nat
        /\ key \in DOMAIN buckets /\ buckets[key].resetAt \in Nat
        /\ ~(buckets[key].resetAt <= now)
    BY RateLimitAssumption DEF LimitInv, RateLimitTypes, Full, Expired, Bucket
  <1> QED
    BY <1>1 DEF LimitInv, ToldBy

-----------------------------------------------------------------------------
(***************************************************************************)
(* How much a key is let through.  A bucket that is not over has let        *)
(* through as many as it counted, up to its limit, since it was made, the   *)
(* first of them at once; what is left in the window of the bucket before   *)
(* it is without its first, which is older than a window.                   *)
(***************************************************************************)
Live(t, bs, key) == key \in DOMAIN bs /\ bs[key].resetAt > t
Passed(bucket) == IF bucket.count <= MaxAttempts THEN bucket.count ELSE MaxAttempts
OneMore(log) == [a \in Age |-> log[a] + 1]

BurstOn(t, bs, key, log) ==
    /\ \A a \in Age : a + 1 \in Age => log[a] <= log[a + 1]
    /\ IF Live(t, bs, key)
       THEN LET age == t + Window - bs[key].resetAt IN
            /\ log[age] = Passed(bs[key])
            /\ age > 0 => log[age - 1] < log[age]
            /\ log[Window - 1] < log[age] + MaxAttempts
       ELSE log[0] = 0 /\ log[Window - 1] < MaxAttempts

BurstInv == \A key \in Key : BurstOn(now, buckets, key, recent[key])

\* What an attempt counts, in its own bucket and in no other.
LEMMA HitCounts ==
    ASSUME NEW t \in Nat, t = now, NEW bs, BucketsAt(t, bs), NEW key \in Key
    PROVE  /\ \A k \in Key \ {key} :
                /\ Live(t, Hit(bs, key), k) <=> Live(t, bs, k)
                /\ Live(t, bs, k) => Hit(bs, key)[k] = bs[k]
           /\ Live(t, Hit(bs, key), key)
           /\ IF Live(t, bs, key)
              THEN /\ Hit(bs, key)[key].resetAt = bs[key].resetAt
                   /\ Hit(bs, key)[key].count = IF bs[key].count <= MaxAttempts
                                                THEN bs[key].count + 1 ELSE bs[key].count
              ELSE Hit(bs, key)[key] = [count |-> 1, resetAt |-> t + Window]
  <1> DEFINE live == Restrict(bs, {k \in DOMAIN bs : ~Expired(bs[k])})
             mine == IF key \in DOMAIN live THEN Counted(live[key])
                     ELSE [count |-> 1, resetAt |-> now + Window]
  <1>1. Window \in Nat /\ Window > 0
    BY RateLimitAssumption
  <1>2. /\ \A k : k \in DOMAIN live <=> Live(t, bs, k)
        /\ \A k \in DOMAIN live : live[k] = bs[k]
    BY DEF Restrict, Expired, BucketsAt, Bucket, Live
  <1>3. Hit(bs, key) = [k \in DOMAIN live \cup {key} |-> IF k = key THEN mine ELSE live[k]]
    BY DEF Hit
  <1>4. CASE Live(t, bs, key)
    <2>1. bs[key] \in Bucket
      BY <1>4 DEF BucketsAt, Live
    <2>2. mine = [bs[key] EXCEPT !.count = IF @ <= MaxAttempts THEN @ + 1 ELSE @]
      BY <1>2, <1>4 DEF Counted
    <2>3. /\ mine.resetAt = bs[key].resetAt
          /\ mine.count = IF bs[key].count <= MaxAttempts THEN bs[key].count + 1
                          ELSE bs[key].count
      BY <2>1, <2>2 DEF Bucket
    <2> HIDE DEF mine, live
    <2> QED
      BY <1>2, <1>3, <1>4, <2>3 DEF Live
  <1>5. CASE ~ Live(t, bs, key)
    <2>1. mine = [count |-> 1, resetAt |-> t + Window]
      BY <1>2, <1>5
    <2> HIDE DEF mine, live
    <2> QED
      BY <1>1, <1>2, <1>3, <1>5, <2>1 DEF Live
  <1> QED
    BY <1>4, <1>5

LEMMA BurstSame ==
    ASSUME NEW t, NEW bs, NEW cs, NEW key, NEW log, BurstOn(t, bs, key, log),
           Live(t, cs, key) <=> Live(t, bs, key), Live(t, bs, key) => cs[key] = bs[key]
    PROVE  BurstOn(t, cs, key, log)
  BY DEF BurstOn

LEMMA AgeIsAge ==
    ASSUME NEW t \in Nat, NEW bs, BucketsAt(t, bs), NEW key, Live(t, bs, key)
    PROVE  /\ t + Window - bs[key].resetAt \in Age
           /\ bs[key].resetAt \in Nat /\ bs[key].count \in 1 .. MaxAttempts + 1
           /\ Passed(bs[key]) \in 1 .. MaxAttempts
  <1>1. Window \in Nat /\ Window > 0 /\ MaxAttempts \in Nat /\ MaxAttempts > 0
    BY RateLimitAssumption
  <1>2. bs[key] \in Bucket /\ bs[key].resetAt <= t + Window /\ bs[key].resetAt > t
    BY DEF BucketsAt, Live
  <1>3. bs[key].resetAt \in Nat /\ bs[key].count \in 1 .. MaxAttempts + 1
    BY <1>2 DEF Bucket
  <1>4. Passed(bs[key]) \in 1 .. MaxAttempts
    BY <1>1, <1>3 DEF Passed
  <1>5. t + Window - bs[key].resetAt \in Age
    BY <1>1, <1>2, <1>3 DEF Age
  <1> QED
    BY <1>3, <1>4, <1>5

\* An attempt is let through if its bucket has not counted too many yet.
LEMMA BurstHit ==
    ASSUME NEW t \in Nat, t = now, NEW bs, BucketsAt(t, bs), NEW key \in Key,
           NEW log \in [Age -> Nat], BurstOn(t, bs, key, log)
    PROVE  BurstOn(t, Hit(bs, key), key,
                   IF Allowed(Hit(bs, key), key) THEN OneMore(log) ELSE log)
  <1> DEFINE cs == Hit(bs, key)
             new == IF Allowed(cs, key) THEN OneMore(log) ELSE log
  <1>1. /\ Window \in Nat /\ Window > 0 /\ MaxAttempts \in Nat /\ MaxAttempts > 0
        /\ 0 \in Age /\ Window - 1 \in Age /\ Age \subseteq Nat
    BY RateLimitAssumption DEF Age
  <1>2. /\ Live(t, cs, key)
        /\ IF Live(t, bs, key)
           THEN /\ cs[key].resetAt = bs[key].resetAt
                /\ cs[key].count = IF bs[key].count <= MaxAttempts
                                   THEN bs[key].count + 1 ELSE bs[key].count
           ELSE cs[key] = [count |-> 1, resetAt |-> t + Window]
    BY HitCounts
  <1>3. Allowed(cs, key) <=> cs[key].count <= MaxAttempts
    BY DEF Allowed
  <1>4. /\ new \in [Age -> Nat]
        /\ \A a \in Age : new[a] = IF cs[key].count <= MaxAttempts THEN log[a] + 1 ELSE log[a]
    BY <1>3 DEF OneMore
  <1> HIDE DEF cs, new
  <1>5. \A a \in Age : a + 1 \in Age => new[a] <= new[a + 1]
    <2> TAKE a \in Age
    <2> HAVE a + 1 \in Age
    <2>1. log[a] <= log[a + 1] /\ log[a] \in Nat /\ log[a + 1] \in Nat
      BY DEF BurstOn
    <2> QED
      BY <1>4, <2>1
  <1>6. CASE Live(t, bs, key)
    <2> DEFINE age == t + Window - bs[key].resetAt
    <2>1. /\ age \in Age /\ bs[key].count \in 1 .. MaxAttempts + 1
          /\ log[age] = Passed(bs[key])
          /\ age > 0 => log[age - 1] < log[age]
          /\ log[Window - 1] < log[age] + MaxAttempts
      BY <1>6, AgeIsAge DEF BurstOn
    <2>2. t + Window - cs[key].resetAt = age
      BY <1>2, <1>6
    <2> HIDE DEF age
    <2>3. age > 0 => age - 1 \in Age
      BY <1>1, <2>1 DEF Age
    <2>4. log[age] \in Nat /\ log[Window - 1] \in Nat /\ (age > 0 => log[age - 1] \in Nat)
      BY <1>1, <2>1, <2>3
    <2>5. new[age] = Passed(cs[key])
      BY <1>1, <1>2, <1>4, <1>6, <2>1 DEF Passed
    <2>6. age > 0 => new[age - 1] < new[age]
      BY <1>4, <2>1, <2>3, <2>4
    <2>7. new[Window - 1] < new[age] + MaxAttempts
      BY <1>1, <1>4, <2>1, <2>4
    <2> QED
      BY <1>2, <1>5, <2>2, <2>5, <2>6, <2>7 DEF BurstOn, cs, new
  <1>7. CASE ~ Live(t, bs, key)
    <2>1. cs[key].count = 1 /\ t + Window - cs[key].resetAt = 0
      BY <1>1, <1>2, <1>7
    <2>2. log[0] = 0 /\ log[Window - 1] < MaxAttempts /\ log[Window - 1] \in Nat
      BY <1>1, <1>7 DEF BurstOn
    <2>3. new[0] = 1 /\ new[Window - 1] = log[Window - 1] + 1
      BY <1>1, <1>4, <2>1, <2>2
    <2>4. Passed(cs[key]) = 1
      BY <1>1, <2>1 DEF Passed
    <2> QED
      BY <1>1, <1>2, <1>5, <2>1, <2>2, <2>3, <2>4 DEF BurstOn, cs, new
  <1> QED
    BY <1>6, <1>7

LEMMA GuardedBursts ==
    ASSUME NEW t \in Nat, t = now, BucketsAt(t, buckets),
           NEW ip \in Ip, NEW email \in Email \cup {None}, NEW key \in Key,
           NEW log \in [Age -> Nat], BurstOn(t, buckets, key, log)
    PROVE  BurstOn(t, Guarded(ip, email).buckets, key,
                   IF key \in Guarded(ip, email).passed THEN OneMore(log) ELSE log)
  <1> DEFINE address == [ip |-> ip, email |-> None]
             both    == [ip |-> ip, email |-> email]
             first   == Hit(buckets, address)
             second  == IF email # None /\ Allowed(first, address) THEN Hit(first, both)
                        ELSE first
             tried   == IF Allowed(first, address) THEN {address, both} ELSE {address}
  <1>1. address \in Key /\ both \in Key /\ (email = None <=> both = address)
    BY DEF Key
  <1>2. BucketsAt(t, first) /\ address \in DOMAIN first
    BY <1>1, HitBuckets
  <1>3. /\ Guarded(ip, email).buckets = second
        /\ Guarded(ip, email).passed = {k \in tried : Allowed(second, k)}
    BY DEF Guarded
  <1> HIDE DEF address, both
  <1>4. BurstOn(t, first, key,
                IF key = address /\ Allowed(first, address) THEN OneMore(log) ELSE log)
    <2>1. CASE key = address
      <3>1. BurstOn(t, buckets, address, log)
        BY <2>1
      <3>2. BurstOn(t, first, address, IF Allowed(first, address) THEN OneMore(log) ELSE log)
        BY <1>1, <3>1, BurstHit
      <3> QED
        BY <2>1, <3>2, Zenon
    <2>2. CASE key # address
      <3>1. /\ Live(t, first, key) <=> Live(t, buckets, key)
            /\ Live(t, buckets, key) => first[key] = buckets[key]
        BY <1>1, <2>2, HitCounts
      <3> HIDE DEF first
      <3> QED
        BY <2>2, <3>1, BurstSame
    <2> QED
      BY <2>1, <2>2
  <1> HIDE DEF first, second, tried
  <1>5. CASE email # None /\ Allowed(first, address)
    <2>1. second = Hit(first, both) /\ tried = {address, both} /\ address # both
      BY <1>1, <1>5 DEF second, tried
    <2>2. /\ Live(t, second, address) <=> Live(t, first, address)
          /\ Live(t, first, address) => second[address] = first[address]
      BY <1>1, <1>2, <2>1, HitCounts
    <2>3. CASE key = address
      <3>1. Live(t, first, address)
        BY <1>1, HitCounts DEF first
      <3>2. Allowed(second, address)
        BY <1>5, <2>2, <3>1 DEF Allowed
      <3>3. BurstOn(t, first, key, OneMore(log))
        BY <1>4, <1>5, <2>3
      <3>4. BurstOn(t, second, key, OneMore(log))
        BY <2>2, <2>3, <3>3, BurstSame
      <3> QED
        BY <1>3, <2>1, <2>3, <3>2, <3>4
    <2>4. CASE key = both
      <3>1. BurstOn(t, first, both, log)
        BY <1>4, <2>1, <2>4
      <3>2. BurstOn(t, second, both, IF Allowed(second, both) THEN OneMore(log) ELSE log)
        BY <1>1, <1>2, <2>1, <3>1, BurstHit
      <3> QED
        BY <1>3, <2>1, <2>4, <3>2
    <2>5. CASE key # address /\ key # both
      <3>1. BurstOn(t, first, key, log)
        BY <1>4, <2>5
      <3>2. /\ Live(t, second, key) <=> Live(t, first, key)
            /\ Live(t, first, key) => second[key] = first[key]
        BY <1>1, <1>2, <2>1, <2>5, HitCounts
      <3>3. key \notin Guarded(ip, email).passed
        BY <1>3, <2>1, <2>5
      <3> QED
        BY <1>3, <3>1, <3>2, <3>3, BurstSame
    <2> QED
      BY <2>3, <2>4, <2>5
  <1>6. CASE ~ (email # None /\ Allowed(first, address))
    <2>1. second = first
      BY <1>6 DEF second
    <2>2. Guarded(ip, email).passed = {k \in {address} : Allowed(first, k)}
      BY <1>1, <1>3, <1>6, <2>1 DEF tried
    <2>3. key \in Guarded(ip, email).passed <=> key = address /\ Allowed(first, address)
      BY <2>2
    <2> QED
      BY <1>3, <1>4, <2>1, <2>3
  <1> QED
    BY <1>5, <1>6

LEMMA BurstInitially == RateLimitInit => BurstInv
  <1> SUFFICES ASSUME RateLimitInit, NEW key \in Key PROVE BurstOn(now, buckets, key, recent[key])
    BY DEF BurstInv
  <1>1. /\ MaxAttempts \in Nat /\ MaxAttempts > 0
        /\ 0 \in Age /\ Window - 1 \in Age
    BY RateLimitAssumption DEF Age
  <1>2. ~ Live(now, buckets, key) /\ \A a \in Age : recent[key][a] = 0
    BY DEF RateLimitInit, Live
  <1> QED
    BY <1>1, <1>2 DEF BurstOn

LEMMA AttemptKeepsBursts ==
    ASSUME LimitInv, BurstInv, NEW ip \in Ip, NEW email \in Email \cup {None},
           Counting(Guarded(ip, email))
    PROVE  BurstInv'
  <1> SUFFICES ASSUME NEW key \in Key
               PROVE  BurstOn(now', buckets', key, recent'[key])
    BY DEF BurstInv
  <1> DEFINE g == Guarded(ip, email)
  <1>1. /\ now \in Nat /\ now' = now /\ BucketsAt(now, buckets)
        /\ recent[key] \in [Age -> Nat]
    BY RateLimitAssumption DEF LimitInv, RateLimitTypes, BucketsAt, Counting
  <1>2. BurstOn(now, g.buckets, key, IF key \in g.passed THEN OneMore(recent[key]) ELSE recent[key])
    BY <1>1, GuardedBursts DEF BurstInv
  <1> HIDE DEF g
  <1>3. buckets' = g.buckets
        /\ recent'[key] = IF key \in g.passed THEN OneMore(recent[key]) ELSE recent[key]
    BY DEF Counting, OneMore, g
  <1> QED
    BY <1>1, <1>2, <1>3

LEMMA TickKeepsBursts ==
    ASSUME LimitInv, BurstInv, Tick
    PROVE  BurstInv'
  <1> SUFFICES ASSUME NEW key \in Key
               PROVE  BurstOn(now', buckets', key, recent'[key])
    BY DEF BurstInv
  <1> DEFINE log == recent[key]
             new == recent'[key]
  <1>1. /\ now \in Nat /\ now' = now + 1 /\ buckets' = buckets
        /\ BucketsAt(now, buckets) /\ log \in [Age -> Nat]
        /\ BurstOn(now, buckets, key, log)
    BY RateLimitAssumption DEF LimitInv, RateLimitTypes, BucketsAt, Tick, BurstInv
  <1>2. /\ Window \in Nat /\ Window > 0 /\ MaxAttempts \in Nat /\ MaxAttempts > 0
        /\ 0 \in Age /\ Window - 1 \in Age /\ Age \subseteq Nat
    BY RateLimitAssumption DEF Age
  <1>3. \A a \in Age : new[a] = IF a = 0 THEN 0 ELSE log[a - 1]
    BY DEF Tick
  <1> HIDE DEF new, log
  <1>4. \A a \in Age : a # 0 => a - 1 \in Age /\ log[a - 1] <= log[a]
    <2> TAKE a \in Age
    <2> HAVE a # 0
    <2>1. a - 1 \in Age /\ (a - 1) + 1 = a
      BY <1>2 DEF Age
    <2>2. log[a - 1] <= log[(a - 1) + 1]
      BY <1>1, <2>1 DEF BurstOn
    <2> QED
      BY <2>1, <2>2
  <1>5. \A a \in Age : new[a] \in Nat /\ new[a] <= log[a]
    BY <1>1, <1>3, <1>4
  <1>6. \A a \in Age : a + 1 \in Age => new[a] <= new[a + 1]
    <2> TAKE a \in Age
    <2> HAVE a + 1 \in Age
    <2>1. a \in Nat /\ a + 1 # 0 /\ (a + 1) - 1 = a
      BY <1>2
    <2>2. new[a + 1] = log[a]
      BY <1>3, <2>1
    <2> QED
      BY <1>5, <2>2
  <1>7. CASE ~ Live(now, buckets, key)
    <2>1. ~ Live(now', buckets', key)
      <3>1. key \in DOMAIN buckets => buckets[key].resetAt \in Nat
        BY <1>1 DEF BucketsAt, Bucket
      <3> QED
        BY <1>1, <1>7, <3>1 DEF Live
    <2>2. log[Window - 1] < MaxAttempts
      BY <1>1, <1>7 DEF BurstOn
    <2>3. new[0] = 0 /\ new[Window - 1] < MaxAttempts
      BY <1>1, <1>2, <1>3, <1>5, <2>2
    <2> QED
      BY <1>6, <2>1, <2>3 DEF BurstOn, new
  <1>8. CASE Live(now, buckets, key)
    <2> DEFINE age == now + Window - buckets[key].resetAt
    <2>1. /\ age \in Age /\ buckets[key].resetAt \in Nat
          /\ Passed(buckets[key]) \in 1 .. MaxAttempts
          /\ log[age] = Passed(buckets[key])
          /\ age > 0 => log[age - 1] < log[age]
          /\ log[Window - 1] < log[age] + MaxAttempts
      BY <1>1, <1>8, AgeIsAge DEF BurstOn
    <2>2. CASE age = Window - 1
      <3>1. ~ Live(now', buckets', key)
        BY <1>1, <1>2, <2>1, <2>2 DEF Live
      <3>2. new[0] = 0
        BY <1>2, <1>3
      <3>3. new[Window - 1] < MaxAttempts
        <4>1. CASE Window - 1 = 0
          BY <1>2, <3>2, <4>1
        <4>2. CASE Window - 1 # 0
          <5>1. new[Window - 1] = log[Window - 2]
            BY <1>2, <1>3, <4>2
          <5>2. age > 0 /\ age - 1 = Window - 2
            BY <1>2, <2>2, <4>2
          <5>3. log[Window - 2] < log[age]
            BY <2>1, <5>2
          <5>4. log[Window - 2] = new[Window - 1] /\ new[Window - 1] \in Nat
            BY <1>2, <1>5, <5>1
          <5> HIDE DEF age
          <5> QED
            BY <1>2, <2>1, <5>3, <5>4
        <4> QED
          BY <4>1, <4>2
      <3> QED
        BY <1>6, <3>1, <3>2, <3>3 DEF BurstOn, new
    <2>3. CASE age # Window - 1
      <3>1. age + 1 \in Age /\ age \in Nat /\ age + 1 # 0 /\ (age + 1) - 1 = age
        <4> HIDE DEF age
        <4> QED
          BY <1>2, <2>1, <2>3 DEF Age
      <3>2. now' + Window - buckets'[key].resetAt = age + 1
        BY <1>1, <1>2, <2>1
      <3>3. Live(now', buckets', key)
        <4> PICK ends \in Nat : ends = buckets[key].resetAt
          BY <2>1
        <4>1. age + 1 <= Window - 1 /\ now + 1 + Window - ends = age + 1
          <5> HIDE DEF age
          <5> QED
            BY <1>1, <1>2, <3>1, <3>2 DEF Age
        <4>2. ends > now + 1
          <5>1. \A w, n, e, a \in Nat : a + 1 <= w - 1 /\ n + 1 + w - e = a + 1 => e > n + 1
            OBVIOUS
          <5>2. now \in Nat /\ Window \in Nat /\ age \in Nat
            BY <1>1, <1>2, <3>1
          <5> HIDE DEF age
          <5> QED
            BY <4>1, <5>1, <5>2
        <4> QED
          BY <1>1, <1>2, <1>8, <4>2 DEF Live
      <3> HIDE DEF age
      <3>4. new[age + 1] = log[age]
        BY <1>3, <3>1
      <3>5. new[age] < new[age + 1]
        <4>1. CASE age = 0
          BY <1>2, <1>3, <2>1, <3>4, <4>1
        <4>2. CASE age # 0
          BY <1>3, <2>1, <3>1, <3>4, <4>2
        <4> QED
          BY <4>1, <4>2
      <3>6. new[Window - 1] < new[age + 1] + MaxAttempts
        <4>1. new[Window - 1] <= log[Window - 1] /\ new[Window - 1] \in Nat
              /\ log[Window - 1] \in Nat /\ log[age] \in Nat
          BY <1>1, <1>2, <1>5, <2>1
        <4> QED
          BY <1>2, <2>1, <3>4, <4>1
      <3>7. new[age + 1] = Passed(buckets'[key])
        BY <1>1, <2>1, <3>4
      <3>8. age + 1 > 0 => new[(age + 1) - 1] < new[age + 1]
        BY <3>1, <3>5
      <3> QED
        BY <1>6, <3>2, <3>3, <3>6, <3>7, <3>8 DEF BurstOn, new
    <2> QED
      BY <2>2, <2>3
  <1> QED
    BY <1>7, <1>8

LEMMA CrashKeepsBursts ==
    ASSUME Crash
    PROVE  BurstInv'
  <1> SUFFICES ASSUME NEW key \in Key PROVE BurstOn(now', buckets', key, recent'[key])
    BY DEF BurstInv
  <1>1. /\ MaxAttempts \in Nat /\ MaxAttempts > 0
        /\ 0 \in Age /\ Window - 1 \in Age
    BY RateLimitAssumption DEF Age
  <1>2. ~ Live(now', buckets', key) /\ \A a \in Age : recent'[key][a] = 0
    BY DEF Crash, Live
  <1> QED
    BY <1>1, <1>2 DEF BurstOn

LEMMA BurstsAreBounded == LimitInv /\ BurstInv => BurstsBounded
  <1> SUFFICES ASSUME LimitInv, BurstInv, NEW key \in Key
               PROVE  recent[key][Window - 1] < 2 * MaxAttempts
    BY DEF BurstsBounded
  <1>1. /\ now \in Nat /\ BucketsAt(now, buckets) /\ BurstOn(now, buckets, key, recent[key])
        /\ recent[key] \in [Age -> Nat]
    BY RateLimitAssumption DEF LimitInv, RateLimitTypes, BucketsAt, BurstInv
  <1>2. MaxAttempts \in Nat /\ MaxAttempts > 0 /\ Window - 1 \in Age
    BY RateLimitAssumption DEF Age
  <1>3. recent[key][Window - 1] \in Nat
    BY <1>1, <1>2
  <1>4. CASE Live(now, buckets, key)
    <2> DEFINE most == Passed(buckets[key])
    <2>1. most \in 1 .. MaxAttempts /\ recent[key][Window - 1] < most + MaxAttempts
      BY <1>1, <1>4, AgeIsAge DEF BurstOn
    <2> HIDE DEF most
    <2> QED
      BY <1>2, <1>3, <2>1
  <1>5. CASE ~ Live(now, buckets, key)
    BY <1>1, <1>2, <1>3, <1>5 DEF BurstOn
  <1> QED
    BY <1>4, <1>5

LEMMA RefusedWhenFull == LimitInv /\ BurstInv => RefusedOnlyWhenFull
  <1> SUFFICES ASSUME LimitInv, BurstInv, NEW key \in Key, Full(key)
               PROVE  recent[key][AgeOf(buckets[key])] >= MaxAttempts
    BY DEF RefusedOnlyWhenFull
  <1>1. /\ now \in Nat /\ BucketsAt(now, buckets) /\ BurstOn(now, buckets, key, recent[key])
        /\ MaxAttempts \in Nat
    BY RateLimitAssumption DEF LimitInv, RateLimitTypes, BucketsAt, BurstInv
  <1>2. Live(now, buckets, key) /\ buckets[key].count >= MaxAttempts
    BY <1>1 DEF Full, Expired, Live, BucketsAt, Bucket
  <1>3. buckets[key].count \in 1 .. MaxAttempts + 1
    BY <1>1, <1>2, AgeIsAge
  <1>4. Passed(buckets[key]) = MaxAttempts
    BY <1>1, <1>2, <1>3 DEF Passed
  <1> QED
    BY <1>1, <1>2, <1>4 DEF BurstOn, AgeOf

-----------------------------------------------------------------------------
(***************************************************************************)
(* The master database, and what logins and sessions know of it.  Whatever *)
(* they know that is not so any more was written since the login began.    *)
(***************************************************************************)
MasterTypes ==
    /\ tenants \in [Code -> Db \cup {None}]
    /\ users \in [Code -> [Email -> Password \cup {None}]]
    /\ \A c \in Code, e \in Email : users[c][e] # None => tenants[c] # None

\* No account of this email elsewhere, but for those written since.
OnlyOne(us, work) ==
    work.guessed => \A c \in Code \ {work.code} :
                        us[c][work.email] # None => c \in work.changed

LoginOn(ts, us, login) ==
    \/ login = Idle
    \/ /\ login \in Login
       /\ login.step = "tenant" /\ login.guessed => login.code = None
       /\ login.step = "user" =>
            /\ login.code # None /\ login.db # None
            /\ login.db # ts[login.code] => login.code \in login.moved
            /\ OnlyOne(us, login)

SessionOn(ts, us, s) ==
    \/ s = Idle
    \/ /\ s \in Session
       /\ s.db # ts[s.code] => s.code \in s.moved
       /\ s.password # us[s.code][s.email] => s.code \in s.changed
       /\ OnlyOne(us, s)
       /\ s.exp = (s.issued + Ttl) \div Second

LoginsOn(ts, us) ==
    /\ req \in [Request -> {Idle} \cup Login]
    /\ \A r \in Request : LoginOn(ts, us, req[r])

MasterInv ==
    /\ MasterTypes
    /\ LoginsOn(tenants, users)
    /\ SessionOn(tenants, users, session)

LEMMA LoginIsNotIdle == \A login \in Login : login # Idle /\ login.step # "idle"
  BY DEF Login, Idle

LEMMA MovedKeeps ==
    ASSUME NEW ts \in [Code -> Db \cup {None}], NEW us, NEW c \in Code, NEW db
    PROVE  /\ \A login : LoginOn(ts, us, login) =>
                LoginOn([ts EXCEPT ![c] = db], us, Moved(login, c))
           /\ \A s : SessionOn(ts, us, s) =>
                SessionOn([ts EXCEPT ![c] = db], us, Moved(s, c))
  <1> DEFINE new == [ts EXCEPT ![c] = db]
  <1>1. ASSUME NEW login, LoginOn(ts, us, login)
        PROVE  LoginOn(new, us, Moved(login, c))
    <2>1. CASE login = Idle
      BY <2>1 DEF Moved, LoginOn
    <2>2. CASE login # Idle
      <3>1. login \in Login /\ Moved(login, c) = [login EXCEPT !.moved = @ \cup {c}]
        BY <1>1, <2>2 DEF LoginOn, Moved
      <3>2. Moved(login, c) \in Login
        BY <3>1 DEF Login
      <3>3. /\ Moved(login, c).step = login.step /\ Moved(login, c).code = login.code
            /\ Moved(login, c).db = login.db /\ Moved(login, c).email = login.email
            /\ Moved(login, c).guessed = login.guessed /\ Moved(login, c).changed = login.changed
            /\ Moved(login, c).moved = login.moved \cup {c}
        BY <3>1 DEF Login
      <3>4. login.code # None => new[login.code] = IF login.code = c THEN db ELSE ts[login.code]
        BY <3>1 DEF Login
      <3> QED
        BY <1>1, <2>2, <3>2, <3>3, <3>4 DEF LoginOn, OnlyOne
    <2> QED
      BY <2>1, <2>2
  <1>2. ASSUME NEW s, SessionOn(ts, us, s)
        PROVE  SessionOn(new, us, Moved(s, c))
    <2>1. CASE s = Idle
      BY <2>1 DEF Moved, SessionOn
    <2>2. CASE s # Idle
      <3>1. s \in Session /\ Moved(s, c) = [s EXCEPT !.moved = @ \cup {c}]
        BY <1>2, <2>2 DEF SessionOn, Moved
      <3>2. Moved(s, c) \in Session
        BY <3>1 DEF Session
      <3>3. /\ Moved(s, c).code = s.code /\ Moved(s, c).db = s.db /\ Moved(s, c).email = s.email
            /\ Moved(s, c).password = s.password /\ Moved(s, c).exp = s.exp
            /\ Moved(s, c).issued = s.issued
            /\ Moved(s, c).guessed = s.guessed /\ Moved(s, c).changed = s.changed
            /\ Moved(s, c).moved = s.moved \cup {c}
        BY <3>1 DEF Session
      <3>4. new[s.code] = IF s.code = c THEN db ELSE ts[s.code]
        BY <3>1 DEF Session
      <3> QED
        BY <1>2, <2>2, <3>2, <3>3, <3>4 DEF SessionOn, OnlyOne
    <2> QED
      BY <2>1, <2>2
  <1> QED
    BY <1>1, <1>2

LEMMA ChangedKeeps ==
    ASSUME NEW ts, NEW us \in [Code -> [Email -> Password \cup {None}]],
           NEW c \in Code, NEW e \in Email, NEW p
    PROVE  /\ \A login : LoginOn(ts, us, login) =>
                LoginOn(ts, [us EXCEPT ![c][e] = p], Changed(login, c, e))
           /\ \A s : SessionOn(ts, us, s) =>
                SessionOn(ts, [us EXCEPT ![c][e] = p], Changed(s, c, e))
  <1> DEFINE new == [us EXCEPT ![c][e] = p]
  <1>1. \A d \in Code, f \in Email : new[d][f] = IF d = c /\ f = e THEN p ELSE us[d][f]
    OBVIOUS
  <1> HIDE DEF new
  <1>2. ASSUME NEW login, LoginOn(ts, us, login)
        PROVE  LoginOn(ts, new, Changed(login, c, e))
    <2>1. CASE login = Idle
      BY <2>1 DEF Changed, LoginOn
    <2>2. CASE login # Idle
      <3> DEFINE after == Changed(login, c, e)
      <3>1. /\ login \in Login
            /\ after = IF login.email = e THEN [login EXCEPT !.changed = @ \cup {c}] ELSE login
        BY <1>2, <2>2 DEF LoginOn, Changed
      <3>2. /\ after \in Login
            /\ after.step = login.step /\ after.code = login.code /\ after.db = login.db
            /\ after.email = login.email /\ after.guessed = login.guessed
            /\ after.moved = login.moved
            /\ login.changed \subseteq after.changed
            /\ login.email = e => c \in after.changed
        BY <3>1 DEF Login
      <3> HIDE DEF after
      <3>3. login.email \in Email
        BY <3>1 DEF Login
      <3> QED
        BY <1>1, <1>2, <2>2, <3>2, <3>3 DEF LoginOn, OnlyOne, after
    <2> QED
      BY <2>1, <2>2
  <1>3. ASSUME NEW s, SessionOn(ts, us, s)
        PROVE  SessionOn(ts, new, Changed(s, c, e))
    <2>1. CASE s = Idle
      BY <2>1 DEF Changed, SessionOn
    <2>2. CASE s # Idle
      <3> DEFINE after == Changed(s, c, e)
      <3>1. /\ s \in Session
            /\ after = IF s.email = e THEN [s EXCEPT !.changed = @ \cup {c}] ELSE s
        BY <1>3, <2>2 DEF SessionOn, Changed
      <3>2. /\ after \in Session
            /\ after.code = s.code /\ after.db = s.db /\ after.password = s.password
            /\ after.email = s.email /\ after.guessed = s.guessed
            /\ after.exp = s.exp /\ after.issued = s.issued /\ after.moved = s.moved
            /\ s.changed \subseteq after.changed
            /\ s.email = e => c \in after.changed
        BY <3>1 DEF Session
      <3> HIDE DEF after
      <3>3. s.email \in Email /\ s.code \in Code
        BY <3>1 DEF Session
      <3> QED
        BY <1>1, <1>3, <2>2, <3>2, <3>3 DEF SessionOn, OnlyOne, after
    <2> QED
      BY <2>1, <2>2
  <1> QED
    BY <1>2, <1>3 DEF new

LEMMA WriteTenantKeeps ==
    ASSUME MasterInv, NEW c \in Code, NEW db \in Db, WriteTenant(c, db), UNCHANGED users
    PROVE  MasterInv' /\ \A d \in Code : tenants'[d] = IF d = c THEN db ELSE tenants[d]
  <1>1. db # None
    BY AccountsAssumption
  <1>2. /\ tenants \in [Code -> Db \cup {None}] /\ tenants' = [tenants EXCEPT ![c] = db]
        /\ req' = [r \in Request |-> Moved(req[r], c)] /\ session' = Moved(session, c)
    BY DEF MasterInv, MasterTypes, WriteTenant
  <1>3. \A d \in Code : tenants'[d] = IF d = c THEN db ELSE tenants[d]
    BY <1>2
  <1>4. MasterTypes'
    BY <1>1, <1>2, <1>3 DEF MasterInv, MasterTypes
  <1>5. \A r \in Request : LoginOn(tenants', users', req'[r])
    BY <1>2, MovedKeeps DEF MasterInv, LoginsOn
  <1>6. SessionOn(tenants', users', session')
    BY <1>2, MovedKeeps DEF MasterInv
  <1>7. req' \in [Request -> {Idle} \cup Login]
    BY <1>2, <1>5 DEF LoginOn
  <1> QED
    BY <1>3, <1>4, <1>5, <1>6, <1>7 DEF MasterInv, LoginsOn

LEMMA WriteUserKeeps ==
    ASSUME MasterInv, NEW c \in Code, NEW e \in Email, NEW p \in Password,
           tenants[c] # None, WriteUser(c, e, p), UNCHANGED tenants
    PROVE  MasterInv' /\ \A d \in Code, f \in Email :
                            users'[d][f] = IF d = c /\ f = e THEN p ELSE users[d][f]
  <1>1. /\ users \in [Code -> [Email -> Password \cup {None}]]
        /\ users' = [users EXCEPT ![c][e] = p]
        /\ req' = [r \in Request |-> Changed(req[r], c, e)]
        /\ session' = Changed(session, c, e)
    BY DEF MasterInv, MasterTypes, WriteUser
  <1>2. \A d \in Code, f \in Email : users'[d][f] = IF d = c /\ f = e THEN p ELSE users[d][f]
    BY <1>1
  <1>3. MasterTypes'
    BY <1>1, <1>2 DEF MasterInv, MasterTypes
  <1>4. \A r \in Request : LoginOn(tenants', users', req'[r])
    BY <1>1, ChangedKeeps DEF MasterInv, LoginsOn
  <1>5. SessionOn(tenants', users', session')
    BY <1>1, ChangedKeeps DEF MasterInv
  <1>6. req' \in [Request -> {Idle} \cup Login]
    BY <1>1, <1>4 DEF LoginOn
  <1> QED
    BY <1>2, <1>3, <1>4, <1>5, <1>6 DEF MasterInv, LoginsOn

-----------------------------------------------------------------------------
(***************************************************************************)
(* The start of the server.  A tenant without a user is one that somebody   *)
(* is about to give a user, or that somebody died with.                    *)
(***************************************************************************)
FlowTypes ==
    /\ server \in {"down", "starting", "tenant", "user", "up", "refused"}
    /\ script \in {Idle} \cup Script
    /\ logins \in 0 .. MaxLogins /\ scripts \in 0 .. MaxScripts /\ starts \in 0 .. MaxStarts
    /\ torn \in BOOLEAN /\ crossed \in BOOLEAN

HasUser(c) == \E e \in Email : users[c][e] # None

StartInv ==
    /\ FlowTypes
    /\ server = "user" => tenants[BootCode] # None
    /\ script # Idle => tenants[script.code] # None
    /\ \A c \in Code : tenants[c] # None =>
         \/ torn
         \/ HasUser(c)
         \/ script # Idle /\ script.code = c
         \/ server = "user" /\ c = BootCode
    /\ server \in {"starting", "tenant", "user"} /\ ~crossed => script = Idle
    /\ server \in {"tenant", "user"} /\ ~crossed => NoUsers
    /\ server = "refused" => torn \/ crossed

Inv == LimitInv /\ MasterInv /\ StartInv

LEMMA ScriptIsNotIdle == \A s \in Script : s # Idle
  BY DEF Script, Idle

LEMMA InvTypes == Inv => TypeOK
  <1> SUFFICES ASSUME Inv PROVE TypeOK
    OBVIOUS
  <1>1. \A r \in Request : req[r].step = "user" => req[r].code # None /\ req[r].db # None
    <2> SUFFICES ASSUME NEW r \in Request, req[r].step = "user"
                 PROVE  req[r].code # None /\ req[r].db # None
      OBVIOUS
    <2>1. req[r] # Idle
      BY DEF Idle
    <2> QED
      BY <2>1 DEF Inv, MasterInv, LoginsOn, LoginOn
  <1>2. session \in {Idle} \cup Session
    BY DEF Inv, MasterInv, SessionOn
  <1> QED
    BY <1>1, <1>2 DEF Inv, LimitInv, MasterInv, MasterTypes, LoginsOn, StartInv, FlowTypes, TypeOK

LEMMA Initially == Init => Inv
  <1> SUFFICES ASSUME Init PROVE Inv
    OBVIOUS
  <1>1. LimitInv
    BY LimitInitially DEF Init
  <1>2. MasterInv
    BY DEF Init, MasterInv, MasterTypes, LoginsOn, LoginOn, SessionOn
  <1>3. FlowTypes
    <2>1. torn \in BOOLEAN /\ crossed \in BOOLEAN
      BY Zenon DEF Init
    <2>2. logins \in 0 .. MaxLogins /\ scripts \in 0 .. MaxScripts /\ starts \in 0 .. MaxStarts
      BY AccountsAssumption DEF Init
    <2> QED
      BY <2>1, <2>2 DEF Init, FlowTypes
  <1>4. server = "down" /\ script = Idle /\ \A c \in Code : tenants[c] = None
    BY DEF Init
  <1>5. StartInv
    BY <1>3, <1>4 DEF StartInv
  <1> QED
    BY <1>1, <1>2, <1>5 DEF Inv

\* A step that writes neither the master database nor the start keeps what is known of both.
LEMMA StartUntouched ==
    ASSUME StartInv, UNCHANGED <<masterVars, server, script, logins, scripts, starts,
                                 torn, crossed>>
    PROVE  StartInv'
  BY DEF StartInv, FlowTypes, HasUser, NoUsers, masterVars

LEMMA AttemptKeepsStart ==
    ASSUME StartInv, logins < MaxLogins, logins' = logins + 1,
           UNCHANGED <<masterVars, server, script, scripts, starts, torn, crossed>>
    PROVE  StartInv'
  <1>1. logins' \in 0 .. MaxLogins
    BY AccountsAssumption DEF StartInv, FlowTypes
  <1> QED
    BY <1>1 DEF StartInv, FlowTypes, HasUser, NoUsers, masterVars

\* A login that goes on, or ends, without a word to the master database.
LEMMA LoginContinues ==
    ASSUME MasterInv, NEW r \in Request, NEW login, LoginOn(tenants, users, login),
           Become(r, login), UNCHANGED <<masterVars, session>>
    PROVE  MasterInv'
  <1>1. login \in {Idle} \cup Login
    BY DEF LoginOn
  <1>2. /\ req' = [req EXCEPT ![r] = login]
        /\ tenants' = tenants /\ users' = users /\ session' = session
    BY DEF Become, masterVars
  <1> QED
    BY <1>1, <1>2 DEF MasterInv, MasterTypes, LoginsOn

LEMMA MasterUntouched ==
    ASSUME MasterInv, UNCHANGED <<masterVars, req, session>>
    PROVE  MasterInv'
  BY DEF MasterInv, MasterTypes, LoginsOn, masterVars

LEMMA StartKeeps == ASSUME Inv, Start PROVE Inv'
  <1>1. LimitInv'
    BY LimitUntouched DEF Inv, Start
  <1>2. MasterInv'
    BY MasterUntouched DEF Inv, Start
  <1>3. StartInv'
    <2>1. /\ server \in {"down", "refused"} /\ server' = "starting"
          /\ starts < MaxStarts /\ starts' = starts + 1 /\ crossed' = (script # Idle)
          /\ tenants' = tenants /\ users' = users /\ script' = script /\ torn' = torn
          /\ logins' = logins /\ scripts' = scripts
      BY DEF Start, masterVars
    <2>2. starts' \in 0 .. MaxStarts
      BY <2>1, AccountsAssumption DEF Inv, StartInv, FlowTypes
    <2>3. FlowTypes'
      BY <2>1, <2>2 DEF Inv, StartInv, FlowTypes
    <2>4. crossed' = TRUE \/ script' = Idle
      BY <2>1
    <2> QED
      BY <2>1, <2>3, <2>4 DEF Inv, StartInv, HasUser
  <1> QED
    BY <1>1, <1>2, <1>3 DEF Inv

LEMMA CountUsersKeeps == ASSUME Inv, CountUsers PROVE Inv'
  <1>1. LimitInv'
    BY LimitUntouched DEF Inv, CountUsers
  <1>2. MasterInv'
    BY MasterUntouched DEF Inv, CountUsers
  <1>3. StartInv'
    <2>1. server' \in {"tenant", "up"} /\ (server' = "tenant" => NoUsers)
      BY DEF CountUsers
    <2> QED
      BY <2>1 DEF Inv, StartInv, FlowTypes, CountUsers, HasUser, NoUsers, masterVars
  <1> QED
    BY <1>1, <1>2, <1>3 DEF Inv

LEMMA CreateTenantKeeps == ASSUME Inv, CreateTenant PROVE Inv'
  <1>1. LimitInv'
    BY LimitUntouched DEF Inv, CreateTenant
  <1>2. CASE tenants[BootCode] # None
    <2>1. server' = "refused" /\ UNCHANGED <<masterVars, req, session>>
      BY <1>2 DEF CreateTenant, masterVars
    <2>2. MasterInv'
      BY <2>1, MasterUntouched DEF Inv
    <2>3. torn \/ crossed
      BY <1>2, AccountsAssumption DEF Inv, StartInv, CreateTenant, HasUser, NoUsers
    <2>4. StartInv'
      BY <2>1, <2>3 DEF Inv, StartInv, FlowTypes, CreateTenant, HasUser, NoUsers, masterVars
    <2> QED
      BY <1>1, <2>2, <2>4 DEF Inv
  <1>3. CASE tenants[BootCode] = None
    <2>1. /\ server = "tenant" /\ server' = "user" /\ WriteTenant(BootCode, BootDb)
          /\ UNCHANGED <<users, script, logins, scripts, starts, torn, crossed>>
      BY <1>3 DEF CreateTenant
    <2>2. /\ MasterInv'
          /\ \A d \in Code : tenants'[d] = IF d = BootCode THEN BootDb ELSE tenants[d]
      BY <2>1, WriteTenantKeeps, AccountsAssumption DEF Inv
    <2>3. BootDb # None /\ (script # Idle => script.code \in Code)
      BY AccountsAssumption DEF Inv, StartInv, FlowTypes, Script
    <2>4. StartInv'
      BY <2>1, <2>2, <2>3, AccountsAssumption DEF Inv, StartInv, FlowTypes, HasUser, NoUsers
    <2> QED
      BY <1>1, <2>2, <2>4 DEF Inv
  <1> QED
    BY <1>2, <1>3

LEMMA CreateUserKeeps == ASSUME Inv, CreateUser PROVE Inv'
  <1>1. LimitInv'
    BY LimitUntouched DEF Inv, CreateUser
  <1>2. CASE users[BootCode][BootEmail] # None
    <2>1. /\ server = "user" /\ server' = "refused"
          /\ UNCHANGED <<masterVars, req, session, script, logins, scripts, starts, torn, crossed>>
      BY <1>2 DEF CreateUser, masterVars
    <2>2. MasterInv'
      BY <2>1, MasterUntouched DEF Inv
    <2>3. crossed
      BY <1>2, <2>1, AccountsAssumption DEF Inv, StartInv, NoUsers, FlowTypes
    <2>4. HasUser(BootCode)
      BY <1>2, AccountsAssumption DEF HasUser
    <2>5. StartInv'
      BY <2>1, <2>3, <2>4 DEF Inv, StartInv, FlowTypes, HasUser, NoUsers, masterVars
    <2> QED
      BY <1>1, <2>2, <2>5 DEF Inv
  <1>3. CASE users[BootCode][BootEmail] = None
    <2>1. /\ server = "user" /\ server' = "up" /\ WriteUser(BootCode, BootEmail, BootPassword)
          /\ UNCHANGED <<tenants, script, logins, scripts, starts, torn, crossed>>
      BY <1>3 DEF CreateUser
    <2>2. /\ MasterInv'
          /\ \A d \in Code, f \in Email :
               users'[d][f] = IF d = BootCode /\ f = BootEmail THEN BootPassword ELSE users[d][f]
      BY <2>1, WriteUserKeeps, AccountsAssumption DEF Inv, StartInv
    <2>3. BootPassword # None
      BY AccountsAssumption
    <2>4. \A c \in Code : (HasUser(c) => HasUser(c)') /\ HasUser(BootCode)'
      BY <2>2, <2>3, AccountsAssumption DEF HasUser
    <2>5. StartInv'
      BY <2>1, <2>4, AccountsAssumption DEF Inv, StartInv, FlowTypes
    <2> QED
      BY <1>1, <2>2, <2>5 DEF Inv
  <1> QED
    BY <1>2, <1>3

LEMMA CrashKeeps == ASSUME Inv, Crash PROVE Inv'
  <1>1. LimitInv'
    BY CrashKeepsLimit DEF Inv
  <1>2. MasterInv'
    <2>1. /\ req' = [r \in Request |-> Idle]
          /\ tenants' = tenants /\ users' = users /\ session' = session
      BY DEF Crash, masterVars
    <2> QED
      BY <2>1 DEF Inv, MasterInv, MasterTypes, LoginsOn, LoginOn
  <1>3. StartInv'
    BY DEF Inv, StartInv, FlowTypes, Crash, HasUser, NoUsers, masterVars
  <1> QED
    BY <1>1, <1>2, <1>3 DEF Inv

\* A script leaves its tenant to be given a user, and is seen by a start.
LEMMA BootstrapTenantKeeps ==
    ASSUME Inv, NEW c \in Code, NEW db \in Db, NEW e \in Email, NEW p \in Password,
           BootstrapTenant(c, db, e, p)
    PROVE  Inv'
  <1>1. LimitInv'
    BY LimitUntouched DEF Inv, BootstrapTenant
  <1>2. /\ script = Idle /\ scripts < MaxScripts /\ scripts' = scripts + 1
        /\ WriteTenant(c, db)
        /\ script' = [step |-> "user", code |-> c, email |-> e, password |-> p]
        /\ crossed' = (crossed \/ server \in {"starting", "tenant", "user"})
        /\ UNCHANGED <<users, server, logins, starts, torn>>
    BY DEF BootstrapTenant
  <1>3. /\ MasterInv'
        /\ \A d \in Code : tenants'[d] = IF d = c THEN db ELSE tenants[d]
    BY <1>2, WriteTenantKeeps DEF Inv
  <1>4. /\ script' \in Script /\ script'.code = c /\ script' # Idle /\ db # None
        /\ scripts' \in 0 .. MaxScripts
    BY <1>2, ScriptIsNotIdle, AccountsAssumption DEF Script, Inv, StartInv, FlowTypes
  <1>5. crossed' \in BOOLEAN
    BY <1>2
  <1>6. FlowTypes'
    BY <1>2, <1>4, <1>5 DEF Inv, StartInv, FlowTypes
  <1>7. StartInv'
    BY <1>2, <1>3, <1>4, <1>6, AccountsAssumption DEF Inv, StartInv, HasUser
  <1> QED
    BY <1>1, <1>3, <1>7 DEF Inv

LEMMA BootstrapUserKeeps == ASSUME Inv, BootstrapUser PROVE Inv'
  <1>1. LimitInv'
    BY LimitUntouched DEF Inv, BootstrapUser
  <1>2. /\ script # Idle /\ script' = Idle
        /\ WriteUser(script.code, script.email, script.password)
        /\ crossed' = (crossed \/ server \in {"starting", "tenant", "user"})
        /\ UNCHANGED <<tenants, server, logins, scripts, starts, torn>>
    BY DEF BootstrapUser
  <1>3. /\ script.code \in Code /\ script.email \in Email /\ script.password \in Password
        /\ script.password # None /\ tenants[script.code] # None
    BY <1>2, AccountsAssumption DEF Inv, StartInv, FlowTypes, Script
  <1>4. /\ MasterInv'
        /\ \A d \in Code, f \in Email :
             users'[d][f] = IF d = script.code /\ f = script.email THEN script.password
                            ELSE users[d][f]
    BY <1>2, <1>3, WriteUserKeeps DEF Inv
  <1>5. \A c \in Code : HasUser(c) \/ c = script.code => HasUser(c)'
    BY <1>3, <1>4 DEF HasUser
  <1>6. crossed' \in BOOLEAN
    BY <1>2
  <1>7. FlowTypes'
    BY <1>2, <1>6 DEF Inv, StartInv, FlowTypes
  <1>8. StartInv'
    BY <1>2, <1>3, <1>5, <1>7 DEF Inv, StartInv
  <1> QED
    BY <1>1, <1>4, <1>8 DEF Inv

LEMMA ScriptDiesKeeps == ASSUME Inv, ScriptDies PROVE Inv'
  <1>1. LimitInv'
    BY LimitUntouched DEF Inv, ScriptDies
  <1>2. MasterInv'
    BY MasterUntouched DEF Inv, ScriptDies
  <1>3. StartInv'
    BY DEF Inv, StartInv, FlowTypes, ScriptDies, HasUser, NoUsers, masterVars
  <1> QED
    BY <1>1, <1>2, <1>3 DEF Inv

LEMMA RunCreateUserKeeps ==
    ASSUME Inv, NEW c \in Code, NEW e \in Email, NEW p \in Password, RunCreateUser(c, e, p)
    PROVE  Inv'
  <1>1. LimitInv'
    BY LimitUntouched DEF Inv, RunCreateUser
  <1>2. /\ tenants[c] # None /\ scripts < MaxScripts /\ scripts' = scripts + 1
        /\ WriteUser(c, e, p)
        /\ crossed' = (crossed \/ server \in {"starting", "tenant", "user"})
        /\ UNCHANGED <<tenants, server, script, logins, starts, torn>>
    BY DEF RunCreateUser
  <1>3. /\ MasterInv'
        /\ \A d \in Code, f \in Email : users'[d][f] = IF d = c /\ f = e THEN p ELSE users[d][f]
    BY <1>2, WriteUserKeeps DEF Inv
  <1>4. \A d \in Code : HasUser(d) => HasUser(d)'
    BY <1>3, AccountsAssumption DEF HasUser
  <1>5. crossed' \in BOOLEAN /\ scripts' \in 0 .. MaxScripts
    BY <1>2, AccountsAssumption DEF Inv, StartInv, FlowTypes
  <1>6. FlowTypes'
    BY <1>2, <1>5 DEF Inv, StartInv, FlowTypes
  <1>7. StartInv'
    BY <1>2, <1>4, <1>6 DEF Inv, StartInv
  <1> QED
    BY <1>1, <1>3, <1>7 DEF Inv

-----------------------------------------------------------------------------
(***************************************************************************)
(* The login.                                                              *)
(***************************************************************************)
LEMMA AttemptKeeps ==
    ASSUME Inv, NEW r \in Request, NEW ip \in Ip, NEW e \in Email \cup {None},
           NEW p \in Password, NEW c \in Code \cup {None}, Attempt(r, ip, e, p, c)
    PROVE  Inv'
  <1>1. LimitInv'
    BY AttemptKeepsLimit DEF Inv, Attempt
  <1>2. StartInv'
    BY AttemptKeepsStart DEF Inv, Attempt
  <1> DEFINE login == [step |-> "tenant", email |-> e, password |-> p, code |-> c,
                       guessed |-> c = None, db |-> None, moved |-> {}, changed |-> {}]
  <1>3. e # None => LoginOn(tenants, users, login)
    <2>1. (c = None) \in BOOLEAN
      OBVIOUS
    <2>2. e # None => login \in Login
      BY <2>1 DEF Login
    <2>3. login.step = "tenant" /\ (login.guessed => login.code = None)
      OBVIOUS
    <2> QED
      BY <2>2, <2>3 DEF LoginOn
  <1>4. LoginOn(tenants, users, Idle)
    BY DEF LoginOn
  <1>5. (Become(r, login) /\ e # None) \/ Become(r, Idle)
    BY DEF Attempt
  <1>6. MasterInv'
    BY <1>3, <1>4, <1>5, LoginContinues DEF Inv, Attempt
  <1> QED
    BY <1>1, <1>2, <1>6 DEF Inv

LEMMA ResolveTenantKeeps ==
    ASSUME Inv, NEW r \in Request, ResolveTenant(r)
    PROVE  Inv'
  <1>1. LimitInv' /\ StartInv'
    BY LimitUntouched, StartUntouched DEF Inv, ResolveTenant
  <1>2. LoginOn(tenants, users, Idle)
    BY DEF LoginOn
  <1>3. ASSUME NEW c \in Code, TenantsFor(req[r]) = {c}
        PROVE  LoginOn(tenants, users,
                       [req[r] EXCEPT !.step = "user", !.code = c, !.db = tenants[c]])
    <2> DEFINE login == [req[r] EXCEPT !.step = "user", !.code = c, !.db = tenants[c]]
    <2>1. req[r] \in Login /\ req[r] # Idle
      <3>1. req[r].step = "tenant"
        BY DEF ResolveTenant
      <3> QED
        BY <3>1 DEF Inv, MasterInv, LoginsOn, Idle
    <2>2. tenants[c] \in Db \cup {None}
      BY DEF Inv, MasterInv, MasterTypes
    <2>3. /\ login \in Login /\ login.code = c /\ login.db = tenants[c]
          /\ login.email = req[r].email /\ login.guessed = req[r].guessed
          /\ login.changed = req[r].changed
      BY <2>1, <2>2 DEF Login
    <2>4. req[r].email \in Email
      BY <2>1 DEF Login
    <2>5. c # None
      BY AccountsAssumption
    <2>6. tenants[c] # None /\ (req[r].guessed => \A d \in Code \ {c} : users[d][req[r].email] = None)
      <3>1. CASE req[r].code # None
        <4>1. tenants[c] # None
          BY <1>3, <3>1 DEF TenantsFor
        <4>2. ~req[r].guessed
          BY <2>1, <3>1 DEF Inv, MasterInv, LoginsOn, LoginOn, ResolveTenant
        <4> QED
          BY <4>1, <4>2
      <3>2. CASE req[r].code = None
        <4>1. {c} = {d \in Code : users[d][req[r].email] # None}
          BY <1>3, <3>2 DEF TenantsFor
        <4> QED
          BY <2>4, <4>1 DEF Inv, MasterInv, MasterTypes
      <3> QED
        BY <3>1, <3>2
    <2> HIDE DEF login
    <2> QED
      BY <2>3, <2>5, <2>6 DEF LoginOn, OnlyOne, login
  <1>4. MasterInv'
    BY <1>2, <1>3, LoginContinues DEF Inv, ResolveTenant
  <1> QED
    BY <1>1, <1>4 DEF Inv

\* A session begins with what the login has read, and the password of the account.
LEMMA IssueKeeps ==
    ASSUME Inv, NEW r \in Request, Issue(r)
    PROVE  Inv'
  <1> DEFINE login == req[r]
             issued == [code |-> login.code, email |-> login.email,
                        password |-> login.password, db |-> login.db,
                        exp |-> (now + Ttl) \div Second, key |-> SigningKey,
                        issued |-> now, guessed |-> login.guessed,
                        moved |-> login.moved, changed |-> login.changed]
  <1>1. LimitInv' /\ StartInv'
    BY LimitUntouched, StartUntouched DEF Inv, Issue
  <1>2. /\ login \in Login /\ login.step = "user" /\ LoginOn(tenants, users, login)
        /\ login # Idle
    <2>1. login.step = "user"
      BY DEF Issue
    <2>2. login # Idle
      BY <2>1 DEF Idle
    <2> QED
      BY <2>1, <2>2 DEF Inv, MasterInv, LoginsOn
  <1>3. /\ Become(r, Idle) /\ UNCHANGED masterVars
        /\ \/ /\ users[login.code][login.email] = login.password
              /\ session' = issued
           \/ UNCHANGED session
    BY DEF Issue, masterVars
  <1>4. ASSUME users[login.code][login.email] = login.password
        PROVE  SessionOn(tenants, users, issued)
    <2>1. /\ login.code \in Code /\ login.db \in Db
          /\ login.db # tenants[login.code] => login.code \in login.moved
          /\ OnlyOne(users, login)
      BY <1>2 DEF LoginOn, Login
    <2>2. now \in Nat /\ Second \in Nat \ {0} /\ Ttl \in Nat /\ SigningKey \in Nat
      BY RateLimitAssumption, AccountsAssumption
         DEF Inv, LimitInv, RateLimitTypes, StartInv, FlowTypes, SigningKey
    <2>3. (now + Ttl) \div Second \in Nat
      BY <2>2
    <2>4. issued \in Session
      BY <1>2, <2>1, <2>2, <2>3 DEF Login, Session
    <2>5. /\ issued.code = login.code /\ issued.email = login.email
          /\ issued.password = login.password /\ issued.db = login.db
          /\ issued.guessed = login.guessed /\ issued.moved = login.moved
          /\ issued.changed = login.changed
          /\ issued.exp = (issued.issued + Ttl) \div Second
      OBVIOUS
    <2> HIDE DEF issued, login
    <2> QED
      BY <1>4, <2>1, <2>4, <2>5 DEF SessionOn, OnlyOne
  <1> HIDE DEF issued, login
  <1>5. /\ req' = [req EXCEPT ![r] = Idle] /\ tenants' = tenants /\ users' = users
    BY <1>3 DEF Become, masterVars
  <1>6. SessionOn(tenants, users, session')
    BY <1>3, <1>4 DEF Inv, MasterInv
  <1>7. MasterInv'
    BY <1>5, <1>6 DEF Inv, MasterInv, MasterTypes, LoginsOn, LoginOn
  <1> QED
    BY <1>1, <1>7 DEF Inv

LEMMA AbortKeeps ==
    ASSUME Inv, NEW r \in Request, Abort(r)
    PROVE  Inv'
  <1>1. LimitInv' /\ StartInv'
    BY LimitUntouched, StartUntouched DEF Inv, Abort
  <1>2. LoginOn(tenants, users, Idle)
    BY DEF LoginOn
  <1>3. MasterInv'
    BY <1>2, LoginContinues DEF Inv, Abort
  <1> QED
    BY <1>1, <1>3 DEF Inv

LEMMA TickKeeps == ASSUME Inv, TickAll PROVE Inv'
  <1>1. LimitInv'
    BY TickKeepsLimit DEF Inv, TickAll
  <1>2. MasterInv' /\ StartInv'
    BY MasterUntouched, StartUntouched DEF Inv, TickAll
  <1> QED
    BY <1>1, <1>2 DEF Inv

LEMMA NextKeeps == ASSUME Inv, [Next]_vars PROVE Inv'
  <1>1. CASE Start \/ CountUsers \/ CreateTenant \/ CreateUser \/ Crash
    BY <1>1, StartKeeps, CountUsersKeeps, CreateTenantKeeps, CreateUserKeeps, CrashKeeps
  <1>2. ASSUME NEW c \in Code, NEW e \in Email, NEW p \in Password,
               \/ \E db \in Db : BootstrapTenant(c, db, e, p)
               \/ RunCreateUser(c, e, p)
        PROVE  Inv'
    BY <1>2, BootstrapTenantKeeps, RunCreateUserKeeps
  <1>3. CASE BootstrapUser \/ ScriptDies
    BY <1>3, BootstrapUserKeeps, ScriptDiesKeeps
  <1>4. ASSUME NEW r \in Request,
               \/ \E ip \in Ip, e \in Email \cup {None}, p \in Password, c \in Code \cup {None} :
                    Attempt(r, ip, e, p, c)
               \/ ResolveTenant(r) \/ Issue(r) \/ Abort(r)
        PROVE  Inv'
    BY <1>4, AttemptKeeps, ResolveTenantKeeps, IssueKeeps, AbortKeeps
  <1>5. CASE TickAll
    BY <1>5, TickKeeps
  <1>6. CASE UNCHANGED vars
    <2>1. /\ UNCHANGED <<now, limitVars>> /\ UNCHANGED <<masterVars, req, session>>
          /\ UNCHANGED <<masterVars, server, script, logins, scripts, starts, torn, crossed>>
      BY <1>6 DEF vars
    <2> QED
      BY <2>1, LimitUntouched, MasterUntouched, StartUntouched DEF Inv
  <1> QED
    BY <1>1, <1>2, <1>3, <1>4, <1>5, <1>6 DEF Next

LEMMA Invariant == Spec => []Inv
  <1>1. Init => Inv
    BY Initially
  <1>2. Inv /\ [Next]_vars => Inv'
    BY NextKeeps
  <1> QED
    BY <1>1, <1>2, PTL DEF Spec

LEMMA BurstsUntouched ==
    ASSUME BurstInv, UNCHANGED <<now, limitVars>>
    PROVE  BurstInv'
  BY DEF BurstInv, BurstOn, Live, limitVars

LEMMA BurstStep == ASSUME Inv, BurstInv, [Next]_vars PROVE BurstInv'
  <1>1. ASSUME NEW r \in Request, NEW ip \in Ip, NEW e \in Email \cup {None},
               NEW p \in Password, NEW c \in Code \cup {None}, Attempt(r, ip, e, p, c)
        PROVE  BurstInv'
    BY <1>1, AttemptKeepsBursts DEF Inv, Attempt
  <1>2. CASE Crash
    BY <1>2, CrashKeepsBursts
  <1>3. CASE TickAll
    BY <1>3, TickKeepsBursts DEF Inv, TickAll
  <1>4. CASE \/ Start \/ CountUsers \/ CreateTenant \/ CreateUser
             \/ BootstrapUser \/ ScriptDies \/ UNCHANGED vars
    BY <1>4, BurstsUntouched
       DEF Start, CountUsers, CreateTenant, CreateUser, BootstrapUser, ScriptDies, vars
  <1>5. ASSUME NEW c \in Code, NEW e \in Email, NEW p \in Password,
               \/ \E db \in Db : BootstrapTenant(c, db, e, p)
               \/ RunCreateUser(c, e, p)
        PROVE  BurstInv'
    BY <1>5, BurstsUntouched DEF BootstrapTenant, RunCreateUser
  <1>6. ASSUME NEW r \in Request, ResolveTenant(r) \/ Issue(r) \/ Abort(r)
        PROVE  BurstInv'
    BY <1>6, BurstsUntouched DEF ResolveTenant, Issue, Abort
  <1> QED
    BY <1>1, <1>2, <1>3, <1>4, <1>5, <1>6 DEF Next

LEMMA BurstInvariant == Spec => [](LimitInv /\ BurstInv)
  <1>1. Init => BurstInv
    BY BurstInitially DEF Init
  <1>2. Inv /\ BurstInv /\ [Next]_vars => BurstInv'
    BY BurstStep
  <1>3. Inv => LimitInv
    BY DEF Inv
  <1> QED
    BY <1>1, <1>2, <1>3, Invariant, PTL DEF Spec

-----------------------------------------------------------------------------
\* The types of Accounts and LoginRateLimit: an account is always one of a tenant,
\* and a login past its first query knows a tenant and its database.
THEOREM TypeCorrect == Spec => []TypeOK
  BY Invariant, InvTypes, PTL

\* Whoever waits as long as Retry-After said is refused, if at all, by a bucket
\* that was made after the one that refused it.
THEOREM RetryAfterAlwaysEnough == Spec => []RetryAfterIsEnough
  <1>1. Inv => RetryAfterIsEnough
    BY RetryAfterEnough DEF Inv
  <1> QED
    BY <1>1, Invariant, PTL

\* In any stretch of time as long as a window an address, alone or with an email, is
\* let through less than twice as often as one bucket allows, wherever the buckets
\* begin and end and whatever they refuse.
THEOREM BurstsAlwaysBounded == Spec => []BurstsBounded
  BY BurstInvariant, BurstsAreBounded, PTL

\* Nobody is refused by a bucket that has not let through all it may since it was
\* made: a refused attempt takes nothing from those that come after.
THEOREM OnlyRefusedWhenFull == Spec => []RefusedOnlyWhenFull
  BY BurstInvariant, RefusedWhenFull, PTL

\* However logins, scripts and restarts meet, a session that is believed is no older
\* than the time to live, and what it says was so when its login began, or since.
THEOREM SessionsAlwaysAgeOut == Spec => []SessionsAgeOut
  <1>1. Inv => SessionsAgeOut
    <2> SUFFICES ASSUME Inv, Believed(session)
                 PROVE  /\ session.db # tenants[session.code] => session.code \in session.moved
                        /\ session.password # users[session.code][session.email] =>
                             session.code \in session.changed
                        /\ now <= session.issued + Ttl
      BY DEF SessionsAgeOut
    <2>1. session \in Session /\ SessionOn(tenants, users, session) /\ session # Idle
      BY DEF Inv, MasterInv, SessionOn, Believed
    <2>2. now <= session.issued + Ttl
      <3> DEFINE end == session.issued + Ttl
      <3>1. end \in Nat /\ now \in Nat /\ Second \in Nat /\ Second > 0
        BY <2>1, RateLimitAssumption, AccountsAssumption
           DEF Session, Inv, LimitInv, RateLimitTypes
      <3>2. (end \div Second) * Second >= now
        BY <2>1 DEF SessionOn, Believed
      <3> HIDE DEF end
      <3>3. (end \div Second) * Second <= end /\ (end \div Second) * Second \in Nat
        BY <3>1
      <3> QED
        BY <3>1, <3>2, <3>3 DEF end
    <2> QED
      BY <2>1, <2>2 DEF SessionOn
  <1> QED
    BY <1>1, Invariant, PTL

\* A tenant that was guessed from an email was the only one that had it.
THEOREM GuessedTenantWasAlwaysOnly == Spec => []GuessedTenantWasOnly
  <1>1. Inv => GuessedTenantWasOnly
    BY DEF Inv, MasterInv, SessionOn, OnlyOne, GuessedTenantWasOnly
  <1> QED
    BY <1>1, Invariant, PTL

\* The server starts, unless somebody died between a tenant and its user or a script
\* wrote during the start.
THEOREM RefusedStartsExplained == Spec => []RefusedStartExplained
  <1>1. Inv => RefusedStartExplained
    BY DEF Inv, StartInv, RefusedStartExplained
  <1> QED
    BY <1>1, Invariant, PTL
=============================================================================
