--------------------------- MODULE LoginRateLimit ---------------------------
(***************************************************************************)
(* LoginRateLimitGuard: an attempt to log in counts in the bucket of its    *)
(* address and then, if it names an email, in that of the two together.     *)
(* A bucket is made by its first attempt, lasts for a window and lets       *)
(* MaxAttempts through; the guard runs without an await.                   *)
(***************************************************************************)
EXTENDS Naturals, FiniteSets, Functions

CONSTANTS Ip, Email,
          None,          \* the absence of an email, a tenant, an account, a session
          MaxAttempts,   \* maxAttempts
          Window,        \* windowMs, in ticks
          Second,        \* ticks of a second
          MaxTime        \* bound: the last instant

ASSUME RateLimitAssumption ==
    /\ None \notin Email
    /\ MaxAttempts \in Nat \ {0} /\ Window \in Nat \ {0} /\ Second \in Nat \ {0}
    /\ MaxTime \in Nat

VARIABLES now,
          buckets,   \* the buckets there are: count and resetAtMs
          recent,    \* history: by key and age a, how many were let through in the last a + 1 ticks
          told       \* history: by key, when someone was last refused, until when

limitVars == <<buckets, recent, told>>

\* ip:... and ip_email:...; counts beyond the one that is refused are all alike.
Key == [ip : Ip, email : Email \cup {None}]
Bucket == [count : 1 .. MaxAttempts + 1, resetAt : Nat]
Age == 0 .. Window - 1

RateLimitTypes ==
    /\ now \in 0 .. MaxTime
    /\ DOMAIN buckets \subseteq Key
    /\ \A key \in DOMAIN buckets :
         buckets[key] \in Bucket /\ buckets[key].resetAt <= now + Window
    /\ recent \in [Key -> [Age -> Nat]]
    /\ told \in [Key -> [at : 0 .. MaxTime, until : Nat]]

RateLimitInit ==
    /\ now = 0
    /\ buckets = << >>
    /\ recent = [key \in Key |-> [a \in Age |-> 0]]
    /\ told = [key \in Key |-> [at |-> 0, until |-> 0]]

Expired(bucket) == bucket.resetAt <= now

\* Mutant: every attempt begins the window anew.
CountedSliding(bucket) ==
    [bucket EXCEPT !.count = IF @ <= MaxAttempts THEN @ + 1 ELSE @, !.resetAt = now + Window]

Counted(bucket) == [bucket EXCEPT !.count = IF @ <= MaxAttempts THEN @ + 1 ELSE @]

\* prune, then hit.
Hit(bs, key) ==
    LET live == Restrict(bs, {k \in DOMAIN bs : ~Expired(bs[k])})
        hit  == IF key \in DOMAIN live THEN Counted(live[key])
                ELSE [count |-> 1, resetAt |-> now + Window]
    IN  [k \in DOMAIN live \cup {key} |-> IF k = key THEN hit ELSE live[k]]

\* Mutant: one more.
AllowedOneMore(bs, key) == bs[key].count <= MaxAttempts + 1

Allowed(bs, key) == bs[key].count <= MaxAttempts

\* Mutant: rounded down.
RetryAfterRoundedDown(bucket) == (bucket.resetAt - now) \div Second

\* retryAfterSeconds, rounded up.
RetryAfter(bucket) == (bucket.resetAt - now + Second - 1) \div Second

\* canActivate: an attempt that the first bucket refuses does not reach the other.
Guarded(ip, email) ==
    LET address == [ip |-> ip, email |-> None]
        both    == [ip |-> ip, email |-> email]
        first   == Hit(buckets, address)
        second  == IF email # None /\ Allowed(first, address) THEN Hit(first, both) ELSE first
        tried   == IF Allowed(first, address) THEN {address, both} ELSE {address}
        passed  == {key \in tried : Allowed(second, key)}
    IN  [buckets |-> second, allowed |-> passed = {address, both},
         passed  |-> passed, refused |-> tried \ passed]

Counting(guarded) ==
    /\ buckets' = guarded.buckets
    /\ recent' = [key \in Key |-> IF key \in guarded.passed THEN [a \in Age |-> recent[key][a] + 1]
                                  ELSE recent[key]]
    /\ told' = [key \in Key |->
                  IF key \in guarded.refused
                  THEN [at    |-> now,
                        until |-> now + Second * RetryAfter(guarded.buckets[key])]
                  ELSE told[key]]
    /\ UNCHANGED now

Tick ==
    /\ now < MaxTime
    /\ now' = now + 1
    /\ recent' = [key \in Key |-> [a \in Age |-> IF a = 0 THEN 0 ELSE recent[key][a - 1]]]
    /\ UNCHANGED <<buckets, told>>

-----------------------------------------------------------------------------
\* Properties.

\* The age of a bucket that is not over.
AgeOf(bucket) == now + Window - bucket.resetAt

\* The next attempt of this key would be refused.
Full(key) ==
    key \in DOMAIN buckets /\ ~Expired(buckets[key]) /\ buckets[key].count >= MaxAttempts

\* In any stretch of time as long as a window a key is let through less than twice
\* as often as a bucket allows: two buckets may meet in it, not with all of both.
BurstsBounded == \A key \in Key : recent[key][Window - 1] < 2 * MaxAttempts

\* A key is refused only while its bucket has let through all it may, less than a
\* window ago: what is refused neither counts nor puts off the end.
RefusedOnlyWhenFull ==
    \A key \in Key : Full(key) => recent[key][AgeOf(buckets[key])] >= MaxAttempts

\* Whoever comes back after Retry-After is not refused by the bucket that refused
\* it: if the key is full again, it is with attempts of a later bucket.
RetryAfterIsEnough ==
    \A key \in Key :
        Full(key) /\ told[key].until # 0 /\ told[key].until <= now
        => buckets[key].resetAt > told[key].at + Window
=============================================================================
