----------------------------- MODULE RateLimit -----------------------------
(***************************************************************************)
(* The multi-scope rate limiter of core/security/ratelimit.py: token       *)
(* buckets per agent, per IP address and one for all, made on demand and   *)
(* dropped by the cleanup of stale buckets.                                *)
(*                                                                         *)
(* A tick of the clock is the grain retry_after is rounded to.  Tokens are *)
(* counted in parts, Unit of which make one token, so that a refill of a   *)
(* tick is a whole number; the buckets of the code hold floats.            *)
(***************************************************************************)
EXTENDS Integers, Sequences, FiniteSetsExt

CONSTANTS Agents, Ips,
          Global,       \* the bucket of check_global
          ConfigOf,     \* the configuration of each key's scope
          Unit,         \* parts of one token
          None,
          MinRetry,     \* the 0.1 seconds retry_after is at least
          StaleAfter,   \* the 300 seconds of the cleanup
          MaxBuckets,   \* the 10000 buckets above which it runs
          MaxTime,      \* bound: the clock
          MaxGrants     \* bound: requests allowed per key

Keys == Agents \cup Ips \cup {Global}

Config == [rate: Nat, burst: Nat, cooldown: Nat]

Bucket == [tokens: Nat, refilled: Nat]

\* _bucket_key names the scope, so the keys of two scopes are never equal.
ASSUME RateLimitAssumption ==
  /\ Agents \cap Ips = {} /\ Global \notin Agents \cup Ips
  /\ None \notin Bucket /\ None \notin Nat /\ None \notin Keys
  /\ Unit \in Nat \ {0}
  /\ ConfigOf \in [Keys -> Config]
  /\ MinRetry \in Nat /\ StaleAfter \in Nat /\ MaxBuckets \in Nat
  /\ MaxTime \in Nat /\ MaxGrants \in Nat

VARIABLES buckets,   \* _buckets: a bucket for each key, or None
          now,       \* time.monotonic()
          last,      \* what the last check returned, and for which keys
          promise,   \* history: when a blocked key was first told to retry
          granted    \* history: when each key's requests were allowed

vars == <<buckets, now, last, promise, granted>>

NoResult == [allowed |-> TRUE, key |-> Global, retry |-> 0, waits |-> {}]

Init ==
  /\ buckets = [k \in Keys |-> None]
  /\ now = 0
  /\ last = NoResult
  /\ promise = [k \in Keys |-> None]
  /\ granted = [k \in Keys |-> <<>>]

-----------------------------------------------------------------------------
FullBucket(k) == [tokens |-> ConfigOf[k].burst, refilled |-> now]

\* Mutant: every bucket that has been touched before this tick is stale.
CleanedAtOnce(bs) ==
  [k \in Keys |-> IF bs[k] # None /\ now - bs[k].refilled > 0
                  THEN None ELSE bs[k]]

\* _cleanup_stale_buckets
Cleaned(bs) ==
  [k \in Keys |-> IF bs[k] # None /\ now - bs[k].refilled > StaleAfter
                  THEN None ELSE bs[k]]

\* _get_bucket: the buckets with one for k among them.
WithBucket(bs, k) ==
  IF bs[k] # None THEN bs
  ELSE LET made == [bs EXCEPT ![k] = FullBucket(k)]
       IN IF Cardinality({j \in Keys : made[j] # None}) > MaxBuckets
          THEN Cleaned(made) ELSE made

\* Mutant: the refill is cut to whole tokens.
RefilledWhole(bucket, k) ==
  LET tokens == bucket.tokens + (now - bucket.refilled) * ConfigOf[k].rate
  IN Min({ConfigOf[k].burst, (tokens \div Unit) * Unit})

\* The refill of consume.
Refilled(bucket, k) ==
  Min({ConfigOf[k].burst,
       bucket.tokens + (now - bucket.refilled) * ConfigOf[k].rate})

\* consume returns True.
Allows(bs, k) == Refilled(WithBucket(bs, k)[k], k) >= Unit

\* The buckets after consume.
Consumed(bs, k) ==
  LET held == WithBucket(bs, k)
      tokens == Refilled(held[k], k)
  IN [held EXCEPT ![k] =
        [tokens |-> IF tokens >= Unit THEN tokens - Unit ELSE tokens,
         refilled |-> now]]

\* retry_after of a blocked key: the time to the next whole token, rounded
\* to ticks, or the cooldown where no token ever comes; at least MinRetry.
RetryAfter(bs, k) ==
  LET missing == Unit - Consumed(bs, k)[k].tokens
      rate == ConfigOf[k].rate
  IN Max({MinRetry, IF rate > 0 THEN (2 * missing + rate) \div (2 * rate)
                    ELSE ConfigOf[k].cooldown})

-----------------------------------------------------------------------------
(***************************************************************************)
(* A check of one key or of several, in order.  Every scope is consumed,   *)
(* also after one has blocked, and the result is that of the first scope   *)
(* that blocks.  The keys of a check are distinct, so a bucket is consumed *)
(* once.                                                                   *)
(***************************************************************************)
AllConsumed(keys) ==
  LET after[i \in 0..Len(keys)] ==
        IF i = 0 THEN buckets ELSE Consumed(after[i - 1], keys[i])
  IN after

Check(keys) ==
  LET after == AllConsumed(keys)
      blocked == {i \in 1..Len(keys) : ~Allows(after[i - 1], keys[i])}
      wait(i) == RetryAfter(after[i - 1], keys[i])
      keyAt(k) == CHOOSE i \in 1..Len(keys) : keys[i] = k
      checked == {keys[i] : i \in 1..Len(keys)}
  IN /\ \A k \in checked : Len(granted[k]) < MaxGrants
     /\ buckets' = after[Len(keys)]
     /\ last' = IF blocked = {} THEN NoResult
                ELSE [allowed |-> FALSE, key |-> keys[Min(blocked)],
                      retry |-> wait(Min(blocked)),
                      waits |-> {wait(i) : i \in blocked}]
     /\ promise' = [k \in Keys |->
                      IF k \notin checked THEN promise[k]
                      ELSE IF keyAt(k) \notin blocked THEN None
                      ELSE IF promise[k] # None THEN promise[k]
                      ELSE now + wait(keyAt(k))]
     /\ granted' = [k \in Keys |->
                      IF k \in checked /\ keyAt(k) \notin blocked
                      THEN Append(granted[k], now) ELSE granted[k]]
     /\ UNCHANGED now

CheckAgent(a) == Check(<<a>>)
CheckIp(i) == Check(<<i>>)
CheckGlobal == Check(<<Global>>)

\* check_all, given an agent and an address, one of them or None.
CheckAll(a, i) ==
  Check((IF a = None THEN <<>> ELSE <<a>>) \o (IF i = None THEN <<>> ELSE <<i>>)
          \o <<Global>>)

\* reset drops the bucket, and with it what was granted from it.
Reset(k) ==
  /\ buckets[k] # None
  /\ buckets' = [buckets EXCEPT ![k] = None]
  /\ promise' = [promise EXCEPT ![k] = None]
  /\ granted' = [granted EXCEPT ![k] = <<>>]
  /\ UNCHANGED <<now, last>>

Tick ==
  /\ now < MaxTime
  /\ now' = now + 1
  /\ UNCHANGED <<buckets, last, promise, granted>>

Next ==
  \/ \E a \in Agents : CheckAgent(a)
  \/ \E i \in Ips : CheckIp(i)
  \/ CheckGlobal
  \/ \E a \in Agents \cup {None}, i \in Ips \cup {None} : CheckAll(a, i)
  \/ \E k \in Keys : Reset(k)
  \/ Tick

Spec == Init /\ [][Next]_vars
-----------------------------------------------------------------------------
(***************************************************************************)
(* Properties.                                                             *)
(***************************************************************************)

\* Every variable has its type; a bucket holds neither less than nothing
\* nor more than its burst.
TypeOK ==
  /\ buckets \in [Keys -> Bucket \cup {None}]
  /\ \A k \in Keys : buckets[k] # None => buckets[k].tokens <= ConfigOf[k].burst
  /\ now \in Nat
  /\ last \in [allowed: BOOLEAN, key: Keys, retry: Nat, waits: SUBSET Nat]
  /\ promise \in [Keys -> Nat \cup {None}]
  /\ granted \in [Keys -> Seq(Nat)]

\* A bucket that the cleanup drops as stale would have been full again.
StaleIsFull(k) == (StaleAfter + 1) * ConfigOf[k].rate >= ConfigOf[k].burst

\* "Tokens are added at requests_per_second rate.  Each request consumes one
\* token.  Bursts of up to burst_size tokens are allowed": over any stretch
\* of time a key gets no more than its burst and the rate for the stretch,
\* also when its bucket was dropped and made again.  (A key whose bucket takes
\* longer to fill than the cleanup waits gets its burst again from that.)
RateBound ==
  \A k \in Keys : StaleIsFull(k) =>
    \A j \in 1..Len(granted[k]) : \A i \in 1..j :
      (j - i + 1) * Unit
        <= ConfigOf[k].burst + (granted[k][j] - granted[k][i]) * ConfigOf[k].rate

\* Tokens come, and a whole one fits into the bucket.
Refills(k) == ConfigOf[k].rate > 0 /\ ConfigOf[k].burst >= Unit

\* A key that was blocked is served after the time it was told, and a tick
\* for the rounding, however often it has asked in between, if its bucket can
\* come to hold a token.  (A key of rate 0 is told its cooldown, one of a burst
\* below 1 the time a token takes, and neither is ever served for waiting.)
RetryIsServed ==
  \A k \in Keys :
    Refills(k) /\ promise[k] # None /\ now > promise[k] => Allows(buckets, k)

\* retry_after, "seconds to wait before retrying": a key that waits this long
\* is served.
RetryAfterIsEnough ==
  \A k \in Keys :
    promise[k] # None /\ now >= promise[k] => Allows(buckets, k)

\* check_all "returns the most restrictive result": of the scopes that block,
\* the one that takes longest to be free again.
MostRestrictive == \A wait \in last.waits : wait <= last.retry
=============================================================================
