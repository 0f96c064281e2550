--------------------------- MODULE RateLimitProofs ---------------------------
(***************************************************************************)
(* Proofs about the two limiters of ratelimit.py: the sliding window, for  *)
(* every limit, every length of the window and a wall clock that is set    *)
(* back and put forward by any amounts, and the token buckets, for every   *)
(* rate and burst, 0 too, and any number of agents and addresses.          *)
(***************************************************************************)
EXTENDS RateLimit, SlidingWindow, WellFoundedInduction, SequenceTheorems, TLAPS

(***************************************************************************)
(* The sliding window.                                                     *)
(***************************************************************************)
WindowAssumption ==
  /\ MaxRequests \in Nat /\ Window \in Nat
  /\ Steps \subseteq Nat
  /\ MaxForward \in Nat /\ MaxRequested \in Nat

\* A set of numbers has a least one.
LEMMA LeastNumber ==
  ASSUME NEW T, T \subseteq Nat, T # {}
  PROVE  \E n \in T : \A k \in T : n <= k
<1>1. PICK n \in T : \A k \in T : ~ (<<k, n>> \in OpToRel(<, Nat))
  BY NatLessThanWellFounded, WFMin
<1>2. \A k \in T : ~ (k < n)
  BY <1>1 DEF OpToRel
<1> QED BY <1>2

\* What Pruned drops is a prefix, and all of it is older than the window.
LEMMA PrunedDropsOld ==
  ASSUME WindowAssumption, timestamps \in Seq(Nat), wall \in Nat
  PROVE  \E q \in 0..Len(timestamps) :
           /\ Pruned \in Seq(Nat)
           /\ Len(Pruned) = Len(timestamps) - q
           /\ \A j \in 1..Len(Pruned) : Pruned[j] = timestamps[q + j]
           /\ \A i \in 1..q : timestamps[i] < wall - Window
<1> DEFINE kept == {i \in 1..Len(timestamps) : timestamps[i] >= wall - Window}
<1>1. Len(timestamps) \in Nat
  BY LenProperties
<1>2. \A i \in 1..Len(timestamps) : timestamps[i] \in Nat
  BY ElementOfSeq
<1>3. CASE kept = {}
  <2>1. Pruned = <<>>
    BY <1>3 DEF Pruned
  <2>2. \A i \in 1..Len(timestamps) : timestamps[i] < wall - Window
    BY <1>2, <1>3 DEF WindowAssumption
  <2>3. Pruned \in Seq(Nat) /\ Len(Pruned) = 0
    BY <2>1, EmptySeq
  <2> QED BY <1>1, <2>2, <2>3
<1>4. CASE kept # {}
  <2> DEFINE first == CHOOSE i \in kept : \A j \in kept : i <= j
  <2>1. first \in kept /\ \A j \in kept : first <= j
    <3>1. kept \subseteq Nat
      BY <1>1
    <3> QED BY <1>4, <3>1, LeastNumber
  <2>2. first \in 1..Len(timestamps)
    BY <2>1
  <2>3. Pruned = SubSeq(timestamps, first, Len(timestamps))
    BY <1>4 DEF Pruned
  <2>4. \A i \in 1..(first - 1) : timestamps[i] < wall - Window
    <3> SUFFICES ASSUME NEW i \in 1..(first - 1), timestamps[i] >= wall - Window
                 PROVE  FALSE
      <4>1. \A i \in 1..(first - 1) : timestamps[i] \in Nat
        BY <1>1, <1>2, <2>2
      <4> QED BY <4>1 DEF WindowAssumption
    <3>1. i \in kept
      BY <1>1, <2>2
    <3>2. first <= i
      BY <2>1, <3>1
    <3> HIDE DEF first
    <3> QED BY <1>1, <2>2, <3>2
  <2> HIDE DEF first, kept
  <2>5. \A i \in first..Len(timestamps) : timestamps[i] \in Nat
    BY <1>1, <1>2, <2>2
  <2>6. /\ Pruned \in Seq(Nat)
        /\ Len(Pruned) = Len(timestamps) - (first - 1)
        /\ \A j \in 1..Len(Pruned) : Pruned[j] = timestamps[(first - 1) + j]
    <3>1. first \in Int /\ Len(timestamps) \in Int /\ first <= Len(timestamps)
      BY <1>1, <2>2
    <3>2. /\ Pruned \in Seq(Nat)
          /\ Len(Pruned) = IF first <= Len(timestamps)
                             THEN Len(timestamps) - first + 1 ELSE 0
          /\ \A i \in 1..(Len(timestamps) - first + 1) :
               Pruned[i] = timestamps[first + i - 1]
      BY <2>3, <2>5, <3>1, SubSeqProperties
    <3> QED BY <3>1, <3>2
  <2>7. first - 1 \in 0..Len(timestamps)
    BY <1>1, <2>2
  <2> QED BY <2>4, <2>6, <2>7
<1> QED BY <1>3, <1>4
-----------------------------------------------------------------------------
(***************************************************************************)
(* The timestamps that are kept stand for the requests that were allowed   *)
(* last.  The clock may be set back, so a timestamp is never older by the  *)
(* clock than the clock has run forward since its request: it had run      *)
(* forward by more than the window since whatever was dropped.             *)
(***************************************************************************)
Dropped == Len(admitted) - Len(timestamps)

WindowInv ==
  /\ timestamps \in Seq(Nat) /\ admitted \in Seq(Nat)
  /\ wall \in Nat /\ forward \in Nat
  /\ Dropped \in Nat
  /\ \A i \in 1..Dropped : forward - admitted[i] > Window
  /\ \A j \in 1..Len(timestamps) :
       timestamps[j] - admitted[Dropped + j] >= wall - forward
  /\ WindowBound

LEMMA InitWindow == WindowAssumption /\ WindowInit => WindowInv
<1> SUFFICES ASSUME WindowAssumption, WindowInit PROVE WindowInv
  OBVIOUS
<1>1. timestamps \in Seq(Nat) /\ admitted \in Seq(Nat)
  BY EmptySeq DEF WindowInit
<1>2. Len(timestamps) = 0 /\ Len(admitted) = 0
  BY DEF WindowInit
<1> QED BY <1>1, <1>2 DEF WindowInit, WindowInv, WindowBound, Dropped, WindowAssumption

\* Pruning keeps the correspondence and drops only what is old.
LEMMA PruneStep ==
  ASSUME WindowAssumption, WindowInv
  PROVE  /\ Pruned \in Seq(Nat)
         /\ Len(admitted) - Len(Pruned) \in Nat
         /\ \A i \in 1..(Len(admitted) - Len(Pruned)) :
              forward - admitted[i] > Window
         /\ \A j \in 1..Len(Pruned) :
              Pruned[j] - admitted[Len(admitted) - Len(Pruned) + j]
                >= wall - forward
<1>1. PICK q \in 0..Len(timestamps) :
        /\ Pruned \in Seq(Nat)
        /\ Len(Pruned) = Len(timestamps) - q
        /\ \A j \in 1..Len(Pruned) : Pruned[j] = timestamps[q + j]
        /\ \A i \in 1..q : timestamps[i] < wall - Window
  BY PrunedDropsOld DEF WindowInv
<1>2. Len(timestamps) \in Nat /\ Len(admitted) \in Nat /\ Dropped \in Nat
  BY LenProperties DEF WindowInv
<1>3. \A i \in 1..Len(timestamps) : timestamps[i] \in Nat
  BY ElementOfSeq DEF WindowInv
<1>4. \A i \in 1..Len(admitted) : admitted[i] \in Nat
  BY ElementOfSeq DEF WindowInv
<1>5. Len(admitted) - Len(Pruned) = Dropped + q
  BY <1>1, <1>2 DEF Dropped
<1>6. ASSUME NEW i \in 1..(Dropped + q)
      PROVE  forward - admitted[i] > Window
  <2>1. CASE i <= Dropped
    BY <1>2, <2>1 DEF WindowInv
  <2>2. CASE i > Dropped
    <3> DEFINE j == i - Dropped
    <3>1. j \in 1..q /\ j \in 1..Len(timestamps) /\ i = Dropped + j
      BY <1>1, <1>2, <2>2
    <3>2. timestamps[j] - admitted[i] >= wall - forward
      BY <3>1 DEF WindowInv
    <3>3. timestamps[j] < wall - Window
      BY <1>1, <3>1
    <3>4. i \in 1..Len(admitted)
      BY <1>1, <1>2, <1>5
    <3>5. timestamps[j] \in Nat /\ admitted[i] \in Nat
      BY <1>3, <1>4, <3>1, <3>4
    <3>6. wall \in Nat /\ forward \in Nat /\ Window \in Nat
      BY DEF WindowInv, WindowAssumption
    <3> QED BY <3>2, <3>3, <3>5, <3>6
  <2> QED BY <1>1, <1>2, <2>1, <2>2
<1>7. ASSUME NEW j \in 1..Len(Pruned)
      PROVE  Pruned[j] - admitted[Dropped + q + j] >= wall - forward
  <2>1. q + j \in 1..Len(timestamps)
    BY <1>1, <1>2
  <2>2. timestamps[q + j] - admitted[Dropped + (q + j)] >= wall - forward
    BY <2>1 DEF WindowInv
  <2>3. Dropped + (q + j) = Dropped + q + j
    BY <1>1, <1>2
  <2> QED BY <1>1, <2>2, <2>3
<1>8. Dropped + q \in Nat
  BY <1>1, <1>2
<1>9. /\ \A i \in 1..(Dropped + q) : forward - admitted[i] > Window
      /\ \A j \in 1..Len(Pruned) :
           Pruned[j] - admitted[Dropped + q + j] >= wall - forward
  BY <1>6, <1>7
<1> QED BY <1>1, <1>5, <1>8, <1>9

\* A request that is refused only prunes.
LEMMA RefusedStep ==
  ASSUME WindowAssumption, WindowInv, Allow, Len(Pruned) >= MaxRequests
  PROVE  WindowInv'
<1>1. timestamps' = Pruned /\ UNCHANGED <<admitted, wall, forward>>
  BY DEF Allow
<1>2. Dropped' = Len(admitted) - Len(Pruned)
  BY <1>1 DEF Dropped
<1>3. WindowBound'
  BY <1>1 DEF WindowInv, WindowBound
<1> QED BY <1>1, <1>2, <1>3, PruneStep DEF WindowInv

\* One that is allowed joins at most max_requests - 1 others of its window.
LEMMA AllowedStep ==
  ASSUME WindowAssumption, WindowInv, Allow, ~(Len(Pruned) >= MaxRequests)
  PROVE  WindowInv'
<1> DEFINE k == Len(admitted) - Len(Pruned)
<1>1. /\ timestamps' = Append(Pruned, wall)
      /\ admitted' = Append(admitted, forward)
      /\ UNCHANGED <<wall, forward>>
  BY DEF Allow
<1>2. /\ Pruned \in Seq(Nat) /\ k \in Nat
      /\ \A i \in 1..k : forward - admitted[i] > Window
      /\ \A j \in 1..Len(Pruned) : Pruned[j] - admitted[k + j] >= wall - forward
  BY PruneStep
<1>3. /\ wall \in Nat /\ forward \in Nat /\ admitted \in Seq(Nat)
      /\ MaxRequests \in Nat /\ Window \in Nat
  BY DEF WindowInv, WindowAssumption
<1>4. /\ timestamps' \in Seq(Nat) /\ Len(timestamps') = Len(Pruned) + 1
      /\ \A j \in 1..Len(Pruned) : timestamps'[j] = Pruned[j]
      /\ timestamps'[Len(Pruned) + 1] = wall
  BY <1>1, <1>2, <1>3, AppendProperties
<1>5. /\ admitted' \in Seq(Nat) /\ Len(admitted') = Len(admitted) + 1
      /\ \A i \in 1..Len(admitted) : admitted'[i] = admitted[i]
      /\ admitted'[Len(admitted) + 1] = forward
  BY <1>1, <1>3, AppendProperties
<1>6. Len(Pruned) \in Nat /\ Len(admitted) \in Nat
  BY <1>2, <1>3, LenProperties
<1>7. Dropped' = k
  BY <1>4, <1>5, <1>6 DEF Dropped
<1>8. ASSUME NEW i \in 1..k PROVE forward - admitted'[i] > Window
  <2>1. i \in 1..Len(admitted)
    BY <1>2, <1>6
  <2> QED BY <1>2, <1>5, <2>1
<1>9. ASSUME NEW j \in 1..Len(timestamps')
      PROVE  timestamps'[j] - admitted'[k + j] >= wall - forward
  <2>1. CASE j \in 1..Len(Pruned)
    <3>1. k + j \in 1..Len(admitted)
      BY <1>2, <1>6, <2>1
    <3> QED BY <1>2, <1>4, <1>5, <2>1, <3>1
  <2>2. CASE j = Len(Pruned) + 1
    <3>1. k + j = Len(admitted) + 1
      BY <1>6, <2>2
    <3> QED BY <1>3, <1>4, <1>5, <2>2, <3>1
  <2> QED BY <1>4, <1>6, <2>1, <2>2
<1>10. WindowBound'
  <2> SUFFICES ASSUME NEW i \in 1..Len(admitted'),
                      i + MaxRequests <= Len(admitted')
               PROVE  admitted'[i + MaxRequests] - admitted'[i] > Window
    BY <1>1 DEF WindowBound
  <2>1. CASE i + MaxRequests <= Len(admitted)
    <3>1. i \in 1..Len(admitted) /\ i + MaxRequests \in 1..Len(admitted)
      BY <1>3, <1>6, <2>1
    <3>2. admitted[i + MaxRequests] - admitted[i] > Window
      BY <2>1, <3>1 DEF WindowInv, WindowBound
    <3> QED BY <1>5, <3>1, <3>2
  <2>2. CASE i + MaxRequests = Len(admitted) + 1
    <3>1. i \in 1..k /\ i \in 1..Len(admitted)
      BY <1>2, <1>3, <1>6, <2>2
    <3>2. admitted'[i + MaxRequests] = forward
      BY <1>5, <2>2
    <3>3. forward - admitted'[i] > Window
      BY <1>8, <3>1
    <3> QED BY <3>2, <3>3
  <2>3. i + MaxRequests <= Len(admitted) + 1 /\ i \in Int
    BY <1>5
  <2>4. i + MaxRequests <= Len(admitted) \/ i + MaxRequests = Len(admitted) + 1
    BY <1>3, <1>6, <2>3
  <2> QED BY <2>1, <2>2, <2>4
<1> HIDE DEF k
<1> QED BY <1>1, <1>2, <1>3, <1>4, <1>5, <1>7, <1>8, <1>9, <1>10 DEF WindowInv

\* What is later by the clock stays so when the clock is slower.
LEMMA StillLater ==
  ASSUME NEW stamp \in Nat, NEW real \in Nat,
         NEW a \in Nat, NEW b \in Nat, NEW c \in Nat, NEW d \in Nat,
         stamp - real >= a - b, c - d <= a - b
  PROVE  stamp - real >= c - d
OBVIOUS

\* The clock runs forward, by time or by a step, or it is set back.
LEMMA ClockStep ==
  ASSUME WindowAssumption, WindowInv, Elapse \/ \E d \in Steps : PutForward(d) \/ SetBack(d)
  PROVE  WindowInv'
<1>1. UNCHANGED <<timestamps, admitted>>
  BY DEF Elapse, PutForward, Advance, SetBack
<1>2. /\ wall' \in Nat /\ forward' \in Nat
      /\ forward <= forward' /\ wall' - forward' <= wall - forward
  BY DEF Elapse, PutForward, Advance, SetBack, WindowInv, WindowAssumption
<1>3. Dropped' = Dropped /\ Dropped \in Nat /\ Len(timestamps) \in Nat
      /\ Len(admitted) \in Nat
  BY <1>1, LenProperties DEF Dropped, WindowInv
<1>4. \A i \in 1..Len(admitted) : admitted[i] \in Nat
  BY ElementOfSeq DEF WindowInv
<1>5. \A j \in 1..Len(timestamps) : timestamps[j] \in Nat
  BY ElementOfSeq DEF WindowInv
<1>6. \A i \in 1..Dropped : forward' - admitted[i] > Window
  <2> SUFFICES ASSUME NEW i \in 1..Dropped PROVE forward' - admitted[i] > Window
    OBVIOUS
  <2>1. i \in 1..Len(admitted)
    BY <1>3 DEF Dropped
  <2>2. forward - admitted[i] > Window /\ admitted[i] \in Nat
    BY <1>4, <2>1 DEF WindowInv
  <2> QED BY <1>2, <2>2 DEF WindowInv, WindowAssumption
<1>7. \A j \in 1..Len(timestamps) :
        timestamps[j] - admitted[Dropped + j] >= wall' - forward'
  <2> SUFFICES ASSUME NEW j \in 1..Len(timestamps)
               PROVE  timestamps[j] - admitted[Dropped + j] >= wall' - forward'
    OBVIOUS
  <2> DEFINE stamp == timestamps[j]
             real == admitted[Dropped + j]
  <2>1. Dropped + j \in 1..Len(admitted)
    BY <1>3 DEF Dropped
  <2>2. stamp - real >= wall - forward
    BY DEF WindowInv
  <2>3. stamp \in Nat /\ real \in Nat
    BY <1>4, <1>5, <2>1
  <2>4. wall \in Nat /\ forward \in Nat
    BY DEF WindowInv
  <2> HIDE DEF stamp, real
  <2>5. stamp - real >= wall' - forward'
    BY <1>2, <2>2, <2>3, <2>4, StillLater
  <2> QED BY <2>5 DEF stamp, real
<1>8. WindowBound'
  BY <1>1 DEF WindowInv, WindowBound
<1> QED BY <1>1, <1>2, <1>3, <1>6, <1>7, <1>8 DEF WindowInv

\* For every limit and window: between a request that
\* SlidingWindowCounter.allow let through and the one max_requests later the
\* clock ran forward by more than the window, by the time that passed and what
\* it was put forward by, however it was set back in between.
THEOREM WindowAlwaysBounds ==
  ASSUME WindowAssumption PROVE WindowSpec => []WindowBound
<1>1. WindowInit => WindowInv
  BY InitWindow
<1>2. WindowInv /\ [WindowNext]_window => WindowInv'
  <2> SUFFICES ASSUME WindowInv, [WindowNext]_window PROVE WindowInv'
    OBVIOUS
  <2>1. CASE Allow
    BY <2>1, RefusedStep, AllowedStep
  <2>2. CASE Elapse \/ \E d \in Steps : PutForward(d) \/ SetBack(d)
    BY <2>2, ClockStep
  <2>3. CASE UNCHANGED window
    <3>1. UNCHANGED <<timestamps, wall, forward, admitted>>
      BY <2>3 DEF window
    <3> QED BY <3>1 DEF WindowInv, WindowBound, Dropped
  <2> QED BY <2>1, <2>2, <2>3 DEF WindowNext
<1>3. WindowInv => WindowBound
  BY DEF WindowInv
<1> QED BY <1>1, <1>2, <1>3, PTL DEF WindowSpec

-----------------------------------------------------------------------------
(***************************************************************************)
(* The token buckets.  What a bucket holds is what a request at time t     *)
(* would find in it after the refill; a bucket that is not there is as     *)
(* good as a full one.                                                     *)
(***************************************************************************)
Holds(bs, k, t) ==
  IF bs[k] = None THEN ConfigOf[k].burst
  ELSE Min({ConfigOf[k].burst,
            bs[k].tokens + (t - bs[k].refilled) * ConfigOf[k].rate})

\* The buckets have their types, none is over its burst or from the future.
BucketsOK(bs, t) ==
  /\ bs \in [Keys -> Bucket \cup {None}]
  /\ \A k \in Keys : bs[k] # None => /\ bs[k].tokens <= ConfigOf[k].burst
                                     /\ bs[k].refilled <= t

\* The cleanup can only help a key; where a stale bucket is full it does not
\* even do that.
NoLess(k, x, y) == x >= y /\ (StaleIsFull(k) => x = y)

\* What is left of v when a request has taken a token, if there is one.
Left(v) == IF v >= Unit THEN v - Unit ELSE v

\* The constants of a key.
LEMMA KeyConfig ==
  ASSUME NEW k \in Keys
  PROVE  /\ ConfigOf[k].rate \in Nat /\ ConfigOf[k].burst \in Nat
         /\ ConfigOf[k].cooldown \in Nat /\ Unit \in Nat \ {0}
         /\ StaleAfter \in Nat /\ MinRetry \in Nat /\ None \notin Bucket
<1>1. ConfigOf[k] \in Config
  BY RateLimitAssumption DEF RateLimitAssumption
<1>2. /\ ConfigOf[k].rate \in Nat /\ ConfigOf[k].burst \in Nat
      /\ ConfigOf[k].cooldown \in Nat
  BY <1>1 DEF Config
<1> QED BY <1>2, RateLimitAssumption DEF RateLimitAssumption

\* The smaller of two numbers.
LEMMA MinOfTwo ==
  ASSUME NEW x \in Nat, NEW y \in Nat
  PROVE  Min({x, y}) = IF x <= y THEN x ELSE y
BY DEF Min

\* The larger of two numbers.
LEMMA MaxOfTwo ==
  ASSUME NEW x \in Nat, NEW y \in Nat
  PROVE  Max({x, y}) = IF x <= y THEN y ELSE x
BY DEF Max

\* The arithmetic of a refill.
LEMMA HoldsValue ==
  ASSUME NEW k \in Keys, NEW t \in Nat, NEW bs, BucketsOK(bs, t)
  PROVE  /\ Holds(bs, k, t) \in Nat /\ Holds(bs, k, t) <= ConfigOf[k].burst
         /\ bs[k] = None => Holds(bs, k, t) = ConfigOf[k].burst
         /\ bs[k] # None =>
              LET more == bs[k].tokens + (t - bs[k].refilled) * ConfigOf[k].rate
              IN /\ more \in Nat
                 /\ Holds(bs, k, t) = IF ConfigOf[k].burst <= more
                                      THEN ConfigOf[k].burst ELSE more
<1>1. ConfigOf[k].rate \in Nat /\ ConfigOf[k].burst \in Nat
  BY KeyConfig
<1>2. CASE bs[k] = None
  BY <1>1, <1>2 DEF Holds
<1>3. CASE bs[k] # None
  <2>1. /\ bs[k].tokens \in Nat /\ bs[k].refilled \in Nat /\ bs[k].refilled <= t
    <3>1. bs[k] \in Bucket
      BY <1>3 DEF BucketsOK
    <3> QED BY <1>3, <3>1 DEF BucketsOK, Bucket
  <2> DEFINE wait == t - bs[k].refilled
             more == bs[k].tokens + wait * ConfigOf[k].rate
  <2>2. wait \in Nat
    BY <2>1
  <2>3. more \in Nat
    <3> HIDE DEF wait
    <3> QED BY <1>1, <2>1, <2>2
  <2>4. Holds(bs, k, t) = Min({ConfigOf[k].burst, more})
    BY <1>3 DEF Holds
  <2> HIDE DEF more
  <2>5. Min({ConfigOf[k].burst, more})
          = IF ConfigOf[k].burst <= more THEN ConfigOf[k].burst ELSE more
    BY <1>1, <2>3, MinOfTwo
  <2>6. Holds(bs, k, t) \in Nat /\ Holds(bs, k, t) <= ConfigOf[k].burst
    BY <1>1, <2>3, <2>4, <2>5
  <2> QED BY <1>3, <2>3, <2>4, <2>5, <2>6 DEF more
<1> QED BY <1>2, <1>3

\* A bucket that was stale and is dropped held no more than the new one, and
\* no less if it was full again.
LEMMA StaleHolds ==
  ASSUME NEW k \in Keys, NEW t \in Nat, NEW bs, BucketsOK(bs, t),
         bs[k] # None, t - bs[k].refilled > StaleAfter
  PROVE  NoLess(k, ConfigOf[k].burst, Holds(bs, k, t))
<1> DEFINE b == ConfigOf[k].burst
           r == ConfigOf[k].rate
           w == t - bs[k].refilled
           s == StaleAfter
           x == bs[k].tokens
<1>1. b \in Nat /\ r \in Nat /\ s \in Nat
  BY KeyConfig
<1>2. x \in Nat /\ w \in Nat
  <2>1. bs[k] \in Bucket
    BY DEF BucketsOK
  <2> QED BY <2>1 DEF BucketsOK, Bucket
<1>3. /\ Holds(bs, k, t) \in Nat /\ Holds(bs, k, t) <= b
      /\ Holds(bs, k, t) = IF b <= x + w * r THEN b ELSE x + w * r
  BY HoldsValue
<1>4. ASSUME StaleIsFull(k) PROVE b <= x + w * r
  <2>1. (s + 1) * r >= b /\ w >= s + 1
    BY <1>1, <1>2, <1>4 DEF StaleIsFull
  <2> HIDE DEF b, r, w, s, x
  <2>2. w * r >= (s + 1) * r
    <3>1. PICK d \in Nat : w = (s + 1) + d
      BY <1>1, <1>2, <2>1, w - (s + 1) \in Nat
    <3>2. w * r = (s + 1) * r + d * r /\ d * r \in Nat
      BY <1>1, <3>1
    <3>3. (s + 1) * r \in Nat
      BY <1>1
    <3> QED BY <3>2, <3>3
  <2>3. w * r \in Nat /\ (s + 1) * r \in Nat
    BY <1>1, <1>2
  <2> QED BY <1>1, <1>2, <2>1, <2>2, <2>3
<1> QED BY <1>1, <1>3, <1>4 DEF NoLess

\* _get_bucket: the key finds what it held, and the cleanup takes from no key.
LEMMA WithBucketKeeps ==
  ASSUME NEW bs, now \in Nat, BucketsOK(bs, now), NEW k \in Keys
  PROVE  LET held == WithBucket(bs, k)
         IN /\ BucketsOK(held, now) /\ held[k] # None
            /\ Holds(held, k, now) = Holds(bs, k, now)
            /\ \A j \in Keys \ {k} : NoLess(j, Holds(held, j, now), Holds(bs, j, now))
<1> DEFINE held == WithBucket(bs, k)
<1>0. \A j \in Keys : Holds(bs, j, now) \in Nat
  BY HoldsValue
<1>1. CASE bs[k] # None
  <2>1. held = bs
    BY <1>1 DEF WithBucket
  <2> HIDE DEF held
  <2> QED BY <1>0, <1>1, <2>1 DEF NoLess, held
<1>2. CASE bs[k] = None
  <2> DEFINE full == FullBucket(k)
             made == [bs EXCEPT ![k] = full]
  <2>1. /\ full \in Bucket /\ full # None /\ full.tokens = ConfigOf[k].burst
        /\ full.refilled = now
    BY KeyConfig DEF FullBucket, Bucket
  <2>2. /\ bs \in [Keys -> Bucket \cup {None}]
        /\ \A j \in Keys : made[j] = IF j = k THEN full ELSE bs[j]
        /\ made \in [Keys -> Bucket \cup {None}]
    BY <2>1 DEF BucketsOK
  <2> HIDE DEF full
  <2>3. BucketsOK(made, now)
    <3> HIDE DEF made
    <3>1. ConfigOf[k].burst \in Nat
      BY KeyConfig
    <3> QED BY <2>1, <2>2, <3>1 DEF BucketsOK
  <2>4. \A j \in Keys \ {k} : Holds(made, j, now) = Holds(bs, j, now)
    <3> HIDE DEF made
    <3> QED BY <2>2 DEF Holds
  <2>5. Holds(made, k, now) = ConfigOf[k].burst
    <3> HIDE DEF made
    <3>1. made[k] = full /\ made[k] # None
      BY <2>1, <2>2
    <3>2. (now - made[k].refilled) * ConfigOf[k].rate = 0
      <4>1. now - made[k].refilled = 0 /\ ConfigOf[k].rate \in Nat
        BY <2>1, <3>1, KeyConfig
      <4> QED BY <4>1
    <3> QED BY <2>1, <2>3, <3>1, <3>2, HoldsValue, KeyConfig
  <2>6. Holds(bs, k, now) = ConfigOf[k].burst
    BY <1>2 DEF Holds
  <2> HIDE DEF made
  <2>7. held = made \/ held = Cleaned(made)
    BY <1>2 DEF WithBucket, made, full
  <2> HIDE DEF held
  <2>8. CASE held = made
    BY <1>0, <2>1, <2>2, <2>3, <2>4, <2>5, <2>6, <2>8 DEF NoLess, held
  <2>9. CASE held = Cleaned(made)
    <3>1. \A j \in Keys : held[j] =
            IF made[j] # None /\ now - made[j].refilled > StaleAfter
            THEN None ELSE made[j]
      BY <2>9 DEF Cleaned
    <3>2. BucketsOK(held, now)
      <4>1. held \in [Keys -> Bucket \cup {None}]
        BY <2>2, <2>9 DEF Cleaned
      <4> QED BY <2>3, <3>1, <4>1 DEF BucketsOK
    <3>3. held[k] = made[k] /\ held[k] # None
      <4>1. made[k] = full /\ ~ (now - full.refilled > StaleAfter)
        BY <2>1, <2>2, KeyConfig
      <4> QED BY <2>1, <3>1, <4>1
    <3>4. Holds(held, k, now) = Holds(made, k, now)
      BY <3>3 DEF Holds
    <3>5. ASSUME NEW j \in Keys \ {k}
          PROVE  NoLess(j, Holds(held, j, now), Holds(made, j, now))
      <4>1. CASE made[j] # None /\ now - made[j].refilled > StaleAfter
        <5>1. Holds(held, j, now) = ConfigOf[j].burst
          BY <3>1, <4>1 DEF Holds
        <5> QED BY <2>3, <4>1, <5>1, StaleHolds
      <4>2. CASE ~ (made[j] # None /\ now - made[j].refilled > StaleAfter)
        <5>1. Holds(held, j, now) = Holds(made, j, now)
          BY <3>1, <4>2 DEF Holds
        <5>2. Holds(made, j, now) \in Nat
          BY <2>3, HoldsValue
        <5> QED BY <5>1, <5>2 DEF NoLess
      <4> QED BY <4>1, <4>2
    <3>6. \A j \in Keys \ {k} : NoLess(j, Holds(held, j, now), Holds(bs, j, now))
      BY <2>4, <3>5
    <3> QED BY <2>5, <2>6, <3>2, <3>3, <3>4, <3>6 DEF held
  <2> QED BY <2>7, <2>8, <2>9
<1> QED BY <1>1, <1>2

\* consume: the key has what it had, less the token it took; no other key
\* loses anything.
LEMMA ConsumedKeeps ==
  ASSUME NEW bs, now \in Nat, BucketsOK(bs, now), NEW k \in Keys
  PROVE  /\ BucketsOK(Consumed(bs, k), now)
         /\ Holds(Consumed(bs, k), k, now) = Left(Holds(bs, k, now))
         /\ Consumed(bs, k)[k].tokens = Left(Holds(bs, k, now))
         /\ \A j \in Keys \ {k} :
              NoLess(j, Holds(Consumed(bs, k), j, now), Holds(bs, j, now))
         /\ Allows(bs, k) <=> Holds(bs, k, now) >= Unit
<1> DEFINE held == WithBucket(bs, k)
           h == Refilled(held[k], k)
           cell == [tokens |-> Left(h), refilled |-> now]
           after == [held EXCEPT ![k] = cell]
<1>1. /\ BucketsOK(held, now) /\ held[k] # None
      /\ Holds(held, k, now) = Holds(bs, k, now)
      /\ \A j \in Keys \ {k} : NoLess(j, Holds(held, j, now), Holds(bs, j, now))
  BY WithBucketKeeps
<1>2. h = Holds(bs, k, now)
  <2> HIDE DEF held
  <2> QED BY <1>1 DEF Refilled, Holds
<1>3. Consumed(bs, k) = after
  BY DEF Consumed, Left
<1>4. Allows(bs, k) <=> h >= Unit
  BY DEF Allows
<1> HIDE DEF held, h
<1>5. /\ ConfigOf[k].rate \in Nat /\ ConfigOf[k].burst \in Nat
      /\ Unit \in Nat \ {0} /\ None \notin Bucket
  BY KeyConfig
<1>6. h \in Nat /\ h <= ConfigOf[k].burst
  BY <1>2, HoldsValue
<1>7. Left(h) \in Nat /\ Left(h) <= ConfigOf[k].burst
  BY <1>5, <1>6 DEF Left
<1>8. /\ cell \in Bucket /\ cell # None
      /\ cell.tokens = Left(h) /\ cell.refilled = now
  BY <1>5, <1>7 DEF Bucket
<1> HIDE DEF cell
<1>9. /\ after \in [Keys -> Bucket \cup {None}]
      /\ \A j \in Keys : after[j] = IF j = k THEN cell ELSE held[j]
  BY <1>1, <1>8 DEF BucketsOK
<1> HIDE DEF after
<1>10. BucketsOK(after, now)
  BY <1>1, <1>7, <1>8, <1>9 DEF BucketsOK
<1>11. Holds(after, k, now) = Left(h)
  <2>1. after[k] = cell /\ after[k] # None
    BY <1>8, <1>9
  <2>2. (now - after[k].refilled) * ConfigOf[k].rate = 0
    <3>1. now - after[k].refilled = 0
      BY <1>8, <2>1
    <3> QED BY <1>5, <3>1
  <2>3. after[k].tokens = Left(h)
    BY <1>8, <2>1
  <2> QED BY <1>5, <1>7, <1>10, <2>1, <2>2, <2>3, HoldsValue
<1>12. \A j \in Keys \ {k} : Holds(after, j, now) = Holds(held, j, now)
  BY <1>9 DEF Holds
<1> QED BY <1>1, <1>2, <1>3, <1>4, <1>8, <1>9, <1>10, <1>11, <1>12

\* The arithmetic of retry_after: the rate fills what is missing by one tick
\* after the rounded time.
LEMMA RoundedWait ==
  ASSUME NEW m \in Nat, NEW r \in Nat \ {0}, NEW least \in Nat,
         NEW w, w = Max({least, (2 * m + r) \div (2 * r)})
  PROVE  w \in Nat /\ m <= (w + 1) * r
<1> DEFINE n == 2 * m + r
           d == 2 * r
           q == n \div d
<1>1. n \in Nat /\ d \in Nat \ {0}
  OBVIOUS
<1>2. q \in Nat /\ n < (q + 1) * d
  <2> HIDE DEF n, d
  <2> QED BY <1>1
<1>3. w \in Nat /\ q <= w
  <2>1. w = Max({least, q})
    OBVIOUS
  <2> HIDE DEF q
  <2>2. w = IF least <= q THEN q ELSE least
    BY <1>2, <2>1, MaxOfTwo
  <2> QED BY <1>2, <2>2
<1> HIDE DEF q
<1>4. (q + 1) * d = 2 * ((q + 1) * r)
  BY <1>2
<1>5. (w + 1) * r >= (q + 1) * r
  <2>1. PICK e \in Nat : w = q + e
    BY <1>2, <1>3, w - q \in Nat
  <2>2. (w + 1) * r = (q + 1) * r + e * r /\ e * r \in Nat
    BY <1>2, <2>1
  <2> QED BY <1>2, <2>2, (q + 1) * r \in Nat
<1>6. (q + 1) * r \in Nat /\ (w + 1) * r \in Nat
  BY <1>2, <1>3
<1> QED BY <1>2, <1>3, <1>4, <1>5, <1>6

LEMMA RetryFills ==
  ASSUME NEW bs, now \in Nat, BucketsOK(bs, now), NEW k \in Keys,
         ~ Allows(bs, k)
  PROVE  /\ RetryAfter(bs, k) \in Nat
         /\ ConfigOf[k].rate > 0 =>
              Holds(bs, k, now) + (RetryAfter(bs, k) + 1) * ConfigOf[k].rate >= Unit
<1> DEFINE h == Holds(bs, k, now)
           w == RetryAfter(bs, k)
           r == ConfigOf[k].rate
<1>1. /\ r \in Nat /\ Unit \in Nat \ {0} /\ MinRetry \in Nat
      /\ ConfigOf[k].cooldown \in Nat
  BY KeyConfig
<1>2. h \in Nat
  BY HoldsValue
<1>3. h < Unit /\ Consumed(bs, k)[k].tokens = h
  <2> HIDE DEF h
  <2>1. ~ (h >= Unit) /\ Consumed(bs, k)[k].tokens = Left(h)
    BY ConsumedKeeps DEF h
  <2> QED BY <1>1, <1>2, <2>1 DEF Left
<1>4. w = Max({MinRetry, IF r > 0 THEN (2 * (Unit - h) + r) \div (2 * r)
                         ELSE ConfigOf[k].cooldown})
  <2> HIDE DEF h
  <2> QED BY <1>3 DEF RetryAfter
<1> HIDE DEF h, w, r
<1>5. Unit - h \in Nat
  BY <1>1, <1>2, <1>3
<1>6. CASE r > 0
  <2>1. w = Max({MinRetry, (2 * (Unit - h) + r) \div (2 * r)}) /\ r \in Nat \ {0}
    BY <1>1, <1>4, <1>6
  <2>2. w \in Nat /\ Unit - h <= (w + 1) * r
    BY <1>1, <1>5, <2>1, RoundedWait
  <2>3. (w + 1) * r \in Nat
    BY <1>1, <2>2
  <2>4. h + (w + 1) * r >= Unit
    BY <1>1, <1>2, <2>2, <2>3
  <2> QED BY <2>2, <2>4 DEF h, w, r
<1>7. CASE ~ (r > 0)
  <2>1. w = Max({MinRetry, ConfigOf[k].cooldown})
    BY <1>4, <1>7
  <2>2. w \in Nat
    BY <1>1, <2>1, MaxOfTwo
  <2> QED BY <1>7, <2>2 DEF w, r
<1> QED BY <1>6, <1>7
-----------------------------------------------------------------------------
(***************************************************************************)
(* A check of several scopes, one after the other.                         *)
(***************************************************************************)

\* A set of natural numbers that holds 0 and the successor of each of its
\* members holds them all.
LEMMA AllNaturals ==
  ASSUME NEW T, 0 \in T, \A n \in Nat : n \in T => n + 1 \in T
  PROVE  Nat \subseteq T
<1> SUFFICES ASSUME NEW m \in Nat, m \notin T PROVE FALSE
  OBVIOUS
<1> DEFINE Missing == {n \in Nat : n \notin T}
<1>1. Missing \subseteq Nat /\ Missing # {}
  OBVIOUS
<1>2. PICK k \in Missing : \A y \in Missing : ~ (<<y, k>> \in OpToRel(<, Nat))
  <2> HIDE DEF Missing
  <2> QED BY <1>1, NatLessThanWellFounded, WFMin
<1>3. \A y \in Missing : ~ (y < k)
  BY <1>1, <1>2 DEF OpToRel
<1>4. k # 0 /\ k \in Nat /\ k \notin T
  OBVIOUS
<1>5. k - 1 \in Nat /\ k - 1 \notin Missing
  BY <1>3, <1>4
<1>6. (k - 1) + 1 \in T
  BY <1>5
<1> QED BY <1>4, <1>6

\* The buckets after each of the scopes.
LEMMA ScopesUnfold ==
  ASSUME NEW keys \in Seq(Keys)
  PROVE  LET after == AllConsumed(keys)
         IN /\ after[0] = buckets
            /\ \A i \in 1..Len(keys) : after[i] = Consumed(after[i - 1], keys[i])
<1> DEFINE Step(f, i) == IF i = 0 THEN buckets ELSE Consumed(f[i - 1], keys[i])
           Ok(f, n) == f = [i \in 0..n |-> Step(f, i)]
\* The function AllConsumed is defined by exists.
<1>1. \E f : Ok(f, Len(keys))
  <2> DEFINE T == {n \in Nat : \E f : Ok(f, n)}
  <2>1. 0 \in T
    <3> DEFINE f == [i \in 0..0 |-> buckets]
    <3>1. Ok(f, 0)
      OBVIOUS
    <3> QED BY <3>1
  <2>2. ASSUME NEW n \in Nat, n \in T PROVE n + 1 \in T
    <3>1. PICK f : Ok(f, n)
      BY <2>2
    <3> DEFINE g == [i \in 0..(n + 1) |->
                       IF i = n + 1 THEN Step(f, n + 1) ELSE f[i]]
    <3>2. ASSUME NEW i \in 0..(n + 1) PROVE g[i] = Step(g, i)
      <4>a. \A j \in 0..n : f[j] = Step(f, j)
        <5> HIDE DEF Step
        <5> QED BY <3>1, Zenon
      <4>b. i # n + 1 => i \in 0..n
        OBVIOUS
      <4>1. i # n + 1 => g[i] = f[i] /\ f[i] = Step(f, i)
        <5> HIDE DEF Step, Ok
        <5> QED BY <4>a, <4>b
      <4>2. i # 0 => i - 1 \in 0..n /\ g[i - 1] = f[i - 1]
        OBVIOUS
      <4>3. g[n + 1] = Step(f, n + 1)
        OBVIOUS
      <4> HIDE DEF g, Ok
      <4> QED BY <4>1, <4>2, <4>3
    <3>3. Ok(g, n + 1)
      <4> SUFFICES g = [i \in 0..(n + 1) |-> Step(g, i)]
        OBVIOUS
      <4> DEFINE h == g
      <4>1. \A i \in 0..(n + 1) : h[i] = Step(h, i)
        <5> HIDE DEF Step, Ok
        <5> QED BY <3>2
      <4>2. h = [i \in 0..(n + 1) |-> h[i]]
        OBVIOUS
      <4> HIDE DEF Step, Ok, h
      <4>3. [i \in 0..(n + 1) |-> h[i]] = [i \in 0..(n + 1) |-> Step(h, i)]
        BY <4>1
      <4>4. h = [i \in 0..(n + 1) |-> Step(h, i)]
        BY <4>2, <4>3, Zenon
      <4> QED BY <4>4 DEF h
    <3> HIDE DEF g, Ok
    <3>4. \E k : Ok(k, n + 1)
      BY <3>3
    <3> QED BY <3>4
  <2>3. Nat \subseteq T
    <3> HIDE DEF T
    <3> QED BY <2>1, <2>2, AllNaturals
  <2> QED BY <2>3, Len(keys) \in Nat
<1> DEFINE after == CHOOSE f : Ok(f, Len(keys))
<1>2. Ok(after, Len(keys))
  BY <1>1
<1>3. AllConsumed(keys) = after
  BY DEF AllConsumed
<1> HIDE DEF after
<1>4. \A i \in 0..Len(keys) : after[i] = Step(after, i)
  <2> HIDE DEF Step
  <2> QED BY <1>2
<1>5. after[0] = buckets
  BY <1>4, Len(keys) \in Nat
<1>6. ASSUME NEW i \in 1..Len(keys)
      PROVE  after[i] = Consumed(after[i - 1], keys[i])
  <2>1. i \in 0..Len(keys) /\ i # 0
    OBVIOUS
  <2> QED BY <1>4, <2>1
<1> QED BY <1>3, <1>5, <1>6

\* Two steps that lose nothing lose nothing together.
LEMMA NoLessTwice ==
  ASSUME NEW k, NEW x \in Nat, NEW y \in Nat, NEW z \in Nat, NoLess(k, x, y), NoLess(k, y, z)
  PROVE  NoLess(k, x, z)
BY DEF NoLess

\* Of distinct scopes each loses its own token and no other, whatever comes
\* before and after it.
LEMMA ScopesInOrder ==
  ASSUME now \in Nat, BucketsOK(buckets, now), NEW keys \in Seq(Keys),
         \A i, j \in 1..Len(keys) : keys[i] = keys[j] => i = j
  PROVE  LET after == AllConsumed(keys)
         IN /\ \A i \in 0..Len(keys) : BucketsOK(after[i], now)
            /\ \A i \in 0..Len(keys) : \A k \in Keys :
                 (\A j \in 1..i : keys[j] # k) =>
                   NoLess(k, Holds(after[i], k, now), Holds(buckets, k, now))
            /\ \A i \in 0..Len(keys) : \A j \in 1..i :
                 NoLess(keys[j], Holds(after[i], keys[j], now),
                        Left(Holds(after[j - 1], keys[j], now)))
<1> DEFINE after == AllConsumed(keys)
<1>1. /\ after[0] = buckets
      /\ \A i \in 1..Len(keys) : after[i] = Consumed(after[i - 1], keys[i])
  BY ScopesUnfold
<1> HIDE DEF after
<1>2. Len(keys) \in Nat /\ \A i \in 1..Len(keys) : keys[i] \in Keys
  OBVIOUS
<1> DEFINE P(i) ==
             /\ BucketsOK(after[i], now)
             /\ \A k \in Keys : (\A j \in 1..i : keys[j] # k) =>
                  NoLess(k, Holds(after[i], k, now), Holds(buckets, k, now))
             /\ \A j \in 1..i :
                  NoLess(keys[j], Holds(after[i], keys[j], now),
                         Left(Holds(after[j - 1], keys[j], now)))
           T == {i \in Nat : i <= Len(keys) => \A j \in 0..i : P(j)}
<1>3. P(0)
  <2>1. \A k \in Keys : Holds(buckets, k, now) \in Nat
    BY HoldsValue
  <2>2. 1..0 = {}
    OBVIOUS
  <2> QED BY <1>1, <2>1, <2>2 DEF NoLess
<1>4. ASSUME NEW n \in Nat, n + 1 <= Len(keys), \A j \in 0..n : P(j)
      PROVE  P(n + 1)
  <2> DEFINE b == after[n]
             c == after[n + 1]
             key == keys[n + 1]
  <2>1. n + 1 \in 1..Len(keys) /\ n \in 0..n /\ (n + 1) - 1 = n
    BY <1>2, <1>4
  <2>2. key \in Keys /\ c = Consumed(b, key) /\ BucketsOK(b, now)
    <3>1. P(n)
      <4> HIDE DEF P
      <4> QED BY <1>4, <2>1
    <3> QED BY <1>1, <1>2, <2>1, <3>1
  <2>3. /\ BucketsOK(c, now)
        /\ Holds(c, key, now) = Left(Holds(b, key, now))
        /\ \A j \in Keys \ {key} : NoLess(j, Holds(c, j, now), Holds(b, j, now))
    <3> HIDE DEF b, c, key
    <3> QED BY <2>2, ConsumedKeeps
  <2>4. \A k \in Keys : /\ Holds(b, k, now) \in Nat /\ Holds(c, k, now) \in Nat
                        /\ Holds(buckets, k, now) \in Nat
    <3> HIDE DEF b, c, key
    <3> QED BY <2>2, <2>3, HoldsValue
  <2>5. ASSUME NEW k \in Keys, \A j \in 1..(n + 1) : keys[j] # k
        PROVE  NoLess(k, Holds(c, k, now), Holds(buckets, k, now))
    <3>1. k # key /\ \A j \in 1..n : keys[j] # k
      BY <2>1, <2>5
    <3>2. NoLess(k, Holds(b, k, now), Holds(buckets, k, now))
      BY <1>4, <2>1, <3>1
    <3> HIDE DEF b, c, key
    <3> QED BY <2>3, <2>4, <3>1, <3>2, NoLessTwice
  <2>6. ASSUME NEW j \in 1..(n + 1)
        PROVE  NoLess(keys[j], Holds(c, keys[j], now),
                      Left(Holds(after[j - 1], keys[j], now)))
    <3>1. CASE j = n + 1
      <4>1. Holds(c, keys[j], now) = Left(Holds(after[j - 1], keys[j], now))
        BY <2>1, <2>3, <3>1
      <4>2. Holds(c, keys[j], now) \in Nat
        BY <2>2, <2>4, <3>1
      <4> QED BY <4>1, <4>2 DEF NoLess
    <3>2. CASE j # n + 1
      <4> DEFINE k == keys[j]
                 left == Left(Holds(after[j - 1], k, now))
      <4>1. j \in 1..n /\ j \in 1..Len(keys) /\ j - 1 \in 0..n
        BY <1>2, <1>4, <3>2
      <4>2. k \in Keys /\ k # key
        BY <1>2, <2>1, <3>2, <4>1
      <4>3. NoLess(k, Holds(b, k, now), left)
        BY <1>4, <2>1, <4>1
      <4>4. left \in Nat
        <5>1. BucketsOK(after[j - 1], now)
          BY <1>4, <4>1
        <5> HIDE DEF k
        <5>2. Holds(after[j - 1], k, now) \in Nat
          BY <4>2, <5>1, HoldsValue
        <5> QED BY <4>2, <5>2, KeyConfig DEF Left
      <4> HIDE DEF b, c, key, k, left
      <4>5. NoLess(k, Holds(c, k, now), left)
        BY <2>3, <2>4, <4>2, <4>3, <4>4, NoLessTwice
      <4> QED BY <4>5 DEF k, left
    <3> QED BY <3>1, <3>2
  <2> HIDE DEF b, c, key
  <2>7. /\ BucketsOK(c, now)
        /\ \A k \in Keys : (\A j \in 1..(n + 1) : keys[j] # k) =>
             NoLess(k, Holds(c, k, now), Holds(buckets, k, now))
        /\ \A j \in 1..(n + 1) :
             NoLess(keys[j], Holds(c, keys[j], now),
                    Left(Holds(after[j - 1], keys[j], now)))
    BY <2>3, <2>5, <2>6, Zenon
  <2> QED BY <2>7, Zenon DEF c
<1>5. Nat \subseteq T
  <2> HIDE DEF P
  <2>1. 0 \in T
    BY <1>3
  <2>2. ASSUME NEW n \in Nat, n \in T PROVE n + 1 \in T
    <3> SUFFICES ASSUME n + 1 <= Len(keys) PROVE \A j \in 0..(n + 1) : P(j)
      OBVIOUS
    <3>1. \A j \in 0..n : P(j)
      BY <1>2, <2>2
    <3> QED BY <1>4, <3>1
  <2> HIDE DEF T
  <2> QED BY <2>1, <2>2, AllNaturals
<1>6. \A i \in 0..Len(keys) : P(i)
  <2> HIDE DEF P
  <2> QED BY <1>2, <1>5
<1> QED BY <1>6 DEF after
-----------------------------------------------------------------------------
(***************************************************************************)
(* What holds of a key whose bucket holds h at time t, which was told to   *)
(* be back at p and whose requests were granted at the times g.  The rate  *)
(* until p brings the token that was promised, if the key gets any.  What  *)
(* was granted since any request, and what is left, are within the burst   *)
(* and the rate since then: this is what makes the next grant, and no      *)
(* more, affordable.                                                       *)
(***************************************************************************)
Promised(k, h, t, p) ==
  Refills(k) /\ p # None => h >= Unit \/ h + ((p + 1) - t) * ConfigOf[k].rate >= Unit

Spent(k, h, t, g) ==
  \A i \in 1..Len(g) :
    (Len(g) - i + 1) * Unit + h <= ConfigOf[k].burst + (t - g[i]) * ConfigOf[k].rate

WithinBurst(k, g) ==
  \A j \in 1..Len(g) : \A i \in 1..j :
    (j - i + 1) * Unit <= ConfigOf[k].burst + (g[j] - g[i]) * ConfigOf[k].rate

KeyInv(k, h, t, p, g) ==
  /\ p \in Nat \cup {None} /\ g \in Seq(Nat)
  /\ \A i \in 1..Len(g) : g[i] <= t
  /\ Promised(k, h, t, p)
  /\ StaleIsFull(k) => Spent(k, h, t, g) /\ WithinBurst(k, g)

\* A key that is not asked for loses nothing.
LEMMA KeyUntouched ==
  ASSUME NEW k \in Keys, NEW h \in Nat, NEW h1 \in Nat, NEW t \in Nat,
         NEW p, NEW g, KeyInv(k, h, t, p, g), NoLess(k, h1, h)
  PROVE  KeyInv(k, h1, t, p, g)
<1> DEFINE r == ConfigOf[k].rate
<1>1. r \in Nat /\ Unit \in Nat
  BY KeyConfig
<1>2. Promised(k, h1, t, p)
  <2> SUFFICES ASSUME Refills(k), p # None
               PROVE  h1 >= Unit \/ h1 + ((p + 1) - t) * r >= Unit
    BY DEF Promised
  <2> DEFINE x == ((p + 1) - t) * r
  <2>1. p \in Nat /\ (h >= Unit \/ h + x >= Unit)
    BY DEF KeyInv, Promised
  <2>2. x \in Int
    <3>1. (p + 1) - t \in Int
      BY <2>1
    <3> QED BY <1>1, <3>1
  <2>3. h1 >= h
    BY DEF NoLess
  <2> HIDE DEF x
  <2>4. h1 >= Unit \/ h1 + x >= Unit
    BY <1>1, <2>1, <2>2, <2>3
  <2> QED BY <2>4 DEF x
<1>3. ASSUME StaleIsFull(k) PROVE Spent(k, h1, t, g) /\ WithinBurst(k, g)
  BY <1>3 DEF KeyInv, NoLess
<1> QED BY <1>2, <1>3 DEF KeyInv

\* A key that is blocked keeps what it has and its first promise.
LEMMA KeyBlocked ==
  ASSUME NEW k \in Keys, NEW h \in Nat, NEW h1 \in Nat, NEW t \in Nat,
         NEW p, NEW g, KeyInv(k, h, t, p, g),
         NEW hb \in Nat, NEW w \in Nat, NoLess(k, hb, h), NoLess(k, h1, hb),
         ConfigOf[k].rate > 0 => hb + (w + 1) * ConfigOf[k].rate >= Unit
  PROVE  KeyInv(k, h1, t, IF p # None THEN p ELSE t + w, g)
<1> DEFINE r == ConfigOf[k].rate
           q == IF p # None THEN p ELSE t + w
<1>1. r \in Nat /\ Unit \in Nat /\ None \notin Nat
  BY KeyConfig, RateLimitAssumption DEF RateLimitAssumption
<1>2. NoLess(k, h1, h)
  BY NoLessTwice
<1>3. KeyInv(k, h1, t, p, g)
  BY <1>2, KeyUntouched
<1>4. CASE p # None
  BY <1>3, <1>4
<1>5. CASE p = None
  <2>1. q = t + w /\ q \in Nat
    BY <1>5
  <2>2. ASSUME Refills(k) PROVE h1 + ((q + 1) - t) * r >= Unit
    <3> DEFINE x == (w + 1) * r
    <3>1. (q + 1) - t = w + 1
      BY <2>1
    <3>2. x \in Nat
      BY <1>1
    <3>3. hb + x >= Unit /\ h1 >= hb
      BY <2>2 DEF NoLess, Refills
    <3> HIDE DEF x
    <3>4. h1 + x >= Unit
      BY <1>1, <3>2, <3>3
    <3> HIDE DEF q
    <3> QED BY <3>1, <3>4 DEF x
  <2> HIDE DEF q
  <2>3. Promised(k, h1, t, q)
    BY <2>2 DEF Promised
  <2>4. KeyInv(k, h1, t, q, g)
    BY <1>3, <2>1, <2>3 DEF KeyInv
  <2> QED BY <2>4 DEF q
<1> QED BY <1>4, <1>5

\* A key that is allowed pays with the token it had.
LEMMA KeyAllowed ==
  ASSUME NEW k \in Keys, NEW h \in Nat, NEW h1 \in Nat, NEW t \in Nat,
         NEW p, NEW g, KeyInv(k, h, t, p, g),
         NEW hb \in Nat, hb >= Unit, hb <= ConfigOf[k].burst,
         NoLess(k, hb, h), NoLess(k, h1, hb - Unit)
  PROVE  KeyInv(k, h1, t, None, Append(g, t))
<1> DEFINE r == ConfigOf[k].rate
           b == ConfigOf[k].burst
           n == Len(g)
           g1 == Append(g, t)
<1>1. r \in Nat /\ Unit \in Nat /\ b \in Nat
  BY KeyConfig
<1>2. /\ g \in Seq(Nat) /\ n \in Nat /\ g1 \in Seq(Nat) /\ Len(g1) = n + 1
      /\ g1[n + 1] = t /\ \A i \in 1..n : g1[i] = g[i] /\ g[i] <= t /\ g[i] \in Nat
  BY DEF KeyInv
<1> HIDE DEF n, g1
<1>3. ASSUME NEW i \in 1..Len(g1) PROVE g1[i] <= t
  <2>1. i \in 1..n \/ i = n + 1
    BY <1>2
  <2>2. t <= t
    OBVIOUS
  <2> QED BY <1>2, <2>1, <2>2
<1>4. ASSUME StaleIsFull(k) PROVE Spent(k, h1, t, g1) /\ WithinBurst(k, g1)
  <2>1. h1 = h - Unit /\ hb = h
    BY <1>1, <1>4 DEF NoLess
  <2>2. ASSUME NEW i \in 1..(n + 1)
        PROVE  (n + 1 - i + 1) * Unit + h1 <= b + (t - g1[i]) * r
    <3>1. CASE i = n + 1
      <4>1. (n + 1 - i + 1) * Unit = Unit /\ (t - g1[i]) * r = 0
        <5>1. n + 1 - i + 1 = 1 /\ t - g1[i] = 0
          BY <1>2, <3>1
        <5> QED BY <1>1, <5>1
      <4>2. Unit + h1 <= b
        BY <1>1, <2>1
      <4> QED BY <1>1, <4>1, <4>2
    <3>2. CASE i # n + 1
      <4> DEFINE m == n - i + 1
                 x == m * Unit
                 y == (t - g[i]) * r
      <4>1. i \in 1..n /\ m \in Nat /\ n + 1 - i + 1 = m + 1
        BY <1>2, <3>2
      <4>2. x + h <= b + y
        <5>1. Spent(k, h, t, g)
          BY <1>4 DEF KeyInv
        <5> QED BY <4>1, <5>1 DEF Spent, n
      <4>3. x \in Nat /\ (m + 1) * Unit = x + Unit
        <5> HIDE DEF m
        <5> QED BY <1>1, <4>1
      <4>4. y \in Int
        <5>1. t - g[i] \in Int
          BY <1>2, <4>1
        <5> QED BY <1>1, <5>1
      <4> HIDE DEF x, y, m
      <4>5. (m + 1) * Unit + h1 <= b + y
        BY <1>1, <2>1, <4>2, <4>3, <4>4
      <4> QED BY <1>2, <4>1, <4>5 DEF y
    <3> QED BY <3>1, <3>2
  <2>3. Spent(k, h1, t, g1)
    BY <1>2, <2>2 DEF Spent
  <2>4. ASSUME NEW j \in 1..(n + 1), NEW i \in 1..j
        PROVE  (j - i + 1) * Unit <= b + (g1[j] - g1[i]) * r
    <3>1. CASE j = n + 1
      <4> DEFINE x == (n + 1 - i + 1) * Unit
                 y == (t - g1[i]) * r
      <4>1. i \in 1..(n + 1) /\ x + h1 <= b + y
        BY <1>2, <2>2, <3>1
      <4>2. x \in Int /\ y \in Int
        <5>1. n + 1 - i + 1 \in Int /\ t - g1[i] \in Int
          BY <1>2, <4>1
        <5> QED BY <1>1, <5>1
      <4> HIDE DEF x, y
      <4>3. x <= b + y
        BY <1>1, <4>1, <4>2
      <4> QED BY <1>2, <3>1, <4>3 DEF x, y
    <3>2. CASE j # n + 1
      <4>1. j \in 1..n /\ i \in 1..n
        BY <1>2, <3>2
      <4>2. WithinBurst(k, g)
        BY <1>4 DEF KeyInv
      <4>3. (j - i + 1) * Unit <= b + (g[j] - g[i]) * r
        BY <4>1, <4>2 DEF WithinBurst, n
      <4> QED BY <1>2, <4>1, <4>3
    <3> QED BY <3>1, <3>2
  <2>5. WithinBurst(k, g1)
    BY <1>2, <2>4 DEF WithinBurst
  <2> QED BY <2>3, <2>5
<1>5. Promised(k, h1, t, None)
  BY DEF Promised
<1>6. KeyInv(k, h1, t, None, g1)
  BY <1>2, <1>3, <1>4, <1>5 DEF KeyInv
<1> QED BY <1>6 DEF g1

\* A key that is reset, or was never asked for, starts with a full bucket.
LEMMA KeyFresh ==
  ASSUME NEW k \in Keys, NEW t \in Nat
  PROVE  KeyInv(k, ConfigOf[k].burst, t, None, <<>>)
<1>1. <<>> \in Seq(Nat) /\ Len(<<>>) = 0
  OBVIOUS
<1> QED BY <1>1 DEF KeyInv, Promised, Spent, WithinBurst

\* A tick brings the rate, up to the burst.
LEMMA HoldsTick ==
  ASSUME NEW k \in Keys, NEW t \in Nat, NEW bs, BucketsOK(bs, t)
  PROVE  /\ BucketsOK(bs, t + 1)
         /\ Holds(bs, k, t + 1) =
              IF ConfigOf[k].burst <= Holds(bs, k, t) + ConfigOf[k].rate
              THEN ConfigOf[k].burst ELSE Holds(bs, k, t) + ConfigOf[k].rate
<1> DEFINE b == ConfigOf[k].burst
           r == ConfigOf[k].rate
<1>1. b \in Nat /\ r \in Nat
  BY KeyConfig
<1>2. BucketsOK(bs, t + 1)
  <2> SUFFICES ASSUME NEW j \in Keys, bs[j] # None PROVE bs[j].refilled <= t + 1
    BY DEF BucketsOK
  <2>1. bs[j] \in Bucket /\ bs[j].refilled <= t
    BY DEF BucketsOK
  <2> QED BY <2>1 DEF Bucket
<1>3. CASE bs[k] = None
  <2>1. Holds(bs, k, t + 1) = b /\ Holds(bs, k, t) = b
    BY <1>3 DEF Holds
  <2> QED BY <1>1, <1>2, <2>1
<1>4. CASE bs[k] # None
  <2> DEFINE x == bs[k].tokens
             w == t - bs[k].refilled
             w1 == (t + 1) - bs[k].refilled
             y == w * r
  <2>1. x \in Nat /\ w \in Nat /\ w1 = w + 1
    <3>1. bs[k] \in Bucket /\ bs[k].refilled <= t
      BY <1>4 DEF BucketsOK
    <3> QED BY <3>1 DEF Bucket
  <2>2. y \in Nat /\ w1 * r = y + r
    <3> HIDE DEF w, w1
    <3> QED BY <1>1, <2>1
  <2>3. Holds(bs, k, t) = IF b <= x + y THEN b ELSE x + y
    BY <1>4, HoldsValue
  <2>4. Holds(bs, k, t + 1) = IF b <= x + w1 * r THEN b ELSE x + w1 * r
    BY <1>2, <1>4, HoldsValue, t + 1 \in Nat
  <2> HIDE DEF b, r, x, w, w1, y
  <2>5. Holds(bs, k, t + 1) = IF b <= x + y + r THEN b ELSE x + y + r
    BY <1>1, <2>1, <2>2, <2>4
  <2>6. Holds(bs, k, t + 1) = IF b <= Holds(bs, k, t) + r
                              THEN b ELSE Holds(bs, k, t) + r
    BY <1>1, <2>1, <2>2, <2>3, <2>5
  <2> QED BY <1>2, <2>6 DEF b, r
<1> QED BY <1>3, <1>4

LEMMA OneMoreTick ==
  ASSUME NEW m \in Int, NEW r \in Int
  PROVE  m * r \in Int /\ (m + 1) * r = m * r + r
OBVIOUS

LEMMA KeyTick ==
  ASSUME NEW k \in Keys, NEW h \in Nat, h <= ConfigOf[k].burst,
         NEW h1 \in Nat, NEW t \in Nat,
         NEW p, NEW g, KeyInv(k, h, t, p, g),
         h1 = IF ConfigOf[k].burst <= h + ConfigOf[k].rate
              THEN ConfigOf[k].burst ELSE h + ConfigOf[k].rate
  PROVE  KeyInv(k, h1, t + 1, p, g)
<1> DEFINE r == ConfigOf[k].rate
           b == ConfigOf[k].burst
<1>1. r \in Nat /\ Unit \in Nat /\ b \in Nat
  BY KeyConfig
<1>2. /\ p \in Nat \cup {None} /\ g \in Seq(Nat)
      /\ \A i \in 1..Len(g) : g[i] \in Nat /\ g[i] <= t
  BY DEF KeyInv
<1>3. \A i \in 1..Len(g) : g[i] <= t + 1
  BY <1>2
<1>4. Promised(k, h1, t + 1, p)
  <2> SUFFICES ASSUME Refills(k), p # None
               PROVE  h1 >= Unit \/ h1 + ((p + 1) - (t + 1)) * r >= Unit
    BY DEF Promised
  <2> DEFINE m == p - t
             x == m * r
  <2>1. p \in Nat /\ (h >= Unit \/ h + ((p + 1) - t) * r >= Unit)
    BY DEF KeyInv, Promised
  <2>2. m \in Int /\ (p + 1) - t = m + 1 /\ (p + 1) - (t + 1) = m
    BY <2>1
  <2>3. x \in Int /\ (m + 1) * r = x + r
    <3> HIDE DEF m, r
    <3> QED BY <1>1, <2>2, OneMoreTick
  <2>4. h >= Unit \/ h + (x + r) >= Unit
    BY <2>1, <2>2, <2>3
  <2>6. Unit <= b
    BY DEF Refills
  <2> HIDE DEF x, r, b, m
  <2>5. h1 >= Unit \/ h1 + x >= Unit
    BY <1>1, <2>3, <2>4, <2>6 DEF r, b
  <2> QED BY <2>2, <2>5 DEF x
<1>5. ASSUME StaleIsFull(k) PROVE Spent(k, h1, t + 1, g) /\ WithinBurst(k, g)
  <2>1. Spent(k, h, t, g) /\ WithinBurst(k, g)
    BY <1>5 DEF KeyInv
  <2>2. ASSUME NEW i \in 1..Len(g)
        PROVE  (Len(g) - i + 1) * Unit + h1 <= b + ((t + 1) - g[i]) * r
    <3> DEFINE m == t - g[i]
               x == m * r
               z == (Len(g) - i + 1) * Unit
    <3>0. g[i] \in Nat
      BY <1>2
    <3>1. m \in Int /\ (t + 1) - g[i] = m + 1
      BY <3>0
    <3>2. x \in Int
      <4> HIDE DEF m, r
      <4> QED BY <1>1, <3>1
    <3>7. ((t + 1) - g[i]) * r = x + r
      <4> HIDE DEF m, r
      <4>1. (m + 1) * r = x + r
        BY <1>1, <3>1, OneMoreTick
      <4> QED BY <3>1, <4>1
    <3>3. z \in Int
      <4>1. Len(g) - i + 1 \in Int
        BY <1>2
      <4> QED BY <1>1, <4>1
    <3>4. z + h <= b + x
      BY <2>1 DEF Spent
    <3>5. h1 <= h + r
      BY <1>1
    <3> HIDE DEF m, x, z, r, b
    <3>6. z + h1 <= b + (x + r)
      BY <1>1, <3>2, <3>3, <3>4, <3>5
    <3> QED BY <3>6, <3>7 DEF z
  <2>3. Spent(k, h1, t + 1, g)
    BY <2>2 DEF Spent
  <2> QED BY <2>1, <2>3
<1> QED BY <1>2, <1>3, <1>4, <1>5 DEF KeyInv
-----------------------------------------------------------------------------
KeyInvs(bs, t, ps, gs) ==
  \A k \in Keys : KeyInv(k, Holds(bs, k, t), t, ps[k], gs[k])

RateInv ==
  /\ TypeOK
  /\ BucketsOK(buckets, now)
  /\ KeyInvs(buckets, now, promise, granted)

LEMMA InitRate == Init => RateInv
<1> SUFFICES ASSUME Init PROVE RateInv
  OBVIOUS
<1>1. /\ buckets = [k \in Keys |-> None] /\ now = 0 /\ last = NoResult
      /\ promise = [k \in Keys |-> None] /\ granted = [k \in Keys |-> <<>>]
  BY DEF Init
<1>2. BucketsOK(buckets, now)
  BY <1>1 DEF BucketsOK
<1>3. ASSUME NEW k \in Keys
      PROVE  KeyInv(k, Holds(buckets, k, now), now, promise[k], granted[k])
  <2>1. Holds(buckets, k, now) = ConfigOf[k].burst
    BY <1>1 DEF Holds
  <2>2. promise[k] = None /\ granted[k] = <<>> /\ now \in Nat
    BY <1>1
  <2> QED BY <2>1, <2>2, KeyFresh
<1>4. TypeOK
  <2>1. <<>> \in Seq(Nat) /\ Global \in Keys
    BY EmptySeq DEF Keys
  <2>2. last \in [allowed: BOOLEAN, key: Keys, retry: Nat, waits: SUBSET Nat]
    BY <1>1, <2>1 DEF NoResult
  <2> QED BY <1>1, <2>1, <2>2 DEF TypeOK
<1> QED BY <1>2, <1>3, <1>4 DEF RateInv, KeyInvs

\* A check of any distinct scopes keeps the invariant: a scope that blocks
\* takes nothing, also from the scopes that are consumed after it.
LEMMA CheckStep ==
  ASSUME RateInv, NEW keys \in Seq(Keys), Check(keys),
         \A i, j \in 1..Len(keys) : keys[i] = keys[j] => i = j
  PROVE  RateInv'
<1> DEFINE after == AllConsumed(keys)
           n == Len(keys)
           blocked == {i \in 1..n : ~Allows(after[i - 1], keys[i])}
           wait(i) == RetryAfter(after[i - 1], keys[i])
           keyAt(k) == CHOOSE i \in 1..n : keys[i] = k
           checked == {keys[i] : i \in 1..n}
           final == after[n]
           result == [allowed |-> FALSE, key |-> keys[Min(blocked)],
                      retry |-> wait(Min(blocked)),
                      waits |-> {wait(i) : i \in blocked}]
<1>1. /\ buckets' = final
      /\ last' = IF blocked = {} THEN NoResult ELSE result
      /\ promise' = [k \in Keys |->
                       IF k \notin checked THEN promise[k]
                       ELSE IF keyAt(k) \notin blocked THEN None
                       ELSE IF promise[k] # None THEN promise[k]
                       ELSE now + wait(keyAt(k))]
      /\ granted' = [k \in Keys |->
                       IF k \in checked /\ keyAt(k) \notin blocked
                       THEN Append(granted[k], now) ELSE granted[k]]
      /\ now' = now
  BY DEF Check
<1>2. /\ now \in Nat /\ BucketsOK(buckets, now)
      /\ n \in Nat /\ \A i \in 1..n : keys[i] \in Keys
  BY DEF RateInv, TypeOK
<1>3. /\ \A i \in 0..n : BucketsOK(after[i], now)
      /\ \A i \in 0..n : \A k \in Keys : (\A j \in 1..i : keys[j] # k) =>
           NoLess(k, Holds(after[i], k, now), Holds(buckets, k, now))
      /\ \A i \in 0..n : \A j \in 1..i :
           NoLess(keys[j], Holds(after[i], keys[j], now),
                  Left(Holds(after[j - 1], keys[j], now)))
  BY <1>2, ScopesInOrder
<1> HIDE DEF after, n
<1>4. \A i \in 1..n : i - 1 \in 0..n /\ BucketsOK(after[i - 1], now)
  BY <1>2, <1>3
<1>5. ASSUME NEW i \in blocked PROVE i \in 1..n /\ wait(i) \in Nat
  <2> DEFINE b == after[i - 1]
             k == keys[i]
  <2>1. i \in 1..n /\ BucketsOK(b, now) /\ k \in Keys /\ ~ Allows(b, k)
    BY <1>2, <1>4
  <2>2. RetryAfter(b, k) \in Nat
    <3> HIDE DEF b, k
    <3> QED BY <1>2, <2>1, RetryFills
  <2> QED BY <2>1, <2>2
<1>6. n \in 0..n
  BY <1>2
<1>7. BucketsOK(final, now)
  BY <1>3, <1>6
<1>8. ASSUME NEW k \in Keys
      PROVE  KeyInv(k, Holds(final, k, now), now, promise'[k], granted'[k])
  <2> DEFINE h == Holds(buckets, k, now)
             h1 == Holds(final, k, now)
  <2>1. h \in Nat /\ h1 \in Nat
    BY <1>2, <1>7, HoldsValue
  <2>2. KeyInv(k, h, now, promise[k], granted[k])
    BY DEF RateInv, KeyInvs
  <2>3. CASE k \notin checked
    <3>1. promise'[k] = promise[k] /\ granted'[k] = granted[k]
      BY <1>1, <2>3
    <3>2. NoLess(k, h1, h)
      <4>1. \A j \in 1..n : keys[j] # k
        BY <2>3
      <4> QED BY <1>3, <1>6, <4>1
    <3> HIDE DEF h, h1
    <3>3. KeyInv(k, h1, now, promise[k], granted[k])
      BY <1>2, <2>1, <2>2, <3>2, KeyUntouched
    <3> QED BY <3>1, <3>3 DEF h1
  <2>4. CASE k \in checked
    <3>1. PICK i \in 1..n : keys[i] = k
      BY <2>4
    <3>2. keyAt(k) = i
      <4>1. \A j \in 1..n : keys[j] = k => j = i
        BY <3>1 DEF n
      <4> QED BY <3>1, <4>1
    <3> DEFINE b == after[i - 1]
               hb == Holds(b, k, now)
    <3>3. BucketsOK(b, now)
      BY <1>4
    <3>4. hb \in Nat /\ hb <= ConfigOf[k].burst
      BY <1>2, <3>3, HoldsValue
    <3>5. NoLess(k, hb, h)
      <4>1. i - 1 \in 0..n /\ \A j \in 1..(i - 1) : keys[j] # k
        <5>1. i - 1 \in 0..n
          BY <1>4
        <5>2. ASSUME NEW j \in 1..(i - 1), keys[j] = k PROVE FALSE
          <6>1. j \in 1..n /\ j # i
            BY <1>2
          <6> QED BY <3>1, <5>2, <6>1 DEF n
        <5> QED BY <5>1, <5>2
      <4> QED BY <1>3, <4>1
    <3>6. NoLess(k, h1, Left(hb))
      BY <1>3, <1>6, <3>1
    <3>7. Allows(b, k) <=> hb >= Unit
      <4> HIDE DEF b
      <4> QED BY <1>2, <3>3, ConsumedKeeps
    <3>8. i \in blocked <=> ~ Allows(b, k)
      BY <3>1
    <3>9. Unit \in Nat
      BY KeyConfig
    <3>10. CASE i \notin blocked
      <4>1. promise'[k] = None /\ granted'[k] = Append(granted[k], now)
        BY <1>1, <2>4, <3>2, <3>10
      <4>2. hb >= Unit /\ NoLess(k, h1, hb - Unit)
        BY <3>6, <3>7, <3>8, <3>10 DEF Left
      <4> HIDE DEF h, h1, hb
      <4>3. KeyInv(k, h1, now, None, Append(granted[k], now))
        BY <1>2, <2>1, <2>2, <3>4, <3>5, <4>2, KeyAllowed
      <4> QED BY <4>1, <4>3 DEF h1
    <3>11. CASE i \in blocked
      <4> DEFINE w == wait(i)
                 p == promise[k]
      <4>1. /\ promise'[k] = IF p # None THEN p ELSE now + w
            /\ granted'[k] = granted[k]
        BY <1>1, <2>4, <3>2, <3>11
      <4>2. ~ (hb >= Unit) /\ NoLess(k, h1, hb)
        BY <3>6, <3>7, <3>8, <3>11 DEF Left
      <4>3. w \in Nat /\ (ConfigOf[k].rate > 0 =>
                            hb + (w + 1) * ConfigOf[k].rate >= Unit)
        <5>1. w = RetryAfter(b, k) /\ ~ Allows(b, k)
          BY <3>1, <3>8, <3>11
        <5> HIDE DEF w, b
        <5> QED BY <1>2, <3>3, <5>1, RetryFills
      <4> HIDE DEF h, h1, hb, w, p
      <4>4. KeyInv(k, h, now, p, granted[k])
        BY <2>2 DEF p
      <4>5. KeyInv(k, h1, now, IF p # None THEN p ELSE now + w, granted[k])
        BY <1>2, <2>1, <3>4, <3>5, <4>2, <4>3, <4>4, KeyBlocked
      <4> QED BY <4>1, <4>5 DEF h1
    <3> QED BY <3>10, <3>11
  <2> QED BY <2>3, <2>4
<1>9. last' \in [allowed: BOOLEAN, key: Keys, retry: Nat, waits: SUBSET Nat]
  <2>1. CASE blocked = {}
    <3>1. Global \in Keys
      BY DEF Keys
    <3> QED BY <1>1, <2>1, <3>1 DEF NoResult
  <2>2. CASE blocked # {}
    <3>1. Min(blocked) \in blocked
      <4>1. blocked \subseteq Nat
        BY <1>2
      <4> HIDE DEF blocked
      <4>2. \E x \in blocked : \A y \in blocked : x <= y
        BY <2>2, <4>1, LeastNumber
      <4> QED BY <4>2 DEF Min
    <3>2. keys[Min(blocked)] \in Keys /\ wait(Min(blocked)) \in Nat
      <4> HIDE DEF wait, blocked
      <4> QED BY <1>2, <1>5, <3>1
    <3>3. {wait(i) : i \in blocked} \in SUBSET Nat
      <4> HIDE DEF wait, blocked
      <4> QED BY <1>5
    <3>4. last' = result
      BY <1>1, <2>2
    <3> HIDE DEF wait, blocked
    <3> QED BY <3>2, <3>3, <3>4
  <2> QED BY <2>1, <2>2
<1> HIDE DEF blocked, wait, keyAt, checked, result, final
<1>10. /\ promise' \in [Keys -> Nat \cup {None}]
       /\ granted' \in [Keys -> Seq(Nat)]
  <2>1. \A k \in Keys : promise'[k] \in Nat \cup {None} /\ granted'[k] \in Seq(Nat)
    BY <1>8 DEF KeyInv
  <2>2. /\ promise' = [k \in Keys |-> promise'[k]]
        /\ granted' = [k \in Keys |-> granted'[k]]
    BY <1>1
  <2> DEFINE ps == promise'
             gs == granted'
  <2>3. /\ ps = [k \in Keys |-> ps[k]] /\ gs = [k \in Keys |-> gs[k]]
        /\ \A k \in Keys : ps[k] \in Nat \cup {None} /\ gs[k] \in Seq(Nat)
    BY <2>1, <2>2
  <2> HIDE DEF ps, gs
  <2>4. ps \in [Keys -> Nat \cup {None}] /\ gs \in [Keys -> Seq(Nat)]
    BY <2>3
  <2> QED BY <2>4 DEF ps, gs
<1>11. TypeOK'
  <2>1. /\ buckets' \in [Keys -> Bucket \cup {None}]
        /\ \A k \in Keys : buckets'[k] # None =>
             buckets'[k].tokens <= ConfigOf[k].burst
    BY <1>1, <1>7 DEF BucketsOK
  <2> QED BY <1>1, <1>2, <1>9, <1>10, <2>1 DEF TypeOK
<1>12. BucketsOK(buckets', now') /\ KeyInvs(buckets', now', promise', granted')
  BY <1>1, <1>7, <1>8 DEF KeyInvs
<1> QED BY <1>11, <1>12 DEF RateInv

LEMMA ResetStep ==
  ASSUME RateInv, NEW r \in Keys, Reset(r) PROVE RateInv'
<1>1. /\ now' = now /\ last' = last
      /\ buckets' = [buckets EXCEPT ![r] = None]
      /\ promise' = [promise EXCEPT ![r] = None]
      /\ granted' = [granted EXCEPT ![r] = <<>>]
  BY DEF Reset
<1>2. /\ now \in Nat /\ BucketsOK(buckets, now) /\ TypeOK
      /\ buckets \in [Keys -> Bucket \cup {None}]
      /\ promise \in [Keys -> Nat \cup {None}] /\ granted \in [Keys -> Seq(Nat)]
  BY DEF RateInv, TypeOK
<1>3. \A k \in Keys :
        /\ buckets'[k] = IF k = r THEN None ELSE buckets[k]
        /\ promise'[k] = IF k = r THEN None ELSE promise[k]
        /\ granted'[k] = IF k = r THEN <<>> ELSE granted[k]
  BY <1>1, <1>2
<1>4. /\ buckets' \in [Keys -> Bucket \cup {None}]
      /\ promise' \in [Keys -> Nat \cup {None}] /\ granted' \in [Keys -> Seq(Nat)]
  BY <1>1, <1>2, EmptySeq
<1>5. BucketsOK(buckets', now')
  BY <1>1, <1>2, <1>3, <1>4 DEF BucketsOK
<1>6. ASSUME NEW k \in Keys
      PROVE  KeyInv(k, Holds(buckets', k, now'), now', promise'[k], granted'[k])
  <2>1. CASE k = r
    <3>1. Holds(buckets', k, now) = ConfigOf[k].burst
      BY <1>3, <2>1 DEF Holds
    <3> QED BY <1>1, <1>2, <1>3, <2>1, <3>1, KeyFresh
  <2>2. CASE k # r
    <3>1. Holds(buckets', k, now) = Holds(buckets, k, now)
      BY <1>3, <2>2 DEF Holds
    <3> QED BY <1>1, <1>3, <2>2, <3>1 DEF RateInv, KeyInvs
  <2> QED BY <2>1, <2>2
<1>7. TypeOK'
  BY <1>1, <1>2, <1>4, <1>5 DEF TypeOK, BucketsOK
<1> QED BY <1>5, <1>6, <1>7 DEF RateInv, KeyInvs

LEMMA TickStep ==
  ASSUME RateInv, Tick PROVE RateInv'
<1>1. now' = now + 1 /\ UNCHANGED <<buckets, last, promise, granted>>
  BY DEF Tick
<1>2. now \in Nat /\ BucketsOK(buckets, now) /\ TypeOK
  BY DEF RateInv, TypeOK
<1>3. ASSUME NEW k \in Keys
      PROVE  /\ BucketsOK(buckets, now + 1)
             /\ KeyInv(k, Holds(buckets, k, now + 1), now + 1, promise[k], granted[k])
  <2> DEFINE h == Holds(buckets, k, now)
             h1 == Holds(buckets, k, now + 1)
  <2>1. /\ BucketsOK(buckets, now + 1)
        /\ h1 = IF ConfigOf[k].burst <= h + ConfigOf[k].rate
                THEN ConfigOf[k].burst ELSE h + ConfigOf[k].rate
    BY <1>2, HoldsTick
  <2>2. h \in Nat /\ h <= ConfigOf[k].burst /\ h1 \in Nat
    BY <1>2, <2>1, HoldsValue, now + 1 \in Nat
  <2>3. KeyInv(k, h, now, promise[k], granted[k])
    BY DEF RateInv, KeyInvs
  <2> HIDE DEF h, h1
  <2>4. KeyInv(k, h1, now + 1, promise[k], granted[k])
    BY <1>2, <2>1, <2>2, <2>3, KeyTick
  <2> QED BY <2>1, <2>4 DEF h1
<1>4. BucketsOK(buckets', now')
  <2>1. Global \in Keys
    BY DEF Keys
  <2> QED BY <1>1, <1>3, <2>1
<1>5. TypeOK'
  BY <1>1, <1>2 DEF TypeOK
<1> QED BY <1>1, <1>3, <1>4, <1>5 DEF RateInv, KeyInvs

\* The keys of check_agent, check_ip, check_global and check_all.
LEMMA ScopesDistinct ==
  /\ \A k \in Keys : /\ <<k>> \in Seq(Keys)
                     /\ \A i, j \in 1..Len(<<k>>) : <<k>>[i] = <<k>>[j] => i = j
  /\ \A x, y \in Keys : x # y =>
       /\ <<x, y>> \in Seq(Keys)
       /\ \A i, j \in 1..Len(<<x, y>>) : <<x, y>>[i] = <<x, y>>[j] => i = j
  /\ \A a \in Agents, p \in Ips :
       LET keys == <<a, p, Global>>
       IN /\ keys \in Seq(Keys)
          /\ \A i, j \in 1..Len(keys) : keys[i] = keys[j] => i = j
<1>1. ASSUME NEW k \in Keys
      PROVE  /\ <<k>> \in Seq(Keys)
             /\ \A i, j \in 1..Len(<<k>>) : <<k>>[i] = <<k>>[j] => i = j
  OBVIOUS
<1>2. ASSUME NEW x \in Keys, NEW y \in Keys, x # y
      PROVE  /\ <<x, y>> \in Seq(Keys)
             /\ \A i, j \in 1..Len(<<x, y>>) : <<x, y>>[i] = <<x, y>>[j] => i = j
  <2> DEFINE keys == <<x, y>>
  <2>1. keys \in Seq(Keys) /\ Len(keys) = 2 /\ keys[1] = x /\ keys[2] = y
    OBVIOUS
  <2>2. \A i \in 1..2 : i = 1 \/ i = 2
    OBVIOUS
  <2> HIDE DEF keys
  <2>3. \A i, j \in 1..Len(keys) : keys[i] = keys[j] => i = j
    BY <1>2, <2>1, <2>2
  <2> QED BY <2>1, <2>3 DEF keys
<1>3. ASSUME NEW a \in Agents, NEW p \in Ips
      PROVE  LET keys == <<a, p, Global>>
             IN /\ keys \in Seq(Keys)
                /\ \A i, j \in 1..Len(keys) : keys[i] = keys[j] => i = j
  <2> DEFINE keys == <<a, p, Global>>
  <2>1. a # p /\ a # Global /\ p # Global
    BY RateLimitAssumption DEF RateLimitAssumption
  <2>2. keys \in Seq(Keys) /\ Len(keys) = 3
    BY DEF Keys
  <2>3. keys[1] = a /\ keys[2] = p /\ keys[3] = Global
    OBVIOUS
  <2>4. \A i \in 1..3 : i = 1 \/ i = 2 \/ i = 3
    OBVIOUS
  <2> HIDE DEF keys
  <2>5. \A i, j \in 1..Len(keys) : keys[i] = keys[j] => i = j
    BY <2>1, <2>2, <2>3, <2>4
  <2> QED BY <2>2, <2>5 DEF keys
<1> QED BY <1>1, <1>2, <1>3

\* The scopes check_all is given, one after the other.
LEMMA OneThenNone == \A x : <<x>> \o <<>> = <<x>> /\ <<>> \o <<x>> = <<x>>
<1> SUFFICES ASSUME NEW x PROVE <<x>> \o <<>> = <<x>> /\ <<>> \o <<x>> = <<x>>
  OBVIOUS
<1>1. <<x>> \in Seq({x}) /\ <<>> \in Seq({x})
  OBVIOUS
<1> QED BY <1>1, ConcatEmptySeq

LEMMA OneThenOne == \A x, y : <<x>> \o <<y>> = <<x, y>>
<1> SUFFICES ASSUME NEW x, NEW y PROVE <<x>> \o <<y>> = <<x, y>>
  OBVIOUS
<1> DEFINE S == {x, y}
           s == <<x>> \o <<y>>
           t == <<x, y>>
<1>1. s \in Seq(S) /\ Len(s) = 2 /\ s[1] = x /\ s[2] = y
  OBVIOUS
<1>2. t \in Seq(S) /\ Len(t) = 2 /\ t[1] = x /\ t[2] = y
  OBVIOUS
<1>3. \A i \in 1..2 : i = 1 \/ i = 2
  OBVIOUS
<1> HIDE DEF s, t
<1>4. \A i \in 1..2 : s[i] = t[i]
  BY <1>1, <1>2, <1>3
<1>5. s = t
  BY <1>1, <1>2, <1>4, SeqEqual
<1> QED BY <1>5 DEF s, t

LEMMA TwoThenOne == \A x, y, z : <<x, y>> \o <<z>> = <<x, y, z>>
<1> SUFFICES ASSUME NEW x, NEW y, NEW z PROVE <<x, y>> \o <<z>> = <<x, y, z>>
  OBVIOUS
<1> DEFINE S == {x, y, z}
           s == <<x, y>> \o <<z>>
           t == <<x, y, z>>
<1>1. /\ s \in Seq(S) /\ Len(s) = 3
      /\ s[1] = x /\ s[2] = y /\ s[3] = z
  OBVIOUS
<1>2. /\ t \in Seq(S) /\ Len(t) = 3
      /\ t[1] = x /\ t[2] = y /\ t[3] = z
  OBVIOUS
<1>3. \A i \in 1..3 : i = 1 \/ i = 2 \/ i = 3
  OBVIOUS
<1> HIDE DEF s, t
<1>4. \A i \in 1..3 : s[i] = t[i]
  BY <1>1, <1>2, <1>3
<1>5. s = t
  BY <1>1, <1>2, <1>4, SeqEqual
<1> QED BY <1>5 DEF s, t

LEMMA RateStep == RateInv /\ [Next]_vars => RateInv'
<1> SUFFICES ASSUME RateInv, [Next]_vars PROVE RateInv'
  OBVIOUS
<1>1. ASSUME NEW a \in Agents, CheckAgent(a) PROVE RateInv'
  <2>1. a \in Keys /\ Check(<<a>>)
    BY <1>1 DEF CheckAgent, Keys
  <2> QED BY <2>1, ScopesDistinct, CheckStep
<1>2. ASSUME NEW i \in Ips, CheckIp(i) PROVE RateInv'
  <2>1. i \in Keys /\ Check(<<i>>)
    BY <1>2 DEF CheckIp, Keys
  <2> QED BY <2>1, ScopesDistinct, CheckStep
<1>3. CASE CheckGlobal
  <2>1. Global \in Keys /\ Check(<<Global>>)
    BY <1>3 DEF CheckGlobal, Keys
  <2> QED BY <2>1, ScopesDistinct, CheckStep
<1>4. ASSUME NEW a \in Agents \cup {None}, NEW i \in Ips \cup {None},
             CheckAll(a, i)
      PROVE  RateInv'
  <2>1. /\ None \notin Agents /\ None \notin Ips
        /\ Global \in Keys /\ Global \notin Agents /\ Global \notin Ips
    BY RateLimitAssumption DEF RateLimitAssumption, Keys
  <2>2. CASE a = None /\ i = None
    <3>1. Check(<<>> \o <<>> \o <<Global>>)
      BY <1>4, <2>2 DEF CheckAll
    <3>2. <<>> \o <<>> \o <<Global>> = <<Global>>
      OBVIOUS
    <3>3. Check(<<Global>>)
      BY <3>1, <3>2
    <3> QED BY <2>1, <3>3, ScopesDistinct, CheckStep
  <2>3. CASE a \in Agents /\ i = None
    <3>1. Check(<<a>> \o <<>> \o <<Global>>)
      BY <1>4, <2>1, <2>3 DEF CheckAll
    <3>2. <<a>> \o <<>> \o <<Global>> = <<a, Global>>
      BY OneThenNone, OneThenOne
    <3>3. Check(<<a, Global>>) /\ a \in Keys /\ a # Global
      BY <2>1, <2>3, <3>1, <3>2 DEF Keys
    <3> QED BY <2>1, <3>3, ScopesDistinct, CheckStep
  <2>4. CASE a = None /\ i \in Ips
    <3>1. Check(<<>> \o <<i>> \o <<Global>>)
      BY <1>4, <2>1, <2>4 DEF CheckAll
    <3>2. <<>> \o <<i>> \o <<Global>> = <<i, Global>>
      BY OneThenNone, OneThenOne
    <3>3. Check(<<i, Global>>) /\ i \in Keys /\ i # Global
      BY <2>1, <2>4, <3>1, <3>2 DEF Keys
    <3> QED BY <2>1, <3>3, ScopesDistinct, CheckStep
  <2>5. CASE a \in Agents /\ i \in Ips
    <3> DEFINE keys == <<a, i, Global>>
    <3>1. Check(<<a>> \o <<i>> \o <<Global>>)
      BY <1>4, <2>1, <2>5 DEF CheckAll
    <3>2. <<a>> \o <<i>> \o <<Global>> = keys
      <4>1. <<a>> \o <<i>> = <<a, i>>
        BY OneThenOne
      <4>2. <<a, i>> \o <<Global>> = <<a, i, Global>>
        BY TwoThenOne
      <4> QED BY <4>1, <4>2
    <3>3. Check(keys)
      BY <3>1, <3>2
    <3>4. /\ keys \in Seq(Keys)
          /\ \A x, y \in 1..Len(keys) : keys[x] = keys[y] => x = y
      BY <2>5, ScopesDistinct
    <3> HIDE DEF keys
    <3> QED BY <3>3, <3>4, CheckStep
  <2> QED BY <2>2, <2>3, <2>4, <2>5
<1>5. ASSUME NEW k \in Keys, Reset(k) PROVE RateInv'
  BY <1>5, ResetStep
<1>6. CASE Tick
  BY <1>6, TickStep
<1>7. CASE UNCHANGED vars
  <2>1. UNCHANGED <<buckets, now, last, promise, granted>>
    BY <1>7 DEF vars
  <2> QED BY <2>1 DEF RateInv, TypeOK, KeyInvs
<1> QED BY <1>1, <1>2, <1>3, <1>4, <1>5, <1>6, <1>7 DEF Next

\* A key that waits for the time it was told, and a tick for the rounding, is
\* served, however often it or others asked in between, and in whatever order
\* the scopes were checked, if its bucket can come to hold a token at all: its
\* rate is above 0 and its burst is a token or more.  And every variable keeps
\* its type.
THEOREM RetryAlwaysServed == Spec => [](TypeOK /\ RetryIsServed)
<1>1. RateInv => TypeOK /\ RetryIsServed
  <2> SUFFICES ASSUME RateInv, NEW k \in Keys, Refills(k),
                      promise[k] # None, now > promise[k]
               PROVE  Allows(buckets, k)
    BY DEF RateInv, RetryIsServed
  <2> DEFINE h == Holds(buckets, k, now)
             p == promise[k]
             m == (p + 1) - now
             x == m * ConfigOf[k].rate
  <2>1. now \in Nat /\ BucketsOK(buckets, now) /\ h \in Nat
    BY HoldsValue DEF RateInv, TypeOK
  <2>2. p \in Nat /\ (h >= Unit \/ h + x >= Unit)
    BY DEF RateInv, KeyInvs, KeyInv, Promised
  <2>3. ConfigOf[k].rate \in Nat /\ Unit \in Nat
    BY KeyConfig
  <2>4. m \in Int /\ m <= 0
    BY <2>1, <2>2
  <2>5. x \in Int /\ x <= 0
    <3> HIDE DEF m
    <3>1. PICK d \in Nat : m = -d
      BY <2>4, -m \in Nat
    <3>2. d * ConfigOf[k].rate \in Nat /\ x = - (d * ConfigOf[k].rate)
      BY <2>3, <3>1
    <3> QED BY <3>2
  <2> HIDE DEF h, x
  <2>6. h >= Unit
    BY <2>1, <2>2, <2>3, <2>5
  <2> QED BY <2>1, <2>6, ConsumedKeeps DEF h
<1> QED BY <1>1, InitRate, RateStep, PTL DEF Spec

\* Whatever a key asks, alone or with others, and although its bucket is made
\* again after a cleanup: over any stretch of time it gets no more than its
\* burst and the rate for the stretch, if its bucket, once old enough to be
\* cleaned up, has had the time to fill.
THEOREM RateAlwaysBound == Spec => []RateBound
<1>1. RateInv => RateBound
  <2> SUFFICES ASSUME RateInv, NEW k \in Keys, StaleIsFull(k)
               PROVE  WithinBurst(k, granted[k])
    BY DEF RateBound, WithinBurst
  <2> QED BY DEF RateInv, KeyInvs, KeyInv
<1> QED BY <1>1, InitRate, RateStep, PTL DEF Spec
=============================================================================
