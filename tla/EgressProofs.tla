---------------------------- MODULE EgressProofs ----------------------------
(***************************************************************************)
(* Proofs about the egress proxy: for any rules and patterns, however they *)
(* change, any number of requests and any length of the window.            *)
(***************************************************************************)
EXTENDS Egress, SequenceTheorems, FiniteSetTheorems, WellFoundedInduction,
        TLAPS

\* A set of natural numbers that holds 0 and the successor of each of its
\* members holds them all.
LEMMA AllNaturals ==
  ASSUME NEW T, 0 \in T, \A n \in Nat : n \in T => n + 1 \in T
  PROVE  Nat \subseteq T
<1> SUFFICES ASSUME NEW m \in Nat, m \notin T PROVE FALSE
  OBVIOUS
<1> DEFINE Missing == {n \in Nat : n \notin T}
<1>1. Missing \subseteq Nat /\ Missing # {}
  OBVIOUS
<1>2. PICK k \in Missing : \A y \in Missing : ~ (<<y, k>> \in OpToRel(<, Nat))
  <2> HIDE DEF Missing
  <2> QED BY <1>1, NatLessThanWellFounded, WFMin
<1>3. \A y \in Missing : ~ (y < k)
  BY <1>1, <1>2 DEF OpToRel
<1>4. k # 0 /\ k \in Nat /\ k \notin T
  OBVIOUS
<1>5. k - 1 \in Nat /\ k - 1 \notin Missing
  BY <1>3, <1>4
<1>6. (k - 1) + 1 \in T
  BY <1>5
<1> QED BY <1>4, <1>6
-----------------------------------------------------------------------------
(***************************************************************************)
(* Counting requests after a given time: those of a history, those of the  *)
(* log, and those of the log that were allowed under a rule.               *)
(***************************************************************************)
After(times, t) == {k \in 1..Len(times) : times[k] > t}

Count(times, t) == Cardinality(After(times, t))

IsGranted(event, a, t) ==
  /\ event.agent = a /\ event.decision = "allow" /\ event.rate > 0
  /\ event.timestamp > t

Granted(l, a, t) == {j \in 1..Len(l) : IsGranted(l[j], a, t)}

IsAsked(event, a, t) ==
  event.agent = a /\ event.decision # "deny_domain" /\ event.timestamp > t

Asked(l, a, t) == {j \in 1..Len(l) : IsAsked(l[j], a, t)}

\* One element more in a set of positions.
LEMMA OneMore ==
  ASSUME NEW n \in Nat, NEW S, S \subseteq 1..n, NEW T,
         T = S \/ T = S \cup {n + 1}
  PROVE  /\ IsFiniteSet(T) /\ Cardinality(S) \in Nat
         /\ Cardinality(T) = Cardinality(S) + (IF T = S THEN 0 ELSE 1)
<1>1. IsFiniteSet(1..n)
  BY FS_Interval
<1>2. IsFiniteSet(S) /\ Cardinality(S) \in Nat
  BY <1>1, FS_Subset, FS_CardinalityType
<1>3. n + 1 \notin S
  OBVIOUS
<1>4. /\ IsFiniteSet(S \cup {n + 1})
      /\ Cardinality(S \cup {n + 1}) = Cardinality(S) + 1
  BY <1>2, <1>3, FS_AddElement
<1>5. CASE T = S
  BY <1>2, <1>5
<1>6. CASE T # S
  <2>1. T = S \cup {n + 1}
    BY <1>6
  <2> QED BY <1>2, <1>4, <1>6, <2>1
<1> QED BY <1>5, <1>6

\* A request more in the history.
LEMMA CountAppend ==
  ASSUME NEW times \in Seq(Nat), NEW x \in Nat, NEW t \in Int
  PROVE  /\ Count(times, t) \in Nat
         /\ Count(Append(times, x), t) = Count(times, t) + (IF x > t THEN 1 ELSE 0)
<1> DEFINE n == Len(times)
           S == After(times, t)
           T == After(Append(times, x), t)
<1>1. /\ n \in Nat /\ Len(Append(times, x)) = n + 1 /\ Append(times, x)[n + 1] = x
      /\ \A i \in 1..n : Append(times, x)[i] = times[i]
  OBVIOUS
<1>2. S \subseteq 1..n
  BY DEF After
<1>3. T = IF x > t THEN S \cup {n + 1} ELSE S
  BY <1>1 DEF After
<1>4. n + 1 \notin S
  BY <1>1, <1>2
<1> HIDE DEF n, S, T
<1>5. T = S <=> ~ (x > t)
  BY <1>3, <1>4
<1>6. /\ Cardinality(S) \in Nat
      /\ Cardinality(T) = Cardinality(S) + (IF T = S THEN 0 ELSE 1)
  <2>1. T = S \/ T = S \cup {n + 1}
    BY <1>3
  <2>2. n \in Nat
    BY <1>1
  <2> QED BY <1>2, <2>1, <2>2, OneMore
<1> QED BY <1>5, <1>6 DEF Count, S, T

\* An event more in the log.
LEMMA AskedAppend ==
  ASSUME NEW l \in Seq(Event), NEW e \in Event, NEW a, NEW t \in Int
  PROVE  /\ Cardinality(Asked(l, a, t)) \in Nat
         /\ Cardinality(Asked(Append(l, e), a, t)) =
              Cardinality(Asked(l, a, t)) + (IF IsAsked(e, a, t) THEN 1 ELSE 0)
<1> DEFINE n == Len(l)
           S == Asked(l, a, t)
           T == Asked(Append(l, e), a, t)
<1>1. /\ n \in Nat /\ Len(Append(l, e)) = n + 1 /\ Append(l, e)[n + 1] = e
      /\ \A i \in 1..n : Append(l, e)[i] = l[i]
  OBVIOUS
<1>2. S \subseteq 1..n
  BY DEF Asked
<1>3. T = IF IsAsked(e, a, t) THEN S \cup {n + 1} ELSE S
  BY <1>1 DEF Asked
<1>4. n + 1 \notin S
  BY <1>1, <1>2
<1> HIDE DEF n, S, T
<1>5. T = S <=> ~ IsAsked(e, a, t)
  BY <1>3, <1>4
<1>6. /\ Cardinality(S) \in Nat
      /\ Cardinality(T) = Cardinality(S) + (IF T = S THEN 0 ELSE 1)
  <2>1. T = S \/ T = S \cup {n + 1}
    BY <1>3
  <2>2. n \in Nat
    BY <1>1
  <2> QED BY <1>2, <2>1, <2>2, OneMore
<1> QED BY <1>5, <1>6 DEF S, T

\* What was allowed was asked for.
LEMMA GrantedIsAsked ==
  ASSUME NEW l \in Seq(Event), NEW a, NEW t
  PROVE  /\ Cardinality(Granted(l, a, t)) \in Nat
         /\ Cardinality(Granted(l, a, t)) <= Cardinality(Asked(l, a, t))
<1>1. Granted(l, a, t) \subseteq Asked(l, a, t)
  BY DEF Granted, Asked, IsGranted, IsAsked
<1>2. IsFiniteSet(1..Len(l)) /\ Asked(l, a, t) \subseteq 1..Len(l)
  BY FS_Interval DEF Asked
<1>3. IsFiniteSet(Asked(l, a, t))
  BY <1>2, FS_Subset
<1> QED BY <1>1, <1>3, FS_Subset, FS_CardinalityType

\* What the filter of the rate check keeps: as many requests after any time
\* within the window as there were, and none before the window.
LEMMA RecentCounts ==
  ASSUME EgressAssumption, now \in Nat, NEW times \in Seq(Nat)
  PROVE  /\ Recent(times) \in Seq(Nat)
         /\ \A t \in Int : t >= now - Window =>
              Count(Recent(times), t) = Count(times, t)
         /\ Len(Recent(times)) = Count(times, now - Window)
<1> DEFINE cutoff == now - Window
           Step(f, i) == IF i = 0 THEN <<>>
                         ELSE IF times[i] > now - Window
                              THEN Append(f[i - 1], times[i])
                         ELSE f[i - 1]
           Ok(f, n) == f = [i \in 0..n |-> Step(f, i)]
<1>0. cutoff \in Int
  BY DEF EgressAssumption
\* The function the filter is defined by exists.
<1>1. \E f : Ok(f, Len(times))
  <2> DEFINE T == {n \in Nat : \E f : Ok(f, n)}
  <2>1. 0 \in T
    <3> DEFINE f == [i \in 0..0 |-> <<>>]
    <3>1. Ok(f, 0)
      OBVIOUS
    <3> QED BY <3>1
  <2>2. ASSUME NEW n \in Nat, n \in T PROVE n + 1 \in T
    <3>1. PICK f : Ok(f, n)
      BY <2>2
    <3> DEFINE g == [i \in 0..(n + 1) |->
                       IF i = n + 1 THEN Step(f, n + 1) ELSE f[i]]
    <3>2. ASSUME NEW i \in 0..(n + 1) PROVE g[i] = Step(g, i)
      <4>a. \A j \in 0..n : f[j] = Step(f, j)
        <5> HIDE DEF Step
        <5> QED BY <3>1, Zenon
      <4>b. i # n + 1 => i \in 0..n
        OBVIOUS
      <4>1. i # n + 1 => g[i] = f[i] /\ f[i] = Step(f, i)
        <5> HIDE DEF Step, Ok
        <5> QED BY <4>a, <4>b
      <4>2. i # 0 => i - 1 \in 0..n /\ g[i - 1] = f[i - 1]
        OBVIOUS
      <4>3. g[n + 1] = Step(f, n + 1)
        OBVIOUS
      <4> HIDE DEF g, Ok
      <4> QED BY <4>1, <4>2, <4>3
    <3>3. Ok(g, n + 1)
      <4> SUFFICES g = [i \in 0..(n + 1) |-> Step(g, i)]
        OBVIOUS
      <4> DEFINE h == g
      <4>1. \A i \in 0..(n + 1) : h[i] = Step(h, i)
        <5> HIDE DEF Step, Ok
        <5> QED BY <3>2
      <4>2. h = [i \in 0..(n + 1) |-> h[i]]
        OBVIOUS
      <4> HIDE DEF Step, Ok, h
      <4>3. [i \in 0..(n + 1) |-> h[i]] = [i \in 0..(n + 1) |-> Step(h, i)]
        BY <4>1
      <4>4. h = [i \in 0..(n + 1) |-> Step(h, i)]
        BY <4>2, <4>3, Zenon
      <4> QED BY <4>4 DEF h
    <3> HIDE DEF g, Ok
    <3>4. \E k : Ok(k, n + 1)
      BY <3>3
    <3> QED BY <3>4
  <2>3. Nat \subseteq T
    <3> HIDE DEF T
    <3> QED BY <2>1, <2>2, AllNaturals
  <2> QED BY <2>3, Len(times) \in Nat
<1> DEFINE kept == CHOOSE f : Ok(f, Len(times))
<1>2. Ok(kept, Len(times))
  BY <1>1
<1>3. Recent(times) = kept[Len(times)]
  BY DEF Recent
<1> HIDE DEF kept
<1>4. /\ kept[0] = <<>>
      /\ \A n \in Nat : n + 1 <= Len(times) =>
           kept[n + 1] = IF times[n + 1] > cutoff
                         THEN Append(kept[n], times[n + 1]) ELSE kept[n]
  <2>1. \A i \in 0..Len(times) : kept[i] = Step(kept, i)
    <3> HIDE DEF Step
    <3> QED BY <1>2
  <2>2. kept[0] = <<>>
    BY <2>1, Len(times) \in Nat
  <2>3. ASSUME NEW n \in Nat, n + 1 <= Len(times)
        PROVE  kept[n + 1] = IF times[n + 1] > cutoff
                             THEN Append(kept[n], times[n + 1]) ELSE kept[n]
    <3>1. n + 1 \in 0..Len(times) /\ n + 1 # 0 /\ (n + 1) - 1 = n
      BY <2>3
    <3> QED BY <2>1, <3>1
  <2> QED BY <2>2, <2>3
<1> HIDE DEF Ok, Step, cutoff
<1> DEFINE P(n) == /\ kept[n] \in Seq(Nat)
                   /\ \A k \in 1..Len(kept[n]) : kept[n][k] > cutoff
                   /\ \A t \in Int : t >= cutoff =>
                        Count(kept[n], t) = Count(SubSeq(times, 1, n), t)
           T == {n \in Nat : n <= Len(times) => P(n)}
<1>5. 0 \in T
  <2>1. SubSeq(times, 1, 0) = <<>> /\ <<>> \in Seq(Nat) /\ Len(<<>>) = 0
    OBVIOUS
  <2>2. kept[0] \in Seq(Nat) /\ Len(kept[0]) = 0
    BY <1>4, <2>1
  <2>3. \A t \in Int : Count(kept[0], t) = Count(SubSeq(times, 1, 0), t)
    BY <1>4, <2>1, Zenon
  <2>4. P(0)
    BY <2>2, <2>3
  <2> HIDE DEF P
  <2> QED BY <2>4
<1>6. ASSUME NEW n \in Nat, P(n), n + 1 <= Len(times) PROVE P(n + 1)
  <2> DEFINE x == times[n + 1]
             before == SubSeq(times, 1, n)
  <2>1. /\ before \in Seq(Nat) /\ x \in Nat
        /\ SubSeq(times, 1, n + 1) = Append(before, x)
    BY <1>6
  <2>2. kept[n + 1] = IF x > cutoff THEN Append(kept[n], x) ELSE kept[n]
    BY <1>4, <1>6
  <2> HIDE DEF x, before
  <2>3. /\ kept[n] \in Seq(Nat)
        /\ \A k \in 1..Len(kept[n]) : kept[n][k] > cutoff
        /\ \A t \in Int : t >= cutoff => Count(kept[n], t) = Count(before, t)
    BY <1>6 DEF before
  <2>4. /\ kept[n + 1] \in Seq(Nat)
        /\ \A k \in 1..Len(kept[n + 1]) : kept[n + 1][k] > cutoff
    <3>1. CASE x > cutoff
      <4> DEFINE u == kept[n]
                 v == Append(u, x)
      <4>1. /\ u \in Seq(Nat) /\ v \in Seq(Nat) /\ Len(v) = Len(u) + 1
            /\ v[Len(u) + 1] = x /\ \A k \in 1..Len(u) : v[k] = u[k]
        BY <2>1, <2>3
      <4>2. \A k \in 1..Len(u) : u[k] > cutoff
        BY <2>3
      <4>3. kept[n + 1] = v
        BY <2>2, <3>1
      <4> HIDE DEF u, v
      <4>4. ASSUME NEW k \in 1..Len(v) PROVE v[k] > cutoff
        <5>1. k \in 1..Len(u) \/ k = Len(u) + 1
          BY <4>1
        <5> QED BY <3>1, <4>1, <4>2, <5>1
      <4> QED BY <4>1, <4>3, <4>4
    <3>2. CASE ~ (x > cutoff)
      BY <2>2, <2>3, <3>2
    <3> QED BY <3>1, <3>2
  <2>5. ASSUME NEW t \in Int, t >= cutoff
        PROVE  Count(kept[n + 1], t) = Count(Append(before, x), t)
    <3>1. /\ Count(before, t) \in Nat
          /\ Count(Append(before, x), t)
               = Count(before, t) + (IF x > t THEN 1 ELSE 0)
          /\ Count(Append(kept[n], x), t)
               = Count(kept[n], t) + (IF x > t THEN 1 ELSE 0)
      BY <2>1, <2>3, CountAppend
    <3>2. Count(kept[n], t) = Count(before, t)
      BY <2>3, <2>5
    <3>3. CASE x > cutoff
      BY <2>2, <3>1, <3>2, <3>3
    <3>4. CASE ~ (x > cutoff)
      <4>1. ~ (x > t)
        BY <1>0, <2>1, <2>5, <3>4
      <4> QED BY <2>2, <3>1, <3>2, <3>4, <4>1
    <3> QED BY <3>3, <3>4
  <2>6. \A t \in Int : t >= cutoff =>
          Count(kept[n + 1], t) = Count(SubSeq(times, 1, n + 1), t)
    BY <2>1, <2>5
  <2> QED BY <2>4, <2>6, Zenon
<1>7. Nat \subseteq T
  <2>1. ASSUME NEW n \in Nat, n \in T PROVE n + 1 \in T
    <3> HIDE DEF P
    <3> QED BY <1>6, <2>1
  <2> HIDE DEF T
  <2> QED BY <1>5, <2>1, AllNaturals
<1>8. P(Len(times))
  <2> HIDE DEF P
  <2> QED BY <1>7, Len(times) \in Nat
<1>9. SubSeq(times, 1, Len(times)) = times
  OBVIOUS
<1> DEFINE r == Recent(times)
<1>10. /\ r \in Seq(Nat)
       /\ \A k \in 1..Len(r) : r[k] > cutoff
       /\ \A t \in Int : t >= cutoff => Count(r, t) = Count(times, t)
  BY <1>3, <1>8, <1>9
<1> HIDE DEF r
<1>11. Count(r, cutoff) = Len(r)
  <2>1. After(r, cutoff) = 1..Len(r)
    BY <1>10 DEF After
  <2>2. \A n \in Nat : Cardinality(1..n) = n
    BY FS_Interval
  <2>3. Cardinality(1..Len(r)) = Len(r)
    BY <1>10, <2>2
  <2> QED BY <2>1, <2>3 DEF Count
<1> QED BY <1>0, <1>10, <1>11 DEF r, cutoff
-----------------------------------------------------------------------------
(***************************************************************************)
(* The rules and the buffer.                                               *)
(***************************************************************************)

\* A listed host has a rule.
LEMMA RuleForType ==
  ASSUME EgressAssumption, TypeOK, NEW h \in Hosts
  PROVE  RuleFor(h) \in Rule \cup {None}
<1>1. allowed[h] \in Rules \cup {None} /\ Rules \subseteq Rule
        /\ DefaultRule \in Rule
  BY DEF EgressAssumption, TypeOK
<1> QED BY <1>1, Zenon DEF RuleFor

\* Cutting the buffer leaves events, and no more than its bound.
LEMMA BoundedType ==
  ASSUME EgressAssumption, NEW buffer \in Seq(Event), NEW e \in Event,
         Len(buffer) <= MaxEvents
  PROVE  /\ Bounded(Append(buffer, e)) \in Seq(Event)
         /\ Len(Bounded(Append(buffer, e))) <= MaxEvents
<1> DEFINE u == Append(buffer, e)
<1>1. u \in Seq(Event) /\ Len(u) \in Nat /\ Len(u) <= MaxEvents + 1
  OBVIOUS
<1>2. KeptEvents \in Nat /\ MaxEvents \in Nat /\ KeptEvents <= MaxEvents
  BY DEF EgressAssumption
<1> HIDE DEF u
<1>3. CASE Len(u) > MaxEvents
  <2> DEFINE m == Len(u) - KeptEvents + 1
             v == SubSeq(u, m, Len(u))
  <2>1. m \in Int /\ m >= 1 /\ m <= Len(u) + 1
    BY <1>1, <1>2, <1>3
  <2>2. \A i \in m..Len(u) : u[i] \in Event
    BY <1>1, <2>1
  <2>3. v \in Seq(Event) /\ Len(v) = IF m <= Len(u) THEN Len(u) - m + 1 ELSE 0
    <3> HIDE DEF m
    <3> QED BY <1>1, <2>1, <2>2, SubSeqProperties
  <2>4. Bounded(u) = v
    BY <1>3 DEF Bounded
  <2>5. Len(v) <= MaxEvents
    <3> HIDE DEF v
    <3> QED BY <1>1, <1>2, <2>3
  <2> QED BY <2>3, <2>4, <2>5 DEF u
<1>4. CASE ~ (Len(u) > MaxEvents)
  <2>1. Bounded(u) = u
    BY <1>4 DEF Bounded
  <2> QED BY <1>1, <1>2, <1>4, <2>1 DEF u
<1> QED BY <1>3, <1>4
-----------------------------------------------------------------------------
(***************************************************************************)
(* The invariant.  Whatever the rate check drops is older than the window, *)
(* so at every time within it the history of an agent holds as many        *)
(* requests as it made since, according to the log.                        *)
(***************************************************************************)
CountInv ==
  \A a \in Agents : \A t \in Int :
    t >= now - Window => Cardinality(Asked(log, a, t)) = Count(history[a], t)

EgressInv == TypeOK /\ CountInv /\ AllowedWithinRate /\ DeniedForOwnRequests

\* The event is the one the counting needs: if it grants a request, this is
\* within the rate of its rule; if it denies it for the rate, it is beyond.
WithinRate(e) ==
  /\ e.decision = "allow" /\ e.rate > 0 =>
       Cardinality(Granted(Append(log, e), e.agent, e.timestamp - Window)) <= e.rate
  /\ e.decision = "deny_rate_limit" =>
       Cardinality(Asked(Append(log, e), e.agent, e.timestamp - Window)) >= e.rate

\* AskedWithin, of any log.
AskedUpTo(l, i) ==
  {j \in 1..i : /\ l[j].agent = l[i].agent /\ l[j].decision # "deny_domain"
                /\ l[j].timestamp > l[i].timestamp - Window}

\* AllowedWithin, of any log.
AllowedUpTo(l, a, i) ==
  {j \in 1..i : /\ l[j].agent = a /\ l[j].decision = "allow" /\ l[j].rate > 0
                /\ l[j].timestamp > l[i].timestamp - Window}

\* An event that is within its rate keeps the property of the log.
LEMMA RateStep ==
  ASSUME EgressAssumption, TypeOK, AllowedWithinRate,
         NEW e \in Event, WithinRate(e), log' = Append(log, e)
  PROVE  AllowedWithinRate'
<1> DEFINE n == Len(log)
           new == Append(log, e)
<1>1. /\ n \in Nat /\ Len(new) = n + 1 /\ new[n + 1] = e
      /\ \A j \in 1..n : new[j] = log[j]
  BY DEF TypeOK
<1> HIDE DEF n, new
<1>2. \A i \in 1..n : log[i].decision = "allow" /\ log[i].rate > 0
        => Cardinality(AllowedUpTo(log, log[i].agent, i)) <= log[i].rate
  BY DEF AllowedWithinRate, AllowedWithin, AllowedUpTo, n
<1>3. ASSUME NEW i \in 1..Len(new), new[i].decision = "allow", new[i].rate > 0
      PROVE  Cardinality(AllowedUpTo(new, new[i].agent, i)) <= new[i].rate
  <2>1. CASE i \in 1..n
    <3>1. new[i] = log[i] /\ \A j \in 1..i : new[j] = log[j]
      BY <1>1, <2>1
    <3>2. AllowedUpTo(new, new[i].agent, i) = AllowedUpTo(log, log[i].agent, i)
      BY <3>1 DEF AllowedUpTo
    <3> QED BY <1>2, <1>3, <2>1, <3>1, <3>2
  <2>2. CASE i = n + 1
    <3>1. new[i] = e
      BY <1>1, <2>2
    <3>2. AllowedUpTo(new, e.agent, i) = Granted(new, e.agent, e.timestamp - Window)
      BY <1>1, <2>2, <3>1 DEF AllowedUpTo, Granted, IsGranted
    <3>3. Cardinality(Granted(new, e.agent, e.timestamp - Window)) <= e.rate
      BY <1>3, <3>1 DEF WithinRate, new
    <3> QED BY <3>1, <3>2, <3>3
  <2> QED BY <1>1, <2>1, <2>2
<1>4. log' = new
  BY DEF new
<1> QED BY <1>3, <1>4 DEF AllowedWithinRate, AllowedWithin, AllowedUpTo

LEMMA DenyStep ==
  ASSUME EgressAssumption, TypeOK, DeniedForOwnRequests,
         NEW e \in Event, WithinRate(e), log' = Append(log, e)
  PROVE  DeniedForOwnRequests'
<1> DEFINE n == Len(log)
           new == Append(log, e)
<1>1. /\ n \in Nat /\ Len(new) = n + 1 /\ new[n + 1] = e
      /\ \A j \in 1..n : new[j] = log[j]
  BY DEF TypeOK
<1> HIDE DEF n, new
<1>2. \A i \in 1..n : log[i].decision = "deny_rate_limit"
        => Cardinality(AskedUpTo(log, i)) >= log[i].rate
  BY DEF DeniedForOwnRequests, AskedWithin, AskedUpTo, n
<1>3. ASSUME NEW i \in 1..Len(new), new[i].decision = "deny_rate_limit"
      PROVE  Cardinality(AskedUpTo(new, i)) >= new[i].rate
  <2>1. CASE i \in 1..n
    <3>1. new[i] = log[i] /\ \A j \in 1..i : new[j] = log[j]
      BY <1>1, <2>1
    <3>2. AskedUpTo(new, i) = AskedUpTo(log, i)
      BY <3>1 DEF AskedUpTo
    <3> QED BY <1>2, <1>3, <2>1, <3>1, <3>2
  <2>2. CASE i = n + 1
    <3>1. new[i] = e
      BY <1>1, <2>2
    <3>2. AskedUpTo(new, i) = Asked(new, e.agent, e.timestamp - Window)
      BY <1>1, <2>2, <3>1 DEF AskedUpTo, Asked, IsAsked
    <3>3. Cardinality(Asked(new, e.agent, e.timestamp - Window)) >= e.rate
      BY <1>3, <3>1 DEF WithinRate, new
    <3> QED BY <3>1, <3>2, <3>3
  <2> QED BY <1>1, <2>1, <2>2
<1>4. log' = new
  BY DEF new
<1> QED BY <1>3, <1>4 DEF DeniedForOwnRequests, AskedWithin, AskedUpTo

\* A request is recorded: the history of its agent grows with the log.
LEMMA CountStep ==
  ASSUME EgressAssumption, TypeOK, CountInv, NEW a \in Agents, NEW h \in Seq(Nat),
         history' = [history EXCEPT ![a] = h], now' = now,
         NEW e \in Event, e.agent = a, e.timestamp = now,
         e.decision # "deny_domain", log' = Append(log, e),
         \A t \in Int : t >= now - Window =>
           Count(h, t) = Count(Append(history[a], now), t)
  PROVE  CountInv'
<1> SUFFICES ASSUME NEW b \in Agents, NEW t \in Int, t >= now - Window
             PROVE  Cardinality(Asked(log', b, t)) = Count(history'[b], t)
  BY DEF CountInv
<1>1. /\ history[a] \in Seq(Nat) /\ history[b] \in Seq(Nat)
      /\ log \in Seq(Event) /\ now \in Nat
  BY DEF TypeOK
<1>2. Cardinality(Asked(log, b, t)) = Count(history[b], t)
  BY DEF CountInv
<1>3. /\ Cardinality(Asked(log, b, t)) \in Nat
      /\ Cardinality(Asked(log', b, t)) =
           Cardinality(Asked(log, b, t)) + (IF IsAsked(e, b, t) THEN 1 ELSE 0)
  BY <1>1, AskedAppend
<1>4. CASE b = a
  <2>1. history'[b] = h
    BY <1>4 DEF TypeOK
  <2>2. /\ Count(history[a], t) \in Nat
        /\ Count(h, t) = Count(history[a], t) + (IF now > t THEN 1 ELSE 0)
    <3>1. Count(h, t) = Count(Append(history[a], now), t)
      OBVIOUS
    <3> QED BY <1>1, <3>1, CountAppend
  <2>3. IsAsked(e, b, t) <=> now > t
    BY <1>4 DEF IsAsked
  <2> QED BY <1>2, <1>3, <1>4, <2>1, <2>2, <2>3
<1>5. CASE b # a
  <2>1. history'[b] = history[b]
    BY <1>5 DEF TypeOK
  <2>2. ~ IsAsked(e, b, t)
    BY <1>5 DEF IsAsked
  <2> QED BY <1>2, <1>3, <2>1, <2>2
<1> QED BY <1>4, <1>5

\* evaluate of a listed host.
LEMMA EvaluateStep ==
  ASSUME EgressAssumption, EgressInv, NEW a \in Agents, NEW h \in Hosts,
         NEW protocol, NEW size, Evaluate(a, h, protocol, size)
  PROVE  EgressInv'
<1> DEFINE rule == RuleFor(h)
           times == Append(history[a], now)
           recorded == RecordRequest(a)
           decision == Decide(rule, recorded[a], protocol, size)
           left == IF decision = "deny_protocol" THEN times ELSE Recent(times)
           e == [timestamp |-> now, agent |-> a, decision |-> decision,
                 rate |-> rule.rate]
<1>0. TypeOK /\ CountInv /\ AllowedWithinRate /\ DeniedForOwnRequests
  BY DEF EgressInv
<1>a. recorded[a] = times /\ recorded = [history EXCEPT ![a] = times]
  BY <1>0 DEF RecordRequest, TypeOK
<1>b. history' = IF decision = "deny_protocol" THEN recorded
                 ELSE [recorded EXCEPT ![a] = Recent(recorded[a])]
  BY Zenon DEF Evaluate
<1>c. history' = [history EXCEPT ![a] = left]
  <2> HIDE DEF decision, recorded, times
  <2>1. [recorded EXCEPT ![a] = Recent(times)] = [history EXCEPT ![a] = Recent(times)]
    <3> DEFINE r == Recent(times)
    <3> HIDE DEF r
    <3> QED BY <1>0, <1>a DEF TypeOK, r
  <2> QED BY <1>a, <1>b, <2>1
<1>1. /\ rule # None
      /\ events' = Bounded(Append(events, e)) /\ log' = Append(log, e)
      /\ allowed' = allowed /\ patterns' = patterns /\ now' = now
  BY DEF Evaluate, RecordEvent
<1>2. rule \in Rule
  BY <1>0, <1>1, RuleForType
<1>3. history[a] \in Seq(Nat) /\ times \in Seq(Nat) /\ now \in Nat
        /\ log \in Seq(Event) /\ events \in Seq(Event)
        /\ Len(events) <= MaxEvents
  BY <1>0 DEF TypeOK
<1>4. decision \in Decisions
  BY DEF Decide, Decisions
<1>5. /\ Recent(times) \in Seq(Nat)
      /\ Len(Recent(times)) = Count(times, now - Window)
      /\ \A t \in Int : t >= now - Window =>
           Count(Recent(times), t) = Count(times, t)
  BY <1>3, RecentCounts
<1>6. e \in Event
  <2>1. rule.rate \in Nat
    BY <1>2 DEF Rule
  <2> HIDE DEF decision, rule
  <2> QED BY <1>3, <1>4, <2>1 DEF Event
<1>7. /\ decision = "allow" => Len(Recent(times)) < rule.rate
      /\ decision = "deny_rate_limit" => Len(Recent(times)) >= rule.rate
  <2>1. /\ decision = "allow" => ~ (Len(Recent(times)) >= rule.rate)
        /\ decision = "deny_rate_limit" => Len(Recent(times)) >= rule.rate
    <3> HIDE DEF recorded, times, rule
    <3> QED BY <1>a DEF Decide
  <2>2. rule.rate \in Nat /\ Len(Recent(times)) \in Nat
    BY <1>2, <1>5 DEF Rule
  <2> QED BY <2>1, <2>2
<1>8. /\ e.agent = a /\ e.timestamp = now /\ e.rate = rule.rate
      /\ e.decision = decision /\ decision # "deny_domain"
  BY DEF Decide
<1>9. left \in Seq(Nat)
  BY <1>3, <1>5
<1>10. \A t \in Int : t >= now - Window => Count(left, t) = Count(times, t)
  BY <1>5
<1>11. now - Window \in Int
  BY <1>3 DEF EgressAssumption
<1> HIDE DEF rule, decision, left, e
<1>12. WithinRate(e)
  <2> DEFINE t == now - Window
  <2> SUFFICES /\ decision = "allow" =>
                    Cardinality(Granted(Append(log, e), a, t)) <= rule.rate
               /\ decision = "deny_rate_limit" =>
                    Cardinality(Asked(Append(log, e), a, t)) >= rule.rate
    BY <1>8 DEF WithinRate
  <2>0. t \in Int /\ t >= now - Window /\ now > t
    BY <1>3, <1>11 DEF EgressAssumption
  <2>1. Len(Recent(times)) = Count(times, t)
    BY <1>5
  <2> HIDE DEF t, times
  <2>a. IsAsked(e, a, t)
    BY <1>8, <2>0 DEF IsAsked
  <2>2. /\ Cardinality(Asked(log, a, t)) \in Nat
        /\ Cardinality(Asked(Append(log, e), a, t)) = Cardinality(Asked(log, a, t)) + 1
    BY <1>3, <1>6, <2>0, <2>a, AskedAppend
  <2>b. /\ Cardinality(Granted(Append(log, e), a, t)) \in Nat
        /\ Cardinality(Granted(Append(log, e), a, t))
             <= Cardinality(Asked(Append(log, e), a, t))
    <3>1. Append(log, e) \in Seq(Event)
      BY <1>3, <1>6
    <3> QED BY <3>1, GrantedIsAsked
  <2>3. Cardinality(Asked(log, a, t)) = Count(history[a], t)
    BY <1>0, <2>0 DEF CountInv
  <2>4. /\ Count(history[a], t) \in Nat
        /\ Count(times, t) = Count(history[a], t) + 1
    BY <1>3, <2>0, CountAppend DEF times
  <2>5. /\ decision = "allow" => Count(times, t) < rule.rate
        /\ decision = "deny_rate_limit" => Count(times, t) >= rule.rate
        /\ rule.rate \in Nat
    BY <1>2, <1>7, <2>1 DEF Rule
  <2> QED BY <2>2, <2>3, <2>4, <2>5, <2>b
<1>13. AllowedWithinRate' /\ DeniedForOwnRequests'
  BY <1>0, <1>1, <1>6, <1>12, RateStep, DenyStep
<1>14. CountInv'
  BY <1>0, <1>1, <1>c, <1>6, <1>8, <1>9, <1>10, CountStep
<1>15. TypeOK'
  <2>1. events' \in Seq(Event) /\ Len(events') <= MaxEvents
    BY <1>1, <1>3, <1>6, BoundedType
  <2>2. log' \in Seq(Event)
    BY <1>1, <1>3, <1>6
  <2>3. history' \in [Agents -> Seq(Nat)]
    BY <1>0, <1>c, <1>9 DEF TypeOK
  <2> QED BY <1>0, <1>1, <2>1, <2>2, <2>3 DEF TypeOK
<1> QED BY <1>13, <1>14, <1>15 DEF EgressInv

\* Every step keeps the invariant.
LEMMA EgressStep ==
  ASSUME EgressAssumption, EgressInv, [Next]_vars
  PROVE  EgressInv'
<1>0. /\ TypeOK /\ CountInv /\ AllowedWithinRate /\ DeniedForOwnRequests
      /\ history \in [Agents -> Seq(Nat)] /\ now \in Nat
      /\ log \in Seq(Event) /\ events \in Seq(Event)
      /\ Len(events) <= MaxEvents
  BY DEF EgressInv, TypeOK
<1>1. ASSUME history' = history, events' = events, log' = log, now' = now,
             allowed' \in [Hosts -> Rules \cup {None}], patterns' \subseteq Patterns
      PROVE  EgressInv'
  <2>1. TypeOK'
    BY <1>0, <1>1 DEF TypeOK
  <2>2. CountInv'
    BY <1>0, <1>1 DEF CountInv
  <2>3. AllowedWithinRate' /\ DeniedForOwnRequests'
    BY <1>0, <1>1 DEF AllowedWithinRate, AllowedWithin, DeniedForOwnRequests, AskedWithin
  <2> QED BY <2>1, <2>2, <2>3 DEF EgressInv
<1>2. ASSUME NEW h \in Hosts, NEW r \in Rules, AddDomain(h, r) PROVE EgressInv'
  <2>1. allowed' \in [Hosts -> Rules \cup {None}] /\ patterns' \subseteq Patterns
    BY <1>0, <1>2 DEF AddDomain, TypeOK
  <2> QED BY <1>1, <1>2, <2>1 DEF AddDomain
<1>3. ASSUME NEW p \in Patterns, AddWildcard(p) PROVE EgressInv'
  <2>1. allowed' \in [Hosts -> Rules \cup {None}] /\ patterns' \subseteq Patterns
    BY <1>0, <1>3 DEF AddWildcard, TypeOK
  <2> QED BY <1>1, <1>3, <2>1 DEF AddWildcard
<1>4. ASSUME NEW x, RemoveDomain(x) PROVE EgressInv'
  <2>1. allowed' \in [Hosts -> Rules \cup {None}] /\ patterns' \subseteq Patterns
    BY <1>0, <1>4 DEF RemoveDomain, TypeOK
  <2> QED BY <1>1, <1>4, <2>1 DEF RemoveDomain
<1>5. ASSUME NEW a \in Agents, NEW h \in Hosts, EvaluateUnlisted(a, h)
      PROVE  EgressInv'
  <2> DEFINE e == [timestamp |-> now, agent |-> a, decision |-> "deny_domain",
                   rate |-> 0]
  <2>1. /\ events' = Bounded(Append(events, e)) /\ log' = Append(log, e)
        /\ history' = history /\ allowed' = allowed /\ patterns' = patterns
        /\ now' = now
    BY <1>5 DEF EvaluateUnlisted, RecordEvent
  <2>2. e \in Event /\ e.decision = "deny_domain"
    BY <1>0 DEF Event, Decisions
  <2> HIDE DEF e
  <2>3. AllowedWithinRate' /\ DeniedForOwnRequests'
    BY <1>0, <2>1, <2>2, RateStep, DenyStep DEF WithinRate
  <2>4. CountInv'
    <3> SUFFICES ASSUME NEW b \in Agents, NEW t \in Int, t >= now - Window
                 PROVE  Cardinality(Asked(log', b, t)) = Count(history[b], t)
      BY <2>1 DEF CountInv
    <3>1. ~ IsAsked(e, b, t)
      BY <2>2 DEF IsAsked
    <3>2. Cardinality(Asked(log, b, t)) = Count(history[b], t)
      BY <1>0 DEF CountInv
    <3> QED BY <1>0, <2>1, <2>2, <3>1, <3>2, AskedAppend
  <2>5. TypeOK'
    <3>1. events' \in Seq(Event) /\ Len(events') <= MaxEvents
      BY <1>0, <2>1, <2>2, BoundedType
    <3>2. log' \in Seq(Event)
      BY <1>0, <2>1, <2>2
    <3> QED BY <1>0, <2>1, <3>1, <3>2 DEF TypeOK
  <2> QED BY <2>3, <2>4, <2>5 DEF EgressInv
<1>6. ASSUME NEW a \in Agents, LogConnection(a) PROVE EgressInv'
  <2> DEFINE e == [timestamp |-> now, agent |-> a, decision |-> "allow",
                   rate |-> 0]
             h == Append(history[a], now)
  <2>1. /\ events' = Bounded(Append(events, e)) /\ log' = Append(log, e)
        /\ history' = [history EXCEPT ![a] = h] /\ allowed' = allowed
        /\ patterns' = patterns /\ now' = now
    BY <1>6 DEF LogConnection, RecordRequest, RecordEvent
  <2>2. e \in Event /\ e.rate = 0 /\ e.agent = a /\ e.timestamp = now
        /\ e.decision = "allow"
    BY <1>0 DEF Event, Decisions
  <2>3. h \in Seq(Nat)
    BY <1>0
  <2> HIDE DEF e
  <2>4. AllowedWithinRate' /\ DeniedForOwnRequests'
    BY <1>0, <2>1, <2>2, RateStep, DenyStep DEF WithinRate
  <2>5. CountInv'
    BY <1>0, <2>1, <2>2, <2>3, CountStep
  <2> HIDE DEF h
  <2>6. TypeOK'
    <3>1. events' \in Seq(Event) /\ Len(events') <= MaxEvents
      BY <1>0, <2>1, <2>2, BoundedType
    <3>2. log' \in Seq(Event)
      BY <1>0, <2>1, <2>2
    <3>3. history' \in [Agents -> Seq(Nat)]
      BY <1>0, <2>1, <2>3
    <3> QED BY <1>0, <2>1, <3>1, <3>2, <3>3 DEF TypeOK
  <2> QED BY <2>4, <2>5, <2>6 DEF EgressInv
<1>7. CASE Tick
  <2>1. /\ now' = now + 1 /\ allowed' = allowed /\ patterns' = patterns
        /\ history' = history /\ events' = events /\ log' = log
    BY <1>7 DEF Tick
  <2>2. TypeOK'
    BY <1>0, <2>1 DEF TypeOK
  <2>3. CountInv'
    <3> SUFFICES ASSUME NEW b \in Agents, NEW t \in Int, t >= now' - Window
                 PROVE  Cardinality(Asked(log, b, t)) = Count(history[b], t)
      BY <2>1 DEF CountInv
    <3>1. t >= now - Window
      BY <1>0, <2>1 DEF EgressAssumption
    <3> QED BY <1>0, <3>1 DEF CountInv
  <2>4. AllowedWithinRate' /\ DeniedForOwnRequests'
    BY <1>0, <2>1 DEF AllowedWithinRate, AllowedWithin, DeniedForOwnRequests, AskedWithin
  <2> QED BY <2>2, <2>3, <2>4 DEF EgressInv
<1>8. CASE UNCHANGED vars
  <2>1. allowed' \in [Hosts -> Rules \cup {None}] /\ patterns' \subseteq Patterns
    BY <1>0, <1>8 DEF vars, TypeOK
  <2> QED BY <1>1, <1>8, <2>1 DEF vars
<1>9. ASSUME NEW a \in Agents, NEW h \in Hosts, NEW protocol, NEW size,
             Evaluate(a, h, protocol, size)
      PROVE  EgressInv'
  BY <1>9, EvaluateStep
<1> QED BY <1>2, <1>3, <1>4, <1>5, <1>6, <1>7, <1>8, <1>9 DEF Next, Configure

\* A proxy that has just been made satisfies the invariant.
LEMMA EgressInit == ASSUME EgressAssumption, Init PROVE EgressInv
<1>1. /\ log = <<>> /\ events = <<>> /\ now = 0 /\ MaxEvents \in Nat
      /\ history = [a \in Agents |-> <<>>] /\ allowed = [h \in Hosts |-> None]
      /\ patterns = {}
  BY DEF Init, EgressAssumption
<1>2. TypeOK
  BY <1>1 DEF TypeOK
<1>3. AllowedWithinRate /\ DeniedForOwnRequests
  BY <1>1 DEF AllowedWithinRate, DeniedForOwnRequests
<1>4. CountInv
  <2> SUFFICES ASSUME NEW a \in Agents, NEW t \in Int
               PROVE  Cardinality(Asked(log, a, t)) = Count(history[a], t)
    BY DEF CountInv
  <2>1. Asked(log, a, t) = {} /\ After(history[a], t) = {}
    BY <1>1 DEF Asked, After
  <2>2. Cardinality(Asked(log, a, t)) = 0 /\ Count(history[a], t) = 0
    BY <2>1, FS_EmptySet DEF Count
  <2> QED BY <2>2
<1> QED BY <1>2, <1>3, <1>4 DEF EgressInv
-----------------------------------------------------------------------------
\* Every variable of the proxy has its type, and the events it keeps stay within
\* their bound, however many requests were made.
THEOREM EventsStayBounded == Spec => []TypeOK
<1>1. Init => EgressInv
  BY EgressAssumption, EgressInit
<1>2. EgressInv /\ [Next]_vars => EgressInv'
  BY EgressAssumption, EgressStep
<1>3. EgressInv => TypeOK
  BY DEF EgressInv
<1> QED BY <1>1, <1>2, <1>3, PTL DEF Spec

\* "Per-agent rate limiting (requests/minute)": in no minute is an agent allowed
\* more requests than the rule that allows the last of them permits, over
\* whichever hosts they went and however the rules were changed in between.
THEOREM RateNeverExceeded == Spec => []AllowedWithinRate
<1>1. Init => EgressInv
  BY EgressAssumption, EgressInit
<1>2. EgressInv /\ [Next]_vars => EgressInv'
  BY EgressAssumption, EgressStep
<1>3. EgressInv => AllowedWithinRate
  BY DEF EgressInv
<1> QED BY <1>1, <1>2, <1>3, PTL DEF Spec

\* A request is denied for its rate only if its own agent asked, in the minute
\* before it, as often as the rule permits, counting this request and those that
\* were denied: neither older requests nor those of other agents count against
\* it, however many there were.
THEOREM DeniedOnlyForOwn == Spec => []DeniedForOwnRequests
<1>1. Init => EgressInv
  BY EgressAssumption, EgressInit
<1>2. EgressInv /\ [Next]_vars => EgressInv'
  BY EgressAssumption, EgressStep
<1>3. EgressInv => DeniedForOwnRequests
  BY DEF EgressInv
<1> QED BY <1>1, <1>2, <1>3, PTL DEF Spec
=============================================================================
