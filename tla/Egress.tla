------------------------------- MODULE Egress -------------------------------
(***************************************************************************)
(* The egress proxy of core/security/egress.py: the allowlist and the      *)
(* wildcard patterns, the order of the checks in evaluate, the request     *)
(* history behind the rate limit and the bounded buffer of events.         *)
(* time.time() is a clock that does not step back.                         *)
(***************************************************************************)
EXTENDS Integers, Sequences, FiniteSets

CONSTANTS Agents, Hosts,
          Patterns,      \* wildcard patterns
          Matches,       \* fnmatch: the hosts each pattern matches
          Rules,         \* the rules add_domain is called with
          DefaultRule,   \* the rule of a host that only a pattern matches
          None,
          Window,        \* the minute of the rate limit
          MaxEvents,     \* 10000: above it the buffer is cut ...
          KeptEvents,    \* ... to the last 5000 events
          MaxLog,        \* bound: events over all
          MaxTime        \* bound: the clock

Rule == [protocol: {"https", "wss"}, size: Nat, rate: Nat]

ASSUME EgressAssumption ==
  /\ Matches \in [Patterns -> SUBSET Hosts]
  /\ Rules \subseteq Rule /\ DefaultRule \in Rule /\ None \notin Rule
  /\ Window \in Nat \ {0}
  /\ KeptEvents \in Nat /\ MaxEvents \in Nat /\ KeptEvents <= MaxEvents
  /\ MaxLog \in Nat /\ MaxTime \in Nat

VARIABLES allowed,   \* _allowed_domains: the rule of each host, or None
          patterns,  \* _domain_patterns
          history,   \* _request_history: times, per agent
          events,    \* _events
          now,       \* time.time()
          log        \* history: every event ever recorded

vars == <<allowed, patterns, history, events, now, log>>

Decisions == {"allow", "deny_domain", "deny_protocol", "deny_rate_limit",
              "deny_size_limit"}

\* What the properties need of an EgressEvent; rate is the limit of the rule
\* that was applied.
Event == [timestamp: Nat, agent: Agents, decision: Decisions, rate: Nat]

Init ==
  /\ allowed = [h \in Hosts |-> None]
  /\ patterns = {}
  /\ history = [a \in Agents |-> <<>>]
  /\ events = <<>>
  /\ now = 0
  /\ log = <<>>

AddDomain(h, r) ==
  /\ allowed' = [allowed EXCEPT ![h] = r]
  /\ UNCHANGED <<patterns, history, events, now, log>>

AddWildcard(p) ==
  /\ patterns' = patterns \cup {p}
  /\ UNCHANGED <<allowed, history, events, now, log>>

\* remove_domain drops the rule of the host; a pattern goes only if it is
\* given literally.
RemoveDomain(x) ==
  /\ allowed' = [h \in Hosts |-> IF h = x THEN None ELSE allowed[h]]
  /\ patterns' = patterns \ {x}
  /\ UNCHANGED <<history, events, now, log>>

-----------------------------------------------------------------------------
\* The rule for a host, None if the host is not listed.
RuleFor(h) ==
  IF allowed[h] # None THEN allowed[h]
  ELSE IF \E p \in patterns : h \in Matches[p] THEN DefaultRule
  ELSE None

\* Mutant: the window is a tick short.
RecentShort(times) == SelectSeq(times, LAMBDA t : t > now - Window + 1)

\* The requests of the last minute, filtered one by one.
Recent(times) ==
  LET kept[i \in 0..Len(times)] ==
        IF i = 0 THEN <<>>
        ELSE IF times[i] > now - Window THEN Append(kept[i - 1], times[i])
        ELSE kept[i - 1]
  IN kept[Len(times)]

\* The checks that follow the domain check; times holds this request, too.
Decide(rule, times, protocol, size) ==
  IF protocol # rule.protocol THEN "deny_protocol"
  ELSE IF Len(Recent(times)) >= rule.rate THEN "deny_rate_limit"
  ELSE IF size > rule.size THEN "deny_size_limit"
  ELSE "allow"

\* Mutant: the buffer is never cut.
BoundedNever(buffer) == buffer

\* _record_event keeps the buffer bounded.
Bounded(buffer) ==
  IF Len(buffer) > MaxEvents
  THEN SubSeq(buffer, Len(buffer) - KeptEvents + 1, Len(buffer)) ELSE buffer

RecordEvent(event) ==
  /\ Len(log) < MaxLog
  /\ events' = Bounded(Append(events, event))
  /\ log' = Append(log, event)

EvaluateUnlisted(a, h) ==
  /\ RuleFor(h) = None
  /\ RecordEvent([timestamp |-> now, agent |-> a, decision |-> "deny_domain",
                  rate |-> 0])
  /\ UNCHANGED <<allowed, patterns, history, now>>

\* Mutant: one history for all agents.
RecordRequestForAll(a) == [b \in Agents |-> Append(history[b], now)]

RecordRequest(a) == [history EXCEPT ![a] = Append(@, now)]

\* The request is counted before it is checked; only the rate check drops
\* the old entries.
Evaluate(a, h, protocol, size) ==
  LET rule == RuleFor(h)
      times == RecordRequest(a)
      decision == Decide(rule, times[a], protocol, size)
  IN /\ rule # None
     /\ history' = IF decision = "deny_protocol" THEN times
                   ELSE [times EXCEPT ![a] = Recent(@)]
     /\ RecordEvent([timestamp |-> now, agent |-> a, decision |-> decision,
                     rate |-> rule.rate])
     /\ UNCHANGED <<allowed, patterns, now>>

\* log_connection counts the connection a second time.
LogConnection(a) ==
  /\ history' = RecordRequest(a)
  /\ RecordEvent([timestamp |-> now, agent |-> a, decision |-> "allow",
                  rate |-> 0])
  /\ UNCHANGED <<allowed, patterns, now>>

Tick ==
  /\ now < MaxTime
  /\ now' = now + 1
  /\ UNCHANGED <<allowed, patterns, history, events, log>>

Configure ==
  \/ \E h \in Hosts, r \in Rules : AddDomain(h, r)
  \/ \E p \in Patterns : AddWildcard(p)
  \/ \E x \in Hosts \cup Patterns : RemoveDomain(x)

Next ==
  \/ Configure
  \/ \E a \in Agents, h \in Hosts :
       \/ EvaluateUnlisted(a, h)
       \/ \E protocol \in {"https", "http"}, size \in {0, 2} :
            Evaluate(a, h, protocol, size)
  \/ \E a \in Agents : LogConnection(a)
  \/ Tick

Spec == Init /\ [][Next]_vars
-----------------------------------------------------------------------------
(***************************************************************************)
(* Properties.                                                             *)
(***************************************************************************)

\* Every variable has its type, and no buffer outgrows its bound.
TypeOK ==
  /\ allowed \in [Hosts -> Rules \cup {None}]
  /\ patterns \subseteq Patterns
  /\ history \in [Agents -> Seq(Nat)]
  /\ events \in Seq(Event) /\ Len(events) <= MaxEvents
  /\ now \in Nat
  /\ log \in Seq(Event)

\* The requests of a, allowed under some rule, up to the i-th event and in
\* the minute before it.
AllowedWithin(a, i) ==
  {j \in 1..i : /\ log[j].agent = a /\ log[j].decision = "allow"
                /\ log[j].rate > 0
                /\ log[j].timestamp > log[i].timestamp - Window}

\* "Per-agent rate limiting (requests/minute)": no minute holds more allowed
\* requests of an agent than the rule of the last of them permits, over
\* whichever hosts and however the rules change.
AllowedWithinRate ==
  \A i \in 1..Len(log) :
    log[i].decision = "allow" /\ log[i].rate > 0
      => Cardinality(AllowedWithin(log[i].agent, i)) <= log[i].rate

\* What the agent of the i-th event asked for up to then, in the minute before
\* it: its requests to listed hosts, denied ones too, and its connections.
AskedWithin(i) ==
  {j \in 1..i : /\ log[j].agent = log[i].agent
                /\ log[j].decision # "deny_domain"
                /\ log[j].timestamp > log[i].timestamp - Window}

\* A request is denied for its rate only if its own agent, in the minute before
\* it, asked as often as the rule permits, this request and those denied or
\* logged twice included: neither older requests nor those of other agents
\* count.  (An agent that asks again and again is denied again and again, and
\* a rule of one request a minute denies them all.)
DeniedForOwnRequests ==
  \A i \in 1..Len(log) :
    log[i].decision = "deny_rate_limit" => Cardinality(AskedWithin(i)) >= log[i].rate

\* max_requests_per_minute: a request is denied for its rate only if the
\* agent has made that many requests in the minute before it.
DeniedMeansOverRate ==
  \A i \in 1..Len(log) :
    log[i].decision = "deny_rate_limit" => Cardinality(AskedWithin(i)) > log[i].rate

\* "Connection audit: every outbound connection is logged": the events hold
\* every connection that was allowed.
EveryConnectionIsLogged ==
  \A i \in 1..Len(log) :
    log[i].decision = "allow" => \E j \in 1..Len(events) : events[j] = log[i]
=============================================================================
