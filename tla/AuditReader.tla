----------------------------- MODULE AuditReader -----------------------------
(***************************************************************************)
(* The reading side of core/security/audit.py: query with its filters, its *)
(* early exits and its pages, get_recent, and the Merkle tree over the     *)
(* entry hashes with its root, its proofs and verify_merkle.               *)
(*                                                                         *)
(* Entries are stamped with time.time(), which may be set back.  SHA-256   *)
(* is injective: a leaf is the chain of contents its entry commits to, a   *)
(* node the pair of its children.                                          *)
(***************************************************************************)
EXTENDS Integers, Sequences, FiniteSets, SequencesExt

CONSTANTS Categories,   \* categories of entries
          None,          \* no filter on the category
          Limits,       \* values of limit
          Offsets,      \* values of offset
          Readers,      \* readers that page through the log: the category
                        \* each asks for and the order
          PageSize,     \* the limit they ask for
          Faults,       \* ways the entries in memory may be damaged
          ClockIsSet,   \* the clock may be set back
          MaxEntries,   \* bound: entries
          MaxTime,      \* bound: the clock
          MaxDamages,   \* bound: damages
          MaxLeaves     \* bound: leaves of the trees whose proofs are checked

ASSUME ReaderAssumption ==
  /\ None \notin Categories
  /\ Readers \subseteq [category: Categories \cup {None}, asc: BOOLEAN]
  /\ Limits \subseteq Nat /\ Offsets \subseteq Nat /\ PageSize \in Nat \ {0}
  /\ Faults \subseteq {"modify", "truncate", "repeat"}
  /\ ClockIsSet \in BOOLEAN
  /\ MaxEntries \in Nat /\ MaxTime \in Nat \ {0} /\ MaxDamages \in Nat
  /\ MaxLeaves \in Nat

VARIABLES log,     \* AuditLog._entries
          clock,   \* time.time()
          seen,    \* the entries each paging reader has been given
          anchor,  \* a root that was published, and the log it was taken of
          damages  \* history: damages so far

vars == <<log, clock, seen, anchor, damages>>

Time == 1..MaxTime
Content == [category: Categories, time: Time]
Hash == Seq(Content)
AuditEntry == [sequence: 1..MaxEntries, category: Categories, time: Time,
               entry_hash: Hash]

LastHash(entries) ==
  IF entries = <<>> THEN <<>> ELSE entries[Len(entries)].entry_hash

Entry(number, category, entries) ==
  [sequence |-> number, category |-> category, time |-> clock,
   entry_hash |-> Append(LastHash(entries), [category |-> category, time |-> clock])]

(***************************************************************************)
(* query.  None, and 0, mean no bound on the time.                         *)
(***************************************************************************)
Query == [category: Categories \cup {None}, since: 0..MaxTime, until: 0..MaxTime,
          limit: Limits, offset: Offsets, asc: BOOLEAN]

\* Mutant: newest first is by the time stamped on the entries.
InOrderOfTime(entries, q) ==
  IF q.asc THEN entries
  ELSE SetToSortSeq(ToSet(entries),
         LAMBDA e, f : \/ e.time > f.time
                       \/ e.time = f.time /\ e.sequence > f.sequence)

InOrder(entries, q) == IF q.asc THEN entries ELSE Reverse(entries)

OfCategory(entry, q) == q.category \in {None, entry.category}

TooEarly(entry, q) == q.since # 0 /\ entry.time < q.since
TooLate(entry, q) == q.until # 0 /\ entry.time > q.until

\* Mutant: an entry at the bound ends the scan as well.
EndsScanAtBound(entry, q) ==
  /\ OfCategory(entry, q)
  /\ IF q.asc THEN q.until # 0 /\ entry.time >= q.until
     ELSE q.since # 0 /\ entry.time <= q.since

\* Only an entry that passes the filter on the category ends the scan.
EndsScan(entry, q) ==
  /\ OfCategory(entry, q)
  /\ IF q.asc THEN ~TooEarly(entry, q) /\ TooLate(entry, q)
     ELSE TooEarly(entry, q)

Selected(entry, q) ==
  OfCategory(entry, q) /\ ~TooEarly(entry, q) /\ ~TooLate(entry, q)

\* The loop, as far as it has come: how many it has skipped, what it has found
\* and whether it has ended.
Started == [skipped |-> 0, results |-> <<>>, ended |-> FALSE]

\* Mutant: the offset counts entries before they are filtered.
VisitOffsetFirst(scan, entry, q) ==
  IF scan.ended \/ Len(scan.results) >= q.limit \/ EndsScan(entry, q)
  THEN [scan EXCEPT !.ended = TRUE]
  ELSE IF scan.skipped < q.offset THEN [scan EXCEPT !.skipped = @ + 1]
  ELSE IF Selected(entry, q) THEN [scan EXCEPT !.results = Append(@, entry)]
  ELSE scan

\* One more entry.
Visit(scan, entry, q) ==
  IF scan.ended \/ Len(scan.results) >= q.limit \/ EndsScan(entry, q)
  THEN [scan EXCEPT !.ended = TRUE]
  ELSE IF ~Selected(entry, q) THEN scan
  ELSE IF scan.skipped < q.offset THEN [scan EXCEPT !.skipped = @ + 1]
  ELSE [scan EXCEPT !.results = Append(@, entry)]

RunQuery(entries, q) ==
  LET s == InOrder(entries, q)
      scan[i \in 0..Len(s)] == IF i = 0 THEN Started ELSE Visit(scan[i - 1], s[i], q)
  IN scan[Len(s)].results

GetRecent(entries, seconds, limit) ==
  RunQuery(entries, [category |-> None, since |-> clock - seconds, until |-> 0,
                     limit |-> limit, offset |-> 0, asc |-> FALSE])

(***************************************************************************)
(* The Merkle tree.                                                        *)
(***************************************************************************)
EMPTY_LOG == [empty |-> TRUE]
Leaf(entry) == [leaf |-> entry.entry_hash]
Node(left, right) == [left |-> left, right |-> right]

\* Mutant: an odd leaf or node is left out.
PaddedShort(level) ==
  IF Len(level) % 2 = 1 THEN SubSeq(level, 1, Len(level) - 1) ELSE level

Padded(level) ==
  IF Len(level) % 2 = 1 THEN Append(level, level[Len(level)]) ELSE level

Parents(level) ==
  LET even == Padded(level)
  IN [i \in 1..(Len(even) \div 2) |-> Node(even[2 * i - 1], even[2 * i])]

\* The levels of the tree from the leaves up; the last one is repeated.
Levels(leaves) ==
  LET level[h \in 0..Len(leaves)] ==
        IF h = 0 THEN leaves
        ELSE LET below == level[h - 1]
             IN IF Len(below) > 1 THEN Parents(below) ELSE below
  IN level

\* compute_merkle_root
Leaves(entries) == [i \in 1..Len(entries) |-> Leaf(entries[i])]

\* _merkle_root
MerkleRoot(leaves) ==
  IF leaves = <<>> THEN EMPTY_LOG ELSE Levels(leaves)[Len(leaves)][1]

ComputeMerkleRoot(entries) == MerkleRoot(Leaves(entries))

\* How many levels have more than one node.
Height(levels) == Cardinality({h \in DOMAIN levels : Len(levels[h]) > 1})

\* Mutant: the proof lists the entry's own ancestors.
SiblingSelf(idx) == idx

\* idx ^ 1
Sibling(idx) == IF idx % 2 = 0 THEN idx + 1 ELSE idx - 1

\* The index of an entry's ancestor at level h.
IndexAt(number, h) ==
  LET idx[k \in 0..h] == IF k = 0 THEN number - 1 ELSE idx[k - 1] \div 2
  IN idx[h]

\* compute_merkle_proof of the entry with this sequence number
MerkleProof(leaves, number) ==
  IF number \notin 1..Len(leaves) THEN <<>>
  ELSE LET levels == Levels(leaves)
       IN [h \in 1..Height(levels) |->
             Padded(levels[h - 1])[Sibling(IndexAt(number, h - 1)) + 1]]

\* verify_merkle()["valid"]
VerifyMerkle(entries, expectedRoot) == ComputeMerkleRoot(entries) = expectedRoot

\* What a holder of a proof does with it: hash the leaf up to the root.
FoldProof(leaf, number, proof) ==
  LET node[h \in 0..Len(proof)] ==
        IF h = 0 THEN leaf
        ELSE LET below == node[h - 1]
             IN IF IndexAt(number, h - 1) % 2 = 0 THEN Node(below, proof[h])
                ELSE Node(proof[h], below)
  IN node[Len(proof)]

-----------------------------------------------------------------------------
Init ==
  /\ log = <<>>
  /\ clock = 1
  /\ seen = [r \in Readers |-> <<>>]
  /\ anchor = [root |-> EMPTY_LOG, of |-> <<>>]
  /\ damages = 0

Record(c) ==
  /\ Len(log) < MaxEntries
  /\ log' = Append(log, Entry(Len(log) + 1, c, log))
  /\ UNCHANGED <<clock, seen, anchor, damages>>

\* A reader outside of the program asks for the next page: what it has been
\* given so far is the offset.
NextPage(r) ==
  [category |-> r.category, since |-> 0, until |-> 0, limit |-> PageSize,
   offset |-> Len(seen[r]), asc |-> r.asc]

ReadPage(r) ==
  /\ seen' = [seen EXCEPT ![r] = @ \o RunQuery(log, NextPage(r))]
  /\ UNCHANGED <<log, clock, anchor, damages>>

\* The root is anchored outside of the program.
Anchor ==
  /\ anchor' = [root |-> ComputeMerkleRoot(log), of |-> log]
  /\ UNCHANGED <<log, clock, seen, damages>>

Tick ==
  /\ clock < MaxTime
  /\ clock' = clock + 1
  /\ UNCHANGED <<log, seen, anchor, damages>>

SetBack ==
  /\ ClockIsSet /\ clock > 1
  /\ clock' = clock - 1
  /\ UNCHANGED <<log, seen, anchor, damages>>

\* The entries are damaged behind the API.  "modify" rewrites an entry and
\* its hash, "truncate" loses the last one, "repeat" stores it twice.
Damage(fault) ==
  /\ fault \in Faults /\ log # <<>>
  /\ CASE fault = "modify" ->
            \E i \in 1..Len(log), c \in Categories :
              log' = [log EXCEPT ![i] = Entry(i, c, SubSeq(log, 1, i - 1))]
       [] fault = "truncate" -> log' = SubSeq(log, 1, Len(log) - 1)
       [] fault = "repeat" -> /\ Len(log) < MaxEntries
                              /\ log' = Append(log, log[Len(log)])
  /\ damages < MaxDamages
  /\ damages' = damages + 1
  /\ UNCHANGED <<clock, seen, anchor>>

Next ==
  \/ \E c \in Categories : Record(c)
  \/ \E r \in Readers : ReadPage(r)
  \/ Anchor \/ Tick \/ SetBack
  \/ \E fault \in Faults : Damage(fault)

Spec == Init /\ [][Next]_vars

-----------------------------------------------------------------------------
(***************************************************************************)
(* Properties.                                                             *)
(***************************************************************************)

\* Every variable has its type.
TypeOK ==
  /\ log \in Seq(AuditEntry)
  /\ clock \in Time
  /\ seen \in [Readers -> Seq(AuditEntry)]
  /\ anchor.of \in Seq(AuditEntry)
  /\ damages \in Nat

\* The elements of s at the positions given, in their order.
Picked(s, positions) ==
  LET picked[i \in 0..Len(s)] ==
        IF i = 0 THEN <<>>
        ELSE IF i \in positions THEN Append(picked[i - 1], s[i]) ELSE picked[i - 1]
  IN picked[Len(s)]

Page(results, q) ==
  SubSeq(results, q.offset + 1,
         IF q.offset + q.limit < Len(results) THEN q.offset + q.limit
         ELSE Len(results))

\* What a query means: the entries that pass every filter, in the order
\* asked for, without the first offset and no more than limit of them.
Meaning(entries, q) ==
  LET s == InOrder(entries, q)
  IN Page(Picked(s, {i \in 1..Len(s) : Selected(s[i], q)}), q)

\* Ending the scan early loses nothing: query returns what its arguments
\* mean, as long as no entry is older than the one before it.
QueryIsFilter ==
  (\A i \in 1..(Len(log) - 1) : log[i].time <= log[i + 1].time)
    => \A q \in Query : RunQuery(log, q) = Meaning(log, q)

\* The entries of the category that a reader asks for.
Asked(r) ==
  Picked(log, {i \in 1..Len(log) : r.category \in {None, log[i].category}})

\* A reader that takes the log page by page, oldest first, while entries are
\* recorded, is given every entry of its category once and in order.
PagesAreExact ==
  damages = 0 => \A r \in Readers : r.asc =>
    /\ Len(seen[r]) <= Len(Asked(r))
    /\ seen[r] = SubSeq(Asked(r), 1, Len(seen[r]))

\* In the default order, newest first, entries that are recorded between two
\* pages push older ones into the next page again, but none out of it: what a
\* reader is given is followed by the entry before it, or by a newer one.
PagesLeaveNoGap ==
  damages = 0 => \A r \in Readers : ~r.asc =>
    \A j \in 1..Len(seen[r]) : \E i \in 1..Len(Asked(r)) :
      /\ seen[r][j] = Asked(r)[i]
      /\ j > 1 => \E k \in 1..(i + 1) :
                   k <= Len(Asked(r)) /\ seen[r][j - 1] = Asked(r)[k]

\* "filters and pagination": no reader is given an entry twice.
PagesNeverRepeat ==
  damages = 0 => \A r \in Readers : IsInjective(seen[r])

\* "Get events from the last N seconds": get_recent misses none of them.
RecentIsComplete ==
  \A seconds \in 1..(MaxTime - 1) : clock > seconds =>
    \A i \in 1..Len(log) :
      log[i].time >= clock - seconds =>
        \E j \in 1..Len(GetRecent(log, seconds, MaxEntries)) :
          GetRecent(log, seconds, MaxEntries)[j] = log[i]

\* A Merkle proof leads from its leaf, and from no other, to the root.  The
\* tree of the log is checked in every state, and at the start, the shape of
\* a tree being a matter of its size, trees of up to MaxLeaves other leaves.
ProofsVerify ==
  LET trees == IF log # <<>> THEN {Leaves(log)}
               ELSE {[i \in 1..n |-> [leaf |-> i]] : n \in 1..MaxLeaves}
  IN \A leaves \in trees : \A i, j \in DOMAIN leaves :
       FoldProof(leaves[j], i, MerkleProof(leaves, i)) = MerkleRoot(leaves)
         <=> leaves[j] = leaves[i]

\* "The root commits to the entire log": verify_merkle accepts an anchored
\* root exactly if the log is the one the root was taken of.
RootCommits == VerifyMerkle(log, anchor.root) <=> log = anchor.of
=============================================================================
