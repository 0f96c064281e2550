----------------------------- MODULE AuditProofs -----------------------------
(***************************************************************************)
(* Proofs about the audit log, for any contents, any bounds and any number *)
(* of crashes.                                                             *)
(***************************************************************************)
EXTENDS AuditLog, SequenceTheorems, FiniteSetTheorems,
        WellFoundedInduction, TLAPS

(***************************************************************************)
(* Chains.                                                                 *)
(***************************************************************************)

\* The hash of the last entry, or the genesis hash, is a hash.
LEMMA LastHashType ==
  ASSUME NEW log \in Seq(AuditEntry)
  PROVE  LastHash(log) \in Hash
<1>1. CASE log = <<>>
  BY <1>1 DEF LastHash, Hash, GENESIS
<1>2. CASE log # <<>>
  <2>1. Len(log) \in 1..Len(log) /\ log[Len(log)] \in AuditEntry
    BY <1>2
  <2> QED BY <1>2, <2>1 DEF LastHash, AuditEntry
<1> QED BY <1>1, <1>2

\* What record appends is an entry.
LEMMA SealedType ==
  ASSUME NEW log \in Seq(AuditEntry), NEW c \in Contents
  PROVE  Sealed(c, log) \in AuditEntry
<1>1. LastHash(log) \in Hash /\ Append(LastHash(log), c) \in Hash
  BY LastHashType DEF Hash
<1> QED BY <1>1 DEF Sealed, AuditEntry, ComputeHash

\* A part of a chain from its start is a chain.
LEMMA PrefixOfChain ==
  ASSUME NEW log \in Seq(AuditEntry), NEW more \in Seq(AuditEntry),
         VerifyChain(log \o more)
  PROVE  VerifyChain(log)
<1> SUFFICES ASSUME NEW i \in 1..Len(log)
             PROVE  Follows(log[i], SubSeq(log, 1, i - 1))
  BY DEF VerifyChain
<1>1. i \in 1..Len(log \o more) /\ (log \o more)[i] = log[i]
  OBVIOUS
<1>2. SubSeq(log \o more, 1, i - 1) = SubSeq(log, 1, i - 1)
  OBVIOUS
<1> QED BY <1>1, <1>2 DEF VerifyChain

\* A chain continued by an entry that follows it is a chain.
LEMMA ExtendedChain ==
  ASSUME NEW log \in Seq(AuditEntry), VerifyChain(log),
         NEW e \in AuditEntry, Follows(e, log)
  PROVE  VerifyChain(Append(log, e))
<1> SUFFICES ASSUME NEW i \in 1..Len(Append(log, e))
             PROVE  Follows(Append(log, e)[i], SubSeq(Append(log, e), 1, i - 1))
  BY DEF VerifyChain
<1>1. CASE i <= Len(log)
  <2>1. Append(log, e)[i] = log[i]
    BY <1>1
  <2>2. SubSeq(Append(log, e), 1, i - 1) = SubSeq(log, 1, i - 1)
    BY <1>1
  <2>3. i \in 1..Len(log)
    BY <1>1
  <2>4. Follows(log[i], SubSeq(log, 1, i - 1))
    BY <2>3 DEF VerifyChain
  <2> QED BY <2>1, <2>2, <2>4
<1>2. CASE i = Len(log) + 1
  <2>1. Append(log, e)[i] = e
    BY <1>2
  <2>2. SubSeq(Append(log, e), 1, i - 1) = log
    BY <1>2
  <2> QED BY <2>1, <2>2
<1> QED BY <1>1, <1>2

\* A prefix of a concatenation that reaches into the second sequence.
LEMMA PrefixOfConcat ==
  ASSUME NEW S, NEW s \in Seq(S), NEW t \in Seq(S),
         NEW i \in (Len(s) + 1)..(Len(s) + Len(t))
  PROVE  SubSeq(s \o t, 1, i - 1) = s \o SubSeq(t, 1, i - 1 - Len(s))
<1> DEFINE k == i - 1 - Len(s)
           left == SubSeq(s \o t, 1, i - 1)
           u == SubSeq(t, 1, k)
<1>1. k \in Nat /\ k <= Len(t) /\ i - 1 = Len(s) + k
  OBVIOUS
<1>2. s \o t \in Seq(S) /\ Len(s \o t) = Len(s) + Len(t)
  OBVIOUS
<1>3. u \in Seq(S) /\ Len(u) = k /\ \A j \in 1..k : u[j] = t[j]
  OBVIOUS
<1>4. /\ left \in Seq(S) /\ Len(left) = i - 1
      /\ \A j \in 1..(i - 1) : left[j] = (s \o t)[j]
  <2> DEFINE w == s \o t
  <2>1. w \in Seq(S) /\ i - 1 \in 0..Len(w)
    BY <1>2
  <2> HIDE DEF w
  <2>2. /\ SubSeq(w, 1, i - 1) \in Seq(S) /\ Len(SubSeq(w, 1, i - 1)) = i - 1
        /\ \A j \in 1..(i - 1) : SubSeq(w, 1, i - 1)[j] = w[j]
    BY <2>1
  <2> QED BY <2>2 DEF w
<1> HIDE DEF left, u, k
<1>5. /\ s \o u \in Seq(S) /\ Len(s \o u) = i - 1
  <2>1. s \o u \in Seq(S) /\ Len(s \o u) = Len(s) + Len(u)
    BY <1>3, ConcatProperties
  <2> QED BY <1>1, <1>3, <2>1
<1>6. ASSUME NEW j \in 1..(i - 1)
      PROVE  left[j] = (s \o u)[j]
  <2>0. /\ left[j] = (s \o t)[j]
        /\ j \in 1..(Len(s) + Len(t)) /\ j \in 1..(Len(s) + Len(u))
    BY <1>1, <1>3, <1>4
  <2>1. CASE j <= Len(s)
    BY <1>3, <2>0, <2>1, ConcatProperties
  <2>2. CASE j > Len(s)
    <3>1. j - Len(s) \in 1..k
      BY <1>1, <2>2
    <3>2. left[j] = t[j - Len(s)]
      BY <2>0, <2>2, ConcatProperties
    <3>3. (s \o u)[j] = u[j - Len(s)]
      BY <1>3, <2>0, <2>2, ConcatProperties
    <3> QED BY <1>3, <3>1, <3>2, <3>3
  <2>3. j <= Len(s) \/ j > Len(s)
    OBVIOUS
  <2> QED BY <2>1, <2>2, <2>3
<1>7. left = s \o u
  BY <1>4, <1>5, <1>6, SeqEqual
<1> QED BY <1>7 DEF left, u, k

\* The lines import_jsonl accepts are entries and continue the chain.
LEMMA ImportedChain ==
  ASSUME NEW log \in Seq(AuditEntry), NEW lines \in Seq(Line),
         NEW n \in 0..Len(lines), ImportsUpTo(lines, log, n)
  PROVE  /\ SubSeq(lines, 1, n) \in Seq(AuditEntry)
         /\ VerifyChain(log) => VerifyChain(log \o SubSeq(lines, 1, n))
<1> DEFINE taken == SubSeq(lines, 1, n)
<1>1. Len(taken) = n /\ \A i \in 1..n : taken[i] = lines[i]
  OBVIOUS
<1>2. \A i \in 1..n : lines[i] \in AuditEntry
  BY DEF ImportsUpTo, IsEntry, Line
<1>3. taken \in Seq(AuditEntry)
  BY <1>1, <1>2
<1>4. ASSUME VerifyChain(log), NEW i \in 1..Len(log \o taken)
      PROVE  Follows((log \o taken)[i], SubSeq(log \o taken, 1, i - 1))
  <2>1. CASE i <= Len(log)
    <3>1. (log \o taken)[i] = log[i]
      BY <1>3, <2>1
    <3>2. SubSeq(log \o taken, 1, i - 1) = SubSeq(log, 1, i - 1)
      BY <1>3, <2>1
    <3>3. i \in 1..Len(log)
      BY <1>3, <2>1
    <3>4. Follows(log[i], SubSeq(log, 1, i - 1))
      BY <1>4, <3>3 DEF VerifyChain
    <3> QED BY <3>1, <3>2, <3>4
  <2>2. CASE i > Len(log)
    <3> DEFINE k == i - Len(log)
    <3>1. k \in 1..n /\ (log \o taken)[i] = lines[k]
      BY <1>1, <1>3, <1>4, <2>2
    <3>2. SubSeq(log \o taken, 1, i - 1) = log \o SubSeq(lines, 1, k - 1)
      <4>1. SubSeq(log \o taken, 1, i - 1) = log \o SubSeq(taken, 1, i - 1 - Len(log))
        <5> HIDE DEF taken
        <5> QED BY <1>1, <1>3, <1>4, <2>2, PrefixOfConcat
      <4>2. i - 1 - Len(log) = k - 1
        OBVIOUS
      <4>3. SubSeq(taken, 1, k - 1) = SubSeq(lines, 1, k - 1)
        BY <3>1
      <4> QED BY <4>1, <4>2, <4>3
    <3> QED BY <3>1, <3>2 DEF ImportsUpTo, Acceptable
  <2> QED BY <1>3, <1>4, <2>1, <2>2
<1> QED BY <1>3, <1>4 DEF VerifyChain

\* Changing the content of an entry of a chain breaks the chain there: the
\* entry's own hash no longer matches.
LEMMA ModifiedChain ==
  ASSUME NEW log \in Seq(AuditEntry), VerifyChain(log),
         NEW i \in 1..Len(log), NEW c \in Contents, log[i].content # c
  PROVE  /\ [log EXCEPT ![i].content = c] \in Seq(AuditEntry)
         /\ ~VerifyChain([log EXCEPT ![i].content = c])
<1> DEFINE new == [log EXCEPT ![i].content = c]
<1>1. log[i] \in AuditEntry
  OBVIOUS
<1>2. [log[i] EXCEPT !.content = c] \in AuditEntry
  BY <1>1 DEF AuditEntry
<1>3. new = [log EXCEPT ![i] = [log[i] EXCEPT !.content = c]]
  OBVIOUS
<1>4. /\ new \in Seq(AuditEntry) /\ Len(new) = Len(log)
      /\ new[i] = [log[i] EXCEPT !.content = c]
  BY <1>2, <1>3, ExceptSeq
<1>5. /\ new[i].content = c /\ new[i].prev_hash = log[i].prev_hash
      /\ new[i].entry_hash = log[i].entry_hash
  BY <1>1, <1>4 DEF AuditEntry
<1>6. log[i].entry_hash = Append(log[i].prev_hash, log[i].content)
  BY DEF VerifyChain, Follows, ComputeHash
<1>7. log[i].prev_hash \in Seq(Contents) /\ log[i].content \in Contents
  BY <1>1 DEF AuditEntry, Hash
<1>8. Append(log[i].prev_hash, log[i].content) # Append(log[i].prev_hash, c)
  <2>1. /\ Append(log[i].prev_hash, log[i].content)[Len(log[i].prev_hash) + 1]
             = log[i].content
        /\ Append(log[i].prev_hash, c)[Len(log[i].prev_hash) + 1] = c
    BY <1>7
  <2> QED BY <2>1
<1>9. ~Follows(new[i], SubSeq(new, 1, i - 1))
  <2> HIDE DEF new
  <2> QED BY <1>5, <1>6, <1>8 DEF Follows, ComputeHash
<1>10. ~VerifyChain(new)
  <2> HIDE DEF new
  <2> QED BY <1>4, <1>9 DEF VerifyChain
<1> QED BY <1>4, <1>10

\* Removing an entry other than the last breaks the numbering.
LEMMA GappedChain ==
  ASSUME NEW log \in Seq(AuditEntry), VerifyChain(log), NEW i \in 1..Len(log)
  PROVE  /\ Without(log, i) \in Seq(AuditEntry)
         /\ i < Len(log) => ~VerifyChain(Without(log, i))
<1> DEFINE before == SubSeq(log, 1, i - 1)
           after == SubSeq(log, i + 1, Len(log))
<1>1. before \in Seq(AuditEntry) /\ Len(before) = i - 1
  OBVIOUS
<1>2. /\ after \in Seq(AuditEntry) /\ Len(after) = Len(log) - i
      /\ i < Len(log) => after[1] = log[i + 1]
  OBVIOUS
<1>3. Without(log, i) = before \o after
  BY DEF Without
<1>4. ASSUME i < Len(log) PROVE ~VerifyChain(Without(log, i))
  <2> DEFINE new == before \o after
  <2>1. /\ new \in Seq(AuditEntry) /\ Len(new) = Len(log) - 1
        /\ new[i] = after[1]
    <3> HIDE DEF before, after
    <3>1. /\ new \in Seq(AuditEntry) /\ Len(new) = Len(before) + Len(after)
          /\ \A j \in 1..(Len(before) + Len(after)) : new[j] =
               IF j <= Len(before) THEN before[j] ELSE after[j - Len(before)]
      BY <1>1, <1>2, ConcatProperties
    <3>2. i \in 1..(Len(before) + Len(after)) /\ ~ (i <= Len(before))
            /\ i - Len(before) = 1
      BY <1>1, <1>2, <1>4
    <3> QED BY <1>1, <1>2, <3>1, <3>2
  <2>2. log[i + 1].sequence = i + 1
    <3>1. Follows(log[i + 1], SubSeq(log, 1, i)) /\ Len(SubSeq(log, 1, i)) = i
      <4>1. i + 1 \in 1..Len(log) /\ (i + 1) - 1 = i
        BY <1>4
      <4>2. Len(SubSeq(log, 1, i)) = i
        OBVIOUS
      <4> QED BY <4>1, <4>2 DEF VerifyChain
    <3> QED BY <3>1 DEF Follows
  <2>3. Len(SubSeq(new, 1, i - 1)) = i - 1
    <3> HIDE DEF new
    <3> QED BY <1>4, <2>1
  <2>4. ~Follows(new[i], SubSeq(new, 1, i - 1))
    <3>1. new[i].sequence = i + 1
      BY <1>2, <1>4, <2>1, <2>2
    <3> HIDE DEF new
    <3> QED BY <2>3, <3>1 DEF Follows
  <2>5. i \in 1..Len(new)
    <3> HIDE DEF new
    <3> QED BY <1>4, <2>1
  <2> QED BY <1>3, <2>4, <2>5 DEF VerifyChain
<1> QED BY <1>1, <1>2, <1>3, <1>4, ConcatProperties
-----------------------------------------------------------------------------
(***************************************************************************)
(* The invariant.  Besides the types it says that an export in progress    *)
(* has something to export, which the tracker of the incremental export    *)
(* relies on, and that an undamaged log is a chain.                        *)
(***************************************************************************)
ExportInv ==
  /\ pending.mode = "incremental" => entries # <<>>
  /\ pending.step = "tracker" => pending.mode = "incremental"

AuditInv == TypeOK /\ ExportInv /\ ChainIntact

\* What export_incremental has to write is part of the log.
LEMMA NewEntriesType ==
  ASSUME NEW log \in Seq(AuditEntry), NEW last
  PROVE  /\ NewEntries(log, last) \in Seq(AuditEntry)
         /\ log = <<>> => NewEntries(log, last) = <<>>
<1> DEFINE old == {i \in 1..Len(log) : log[i].sequence <= last}
           k == Cardinality(old)
<1>1. IsFiniteSet(1..Len(log))
  BY FS_Interval
<1>2. IsFiniteSet(old)
  BY <1>1, FS_Subset
<1>3. k \in Nat
  BY <1>2, FS_CardinalityType
<1>4. NewEntries(log, last) = SubSeq(log, k + 1, Len(log))
  BY DEF NewEntries
<1> HIDE DEF k
<1>5. \A i \in (k + 1)..Len(log) : log[i] \in AuditEntry
  BY <1>3
<1> QED BY <1>3, <1>4, <1>5, SubSeqProperties, SubSeqEmpty

\* One line more, torn or whole, keeps the file a sequence of lines.
LEMMA WithLineType ==
  ASSUME NEW lines \in Seq(Line), NEW line \in Line
  PROVE  WithLine(lines, line) \in Seq(Line)
<1>1. CASE lines # <<>> /\ lines[Len(lines)] = Torn
  <2>1. Len(lines) \in 1..Len(lines)
    BY <1>1
  <2>2. (IF line = Torn THEN Torn ELSE Spoiled) \in Line
    BY DEF Line
  <2> QED BY <1>1, <2>1, <2>2, ExceptSeq DEF WithLine
<1>2. CASE ~ (lines # <<>> /\ lines[Len(lines)] = Torn)
  BY <1>2 DEF WithLine
<1> QED BY <1>1, <1>2

\* A crash or a failed export leaves a sequence of lines.
LEMMA InterruptedType ==
  ASSUME TypeOK, file' \in Interrupted(file)
  PROVE  file' \in Seq(Line)
<1>1. Torn \in Line
  BY DEF Line
<1>2. WithLine(file, Torn) \in Seq(Line)
  BY <1>1, WithLineType DEF TypeOK
<1> QED BY <1>2 DEF Interrupted, TypeOK

\* Every step keeps the invariant.
LEMMA AuditStep == AuditInv /\ [Next]_vars => AuditInv'
<1> SUFFICES ASSUME AuditInv, [Next]_vars PROVE AuditInv'
  OBVIOUS
<1>0. TypeOK /\ ExportInv /\ ChainIntact
  BY DEF AuditInv
<1>a. Idle \in Pending
  BY DEF Idle, Pending
<1>1. ASSUME NEW c \in Contents, Record(c) PROVE AuditInv'
  <2>1. Sealed(c, entries) \in AuditEntry
    BY <1>0, SealedType DEF TypeOK
  <2>2. entries' \in Seq(AuditEntry) /\ entries' # <<>>
    BY <1>0, <1>1, <2>1 DEF Record, TypeOK
  <2>3. Follows(Sealed(c, entries), entries)
    BY DEF Follows, Sealed
  <2>4. VerifyChain(entries) => VerifyChain(entries')
    BY <1>0, <1>1, <2>1, <2>3, ExtendedChain DEF Record, TypeOK
  <2> QED BY <1>0, <1>1, <2>2, <2>4
          DEF Record, TypeOK, AuditInv, ExportInv, ChainIntact
<1>2. CASE ExportOverwrite
  BY <1>0, <1>2 DEF ExportOverwrite, TypeOK, AuditInv, ExportInv, ChainIntact,
                    Pending
<1>3. CASE ExportAppend
  <2> DEFINE todo == IF entries = <<>> THEN <<>> ELSE <<entries[Len(entries)]>>
  <2>1. todo \in Seq(AuditEntry)
    <3>1. CASE entries # <<>>
      <4>1. entries[Len(entries)] \in AuditEntry
        BY <1>0, <3>1, Len(entries) \in 1..Len(entries) DEF TypeOK
      <4> QED BY <3>1, <4>1
    <3> QED BY <3>1
  <2>2. pending' = [step |-> "lines", mode |-> "a", todo |-> todo]
    BY <1>3 DEF ExportAppend
  <2> HIDE DEF todo
  <2>3. pending' \in Pending /\ pending'.mode # "incremental"
    BY <2>1, <2>2 DEF Pending
  <2> QED BY <1>0, <1>3, <2>3
          DEF ExportAppend, TypeOK, AuditInv, ExportInv, ChainIntact
<1>4. CASE ExportIncremental
  <2> DEFINE todo == NewEntries(entries, tracker)
  <2>1. todo \in Seq(AuditEntry)
    BY <1>0, NewEntriesType DEF TypeOK
  <2>2. entries # <<>>
    BY <1>0, <1>4, NewEntriesType DEF ExportIncremental, TypeOK
  <2>3. pending' = [step |-> "lines", mode |-> "incremental", todo |-> todo]
    BY <1>4 DEF ExportIncremental
  <2> HIDE DEF todo
  <2>4. pending' \in Pending
    BY <2>1, <2>3 DEF Pending
  <2> QED BY <1>0, <1>4, <2>2, <2>4
          DEF ExportIncremental, TypeOK, AuditInv, ExportInv, ChainIntact
<1>5. CASE WriteLine
  <2>1. pending.todo \in Seq(AuditEntry) /\ pending.todo # <<>>
    BY <1>0, <1>5 DEF WriteLine, TypeOK, Pending
  <2>2. Head(pending.todo) \in Line /\ Tail(pending.todo) \in Seq(AuditEntry)
    BY <2>1 DEF Line
  <2>3. file' \in Seq(Line)
    BY <1>0, <1>5, <2>2, WithLineType DEF WriteLine, TypeOK
  <2>4. pending' \in Pending /\ pending'.mode = pending.mode
    BY <1>0, <1>5, <2>2 DEF WriteLine, TypeOK, Pending
  <2> QED BY <1>0, <1>5, <2>3, <2>4
          DEF WriteLine, TypeOK, AuditInv, ExportInv, ChainIntact
<1>6. CASE ExportDone
  BY <1>0, <1>6, <1>a
     DEF ExportDone, TypeOK, AuditInv, ExportInv, ChainIntact, Idle
<1>7. CASE OpenTracker
  <2>1. pending' \in Pending /\ pending'.mode = pending.mode
    BY <1>0, <1>7 DEF OpenTracker, TypeOK, Pending
  <2> QED BY <1>0, <1>7, <2>1
          DEF OpenTracker, TypeOK, AuditInv, ExportInv, ChainIntact
<1>8. CASE WriteTracker
  <2>1. entries # <<>>
    BY <1>0, <1>8 DEF WriteTracker, ExportInv
  <2>2. entries[Len(entries)].sequence \in Nat
    <3>1. entries[Len(entries)] \in AuditEntry
      BY <1>0, <2>1, Len(entries) \in 1..Len(entries) DEF TypeOK
    <3> QED BY <3>1 DEF AuditEntry
  <2> QED BY <1>0, <1>8, <1>a, <2>2
          DEF WriteTracker, TypeOK, AuditInv, ExportInv, ChainIntact, Idle
<1>9. CASE ExportFails
  <2>1. file' \in Seq(Line)
    BY <1>0, <1>9, InterruptedType DEF ExportFails
  <2> QED BY <1>0, <1>9, <1>a, <2>1
          DEF ExportFails, TypeOK, AuditInv, ExportInv, ChainIntact, Idle
<1>10. CASE Crash
  <2>1. file' \in Seq(Line)
    BY <1>0, <1>10, InterruptedType DEF Crash
  <2>2. entries' \in Seq(AuditEntry) /\ VerifyChain(entries)'
    BY <1>10 DEF Crash, VerifyChain
  <2>3. dirty' \in BOOLEAN /\ faulted' \in BOOLEAN /\ pending' = Idle
    BY <1>10, Zenon DEF Crash
  <2>4. crashes' \in Nat /\ tracker' \in Nat
    <3>1. crashes' = crashes + 1 /\ tracker' = tracker
      BY <1>10 DEF Crash
    <3> QED BY <1>0, <3>1 DEF TypeOK
  <2>5. modes' \in Deployments
    BY <1>0, <1>10 DEF Crash, TypeOK
  <2> QED BY <1>a, <2>1, <2>2, <2>3, <2>4, <2>5
          DEF TypeOK, AuditInv, ExportInv, ChainIntact, Idle
<1>11. CASE ImportComplete
  <2>1. /\ SubSeq(file, 1, Len(file)) \in Seq(AuditEntry)
        /\ Len(file) \in 0..Len(file)
        /\ VerifyChain(entries)
             => VerifyChain(entries \o SubSeq(file, 1, Len(file)))
    BY <1>0, <1>11, ImportedChain DEF ImportComplete, TypeOK
  <2>2. SubSeq(file, 1, Len(file)) = file
    BY <1>0 DEF TypeOK
  <2>3. file \in Seq(AuditEntry)
    BY <2>1, <2>2
  <2>4. CASE VerifyChain(entries \o file)
    <3>1. entries' = entries \o file /\ faulted' = faulted
      BY <1>11, <2>4 DEF ImportComplete
    <3>2. entries' \in Seq(AuditEntry) /\ VerifyChain(entries)'
      BY <1>0, <2>3, <2>4, <3>1 DEF TypeOK, VerifyChain
    <3> QED BY <1>0, <1>11, <3>1, <3>2
            DEF ImportComplete, TypeOK, AuditInv, ExportInv, ChainIntact, Idle
  <2>5. CASE ~VerifyChain(entries \o file)
    <3>1. entries' = <<>> /\ faulted' = FALSE
      BY <1>11, <2>5 DEF ImportComplete
    <3>2. entries' \in Seq(AuditEntry) /\ VerifyChain(entries)'
      BY <3>1 DEF VerifyChain
    <3> QED BY <1>0, <1>11, <3>1, <3>2
            DEF ImportComplete, TypeOK, AuditInv, ExportInv, ChainIntact, Idle
  <2> QED BY <2>4, <2>5
<1>12. ASSUME NEW n \in 0..MaxLines, ImportRefused(n) PROVE AuditInv'
  <2>1. n \in 0..Len(file)
    BY <1>0, <1>12, AuditAssumption DEF ImportRefused, TypeOK
  <2>2. /\ SubSeq(file, 1, n) \in Seq(AuditEntry)
        /\ VerifyChain(entries) => VerifyChain(entries \o SubSeq(file, 1, n))
    BY <1>0, <1>12, <2>1, ImportedChain DEF ImportRefused, TypeOK
  <2>3. entries' = entries \o SubSeq(file, 1, n)
    BY <1>12 DEF ImportRefused
  <2>4. entries' \in Seq(AuditEntry)
    BY <1>0, <2>2, <2>3 DEF TypeOK
  <2>5. VerifyChain(entries) => VerifyChain(entries)'
    BY <2>2, <2>3 DEF VerifyChain
  <2> QED BY <1>0, <1>12, <2>4, <2>5
          DEF ImportRefused, TypeOK, AuditInv, ExportInv, ChainIntact, Idle
<1>13. ASSUME NEW i \in 1..Len(entries), Remove(i) PROVE AuditInv'
  <2>1. entries' \in Seq(AuditEntry)
    BY <1>0, <1>13, GappedChain DEF Remove, TypeOK, ChainIntact
  <2> QED BY <1>0, <1>13, <2>1
          DEF Remove, TypeOK, AuditInv, ExportInv, ChainIntact, Idle
<1>14. ASSUME NEW i \in 1..Len(entries), NEW c \in Contents, Modify(i, c)
       PROVE  AuditInv'
  <2>1. entries' \in Seq(AuditEntry)
    BY <1>0, <1>14, ModifiedChain DEF Modify, TypeOK, ChainIntact
  <2> QED BY <1>0, <1>14, <2>1
          DEF Modify, TypeOK, AuditInv, ExportInv, ChainIntact, Idle
<1>15. CASE UNCHANGED vars
  BY <1>0, <1>15 DEF vars, TypeOK, AuditInv, ExportInv, ChainIntact
<1> QED BY <1>1, <1>2, <1>3, <1>4, <1>5, <1>6, <1>7, <1>8, <1>9, <1>10, <1>11,
           <1>12, <1>13, <1>14, <1>15 DEF Next, Import, Fault

\* A new AuditLog satisfies the invariant.
LEMMA InitInv == Init => AuditInv
<1> SUFFICES ASSUME Init PROVE AuditInv
  OBVIOUS
<1>1. pending \in Pending /\ pending.mode = "none" /\ pending.step = "idle"
  BY DEF Init, Idle, Pending
<1>2. VerifyChain(entries)
  BY DEF Init, VerifyChain
<1>3. /\ entries \in Seq(AuditEntry) /\ file \in Seq(Line)
      /\ tracker \in Nat /\ crashes \in Nat
  BY DEF Init
<1>4. dirty \in BOOLEAN /\ faulted \in BOOLEAN /\ modes \in Deployments
  BY Zenon DEF Init
<1> QED BY <1>1, <1>2, <1>3, <1>4 DEF AuditInv, TypeOK, ExportInv, ChainIntact

\* A log that only record and import_jsonl have written verifies, whatever
\* files were imported, refused half way or torn by a crash.
THEOREM ChainAlwaysIntact == Spec => [](TypeOK /\ ChainIntact)
<1>1. Init => AuditInv
  BY InitInv
<1>2. AuditInv => TypeOK /\ ChainIntact
  BY DEF AuditInv
<1> QED BY <1>1, <1>2, AuditStep, PTL DEF Spec

\* "If any entry is modified, added, or removed, the chain breaks": a log whose
\* content was changed, or that lost an entry before the last, never verifies
\* again, whatever is recorded or imported afterwards.  Losing the last entry
\* is the exception the hypothesis names.
THEOREM FaultsAlwaysDetected ==
  ASSUME "truncate" \notin Faults
  PROVE  Spec => []FaultsAreDetected
<1>1. Init => FaultsAreDetected
  BY DEF Init, FaultsAreDetected
<1>2. AuditInv /\ FaultsAreDetected /\ [Next]_vars => FaultsAreDetected'
  <2> SUFFICES ASSUME AuditInv, FaultsAreDetected, [Next]_vars, faulted'
               PROVE  ~VerifyChain(entries')
    BY DEF FaultsAreDetected, VerifyChain
  <2>0. /\ entries \in Seq(AuditEntry) /\ file \in Seq(Line)
        /\ ~faulted => VerifyChain(entries)
        /\ faulted => ~VerifyChain(entries)
    BY DEF AuditInv, TypeOK, ChainIntact, FaultsAreDetected
  <2>1. ASSUME entries' = entries, faulted' = faulted PROVE ~VerifyChain(entries')
    BY <2>0, <2>1
  <2>2. ASSUME NEW c \in Contents, Record(c) PROVE ~VerifyChain(entries')
    <3>1. entries' = entries \o <<Sealed(c, entries)>> /\ faulted
      BY <2>0, <2>2 DEF Record
    <3>2. <<Sealed(c, entries)>> \in Seq(AuditEntry)
      BY <2>0, SealedType
    <3> QED BY <2>0, <3>1, <3>2, PrefixOfChain
  <2>3. CASE ImportComplete
    <3>1. faulted /\ VerifyChain(entries \o file)
      BY <2>3 DEF ImportComplete
    <3>2. Len(file) \in 0..Len(file) /\ SubSeq(file, 1, Len(file)) = file
      BY <2>0
    <3>3. file \in Seq(AuditEntry)
      BY <2>0, <2>3, <3>2, ImportedChain DEF ImportComplete
    <3> QED BY <2>0, <3>1, <3>3, PrefixOfChain
  <2>4. ASSUME NEW n \in 0..MaxLines, ImportRefused(n)
        PROVE  ~VerifyChain(entries')
    <3>1. n \in 0..Len(file)
      BY <2>0, <2>4, AuditAssumption DEF ImportRefused
    <3>2. SubSeq(file, 1, n) \in Seq(AuditEntry)
      BY <2>0, <2>4, <3>1, ImportedChain DEF ImportRefused
    <3>3. entries' = entries \o SubSeq(file, 1, n) /\ faulted
      BY <2>4 DEF ImportRefused
    <3> QED BY <2>0, <3>2, <3>3, PrefixOfChain
  <2>5. ASSUME NEW i \in 1..Len(entries), Remove(i)
        PROVE  ~VerifyChain(entries')
    <3>1. i < Len(entries) /\ ~faulted /\ entries' = Without(entries, i)
      BY <2>5 DEF Remove
    <3> QED BY <2>0, <3>1, GappedChain
  <2>6. ASSUME NEW i \in 1..Len(entries), NEW c \in Contents, Modify(i, c)
        PROVE  ~VerifyChain(entries')
    BY <2>0, <2>6, ModifiedChain DEF Modify
  <2>7. CASE Crash
    BY <2>7 DEF Crash
  <2>8. CASE ExportOverwrite \/ ExportAppend \/ ExportIncremental \/ WriteLine
               \/ ExportDone \/ OpenTracker \/ WriteTracker \/ ExportFails
               \/ UNCHANGED vars
    BY <2>1, <2>8 DEF ExportOverwrite, ExportAppend, ExportIncremental,
         WriteLine, ExportDone, OpenTracker, WriteTracker, ExportFails, vars
  <2> QED BY <2>2, <2>3, <2>4, <2>5, <2>6, <2>7, <2>8 DEF Next, Import, Fault
<1>3. Init => AuditInv
  BY InitInv
<1> QED BY <1>1, <1>2, <1>3, AuditStep, PTL DEF Spec
-----------------------------------------------------------------------------
\* A set of natural numbers that holds 0 and the successor of each of its
\* members holds them all.
LEMMA AllNaturals ==
  ASSUME NEW T, 0 \in T, \A n \in Nat : n \in T => n + 1 \in T
  PROVE  Nat \subseteq T
<1> SUFFICES ASSUME NEW m \in Nat, m \notin T PROVE FALSE
  OBVIOUS
<1> DEFINE Missing == {n \in Nat : n \notin T}
<1>1. Missing \subseteq Nat /\ Missing # {}
  OBVIOUS
<1>2. PICK k \in Missing : \A y \in Missing : ~ (<<y, k>> \in OpToRel(<, Nat))
  <2> HIDE DEF Missing
  <2> QED BY <1>1, NatLessThanWellFounded, WFMin
<1>3. \A y \in Missing : ~ (y < k)
  BY <1>1, <1>2 DEF OpToRel
<1>4. k # 0 /\ k \in Nat /\ k \notin T
  OBVIOUS
<1>5. k - 1 \in Nat /\ k - 1 \notin Missing
  BY <1>3, <1>4
<1>6. (k - 1) + 1 \in T
  BY <1>5
<1> QED BY <1>4, <1>6

\* The hash of the last entry commits to the whole log: two chains of the same
\* length with the same last_hash have the same entries.  This is what makes
\* anchoring last_hash outside the log enough to notice a lost tail.
THEOREM LastHashCommits ==
  ASSUME NEW log \in Seq(AuditEntry), NEW other \in Seq(AuditEntry),
         VerifyChain(log), VerifyChain(other),
         Len(log) = Len(other), LastHash(log) = LastHash(other)
  PROVE  log = other
<1> DEFINE n == Len(log)
           \* Counted from the end: the hashes of the entries n - k agree.
           T == {k \in Nat : k < n =>
                   log[n - k].entry_hash = other[n - k].entry_hash}
<1>1. ASSUME NEW i \in 1..n, log[i].entry_hash = other[i].entry_hash
      PROVE  /\ log[i] = other[i]
             /\ i > 1 => log[i - 1].entry_hash = other[i - 1].entry_hash
  <2>1. log[i] \in AuditEntry /\ other[i] \in AuditEntry
    OBVIOUS
  <2>2. Follows(log[i], SubSeq(log, 1, i - 1)) /\
        Follows(other[i], SubSeq(other, 1, i - 1))
    BY DEF VerifyChain
  <2>3. /\ log[i].prev_hash \in Seq(Contents) /\ log[i].content \in Contents
        /\ other[i].prev_hash \in Seq(Contents) /\ other[i].content \in Contents
    BY <2>1 DEF AuditEntry, Hash
  <2>4. Append(log[i].prev_hash, log[i].content)
          = Append(other[i].prev_hash, other[i].content)
    <3>1. /\ log[i].entry_hash = Append(log[i].prev_hash, log[i].content)
          /\ other[i].entry_hash = Append(other[i].prev_hash, other[i].content)
      BY <2>2 DEF Follows, ComputeHash
    <3> QED BY <1>1, <3>1
  <2>5. log[i].prev_hash = other[i].prev_hash /\ log[i].content = other[i].content
    <3> DEFINE p == log[i].prev_hash
               q == other[i].prev_hash
               c == log[i].content
               d == other[i].content
    <3>1. /\ p \in Seq(Contents) /\ q \in Seq(Contents)
          /\ c \in Contents /\ d \in Contents
          /\ Append(p, c) = Append(q, d)
      BY <2>3, <2>4
    <3> HIDE DEF p, q, c, d
    <3>2. p = q /\ c = d
      BY <3>1, AppendInjective
    <3> QED BY <3>2 DEF p, q, c, d
  <2>6. Len(SubSeq(log, 1, i - 1)) = i - 1 /\ Len(SubSeq(other, 1, i - 1)) = i - 1
    OBVIOUS
  <2>7. log[i].sequence = other[i].sequence
    BY <2>2, <2>6 DEF Follows
  <2>8. log[i] = other[i]
    <3> DEFINE e == log[i]
               o == other[i]
    <3>1. /\ e \in AuditEntry /\ o \in AuditEntry
          /\ e.content = o.content /\ e.prev_hash = o.prev_hash
          /\ e.entry_hash = o.entry_hash /\ e.sequence = o.sequence
      BY <1>1, <2>1, <2>5, <2>7
    <3> HIDE DEF e, o, n, T
    <3>2. e = o
      BY <3>1 DEF AuditEntry
    <3> QED BY <3>2 DEF e, o
  <2>9. ASSUME i > 1
        PROVE  log[i - 1].entry_hash = other[i - 1].entry_hash
    <3>1. ASSUME NEW s \in Seq(AuditEntry), Len(s) = n
          PROVE  LastHash(SubSeq(s, 1, i - 1)) = s[i - 1].entry_hash
      <4> DEFINE u == SubSeq(s, 1, i - 1)
      <4>1. Len(u) = i - 1 /\ u[i - 1] = s[i - 1]
        BY <2>9, <3>1
      <4>2. u # <<>>
        <5> HIDE DEF u
        <5> QED BY <2>9, <4>1
      <4> HIDE DEF u
      <4>3. LastHash(u) = s[i - 1].entry_hash
        BY <4>1, <4>2 DEF LastHash
      <4> QED BY <4>3 DEF u
    <3>2. /\ LastHash(SubSeq(log, 1, i - 1)) = log[i - 1].entry_hash
          /\ LastHash(SubSeq(other, 1, i - 1)) = other[i - 1].entry_hash
      BY <3>1
    <3>3. /\ log[i].prev_hash = log[i - 1].entry_hash
          /\ other[i].prev_hash = other[i - 1].entry_hash
      BY <2>2, <3>2 DEF Follows
    <3> QED BY <2>5, <3>3
  <2> QED BY <2>8, <2>9
<1>2. 0 \in T
  <2>1. CASE n = 0
    BY <2>1
  <2>2. CASE n > 0
    <3>1. log # <<>> /\ other # <<>>
      BY <2>2
    <3> QED BY <3>1 DEF LastHash
  <2> QED BY <2>1, <2>2
<1>3. ASSUME NEW k \in Nat, k \in T PROVE k + 1 \in T
  <2> SUFFICES ASSUME k + 1 < n
               PROVE  log[n - (k + 1)].entry_hash = other[n - (k + 1)].entry_hash
    OBVIOUS
  <2>1. n - k \in 1..n /\ n - k > 1 /\ (n - k) - 1 = n - (k + 1)
    OBVIOUS
  <2>2. log[n - k].entry_hash = other[n - k].entry_hash
    BY <1>3
  <2>3. log[(n - k) - 1].entry_hash = other[(n - k) - 1].entry_hash
    BY <1>1, <2>1, <2>2
  <2> QED BY <2>1, <2>3
<1>4. Nat \subseteq T
  <2> HIDE DEF T
  <2> QED BY <1>2, <1>3, AllNaturals
<1>5. ASSUME NEW i \in 1..n PROVE log[i] = other[i]
  <2>0. n \in Nat
    OBVIOUS
  <2>a. n - i \in Nat /\ n - i < n /\ n - (n - i) = i
    <3> HIDE DEF n
    <3> QED BY <2>0
  <2>b. n - i \in T
    <3> HIDE DEF T, n
    <3> QED BY <1>4, <2>a
  <2>1. log[n - (n - i)].entry_hash = other[n - (n - i)].entry_hash
    BY <2>a, <2>b
  <2>2. log[i].entry_hash = other[i].entry_hash
    <3> HIDE DEF n
    <3> QED BY <2>a, <2>1
  <2> QED BY <1>1, <2>2
<1> QED BY <1>5, SeqEqual
-----------------------------------------------------------------------------
(***************************************************************************)
(* The exports.  Where they are all incremental, or all overwrite the      *)
(* file, an export in progress has the rest of the log to write, and the   *)
(* incremental one starts where the last one ended.                        *)
(***************************************************************************)
OneMode ==
  /\ pending.mode = "none" <=> pending = Idle
  /\ pending.step = "idle" <=> pending = Idle
  /\ pending.mode # "none" => pending.mode \in modes

WritesTheRest ==
  modes = {"w"} \/ Incremental =>
    /\ pending.step = "lines" => file \o pending.todo = entries
    /\ pending.step = "tracker" => file = entries

\* Hashes get longer along the log, also along one with an entry changed or
\* missing: no entry is chained to a later one.
HashesGrow(log) ==
  \A i, j \in 1..Len(log) :
    i <= j => Len(log[i].prev_hash) < Len(log[j].entry_hash)

\* The hash is that of the start of the log, or of what an entry is chained to.
KnownHash(log, hash) ==
  hash = GENESIS \/ \E i \in 1..Len(log) : log[i].prev_hash = hash

\* The incremental export of a log that may be damaged.  import_jsonl repairs a
\* damaged log by emptying it, which would leave the file ahead of the log; but
\* it only gets as far as that with an empty file.
FileIsOfLog ==
  modes = {"incremental"} /\ crashes = 0 =>
    /\ file \in Seq(AuditEntry)
    /\ file # <<>> => KnownHash(entries, file[1].prev_hash)
    /\ pending.step = "lines" =>
         \A k \in 1..Len(pending.todo) :
           KnownHash(entries, pending.todo[k].prev_hash)
    /\ file = <<>> => /\ pending = Idle => tracker = 0
                      /\ pending.step = "lines" => pending.todo # <<>>
                      /\ pending.step # "tracker"

FileInv ==
  /\ OneMode /\ WritesTheRest /\ HashesGrow(entries) /\ FileIsOfLog
  /\ IncrementalIsExact

\* A chain is numbered from 1.
LEMMA ChainNumbers ==
  ASSUME NEW log \in Seq(AuditEntry), VerifyChain(log), NEW i \in 1..Len(log)
  PROVE  log[i].sequence = i
<1>1. Follows(log[i], SubSeq(log, 1, i - 1))
  BY DEF VerifyChain
<1>2. Len(SubSeq(log, 1, i - 1)) = i - 1
  OBVIOUS
<1> QED BY <1>1, <1>2 DEF Follows

\* Of a chain, export_incremental writes what follows the entry the tracker
\* names.
LEMMA NewEntriesOfChain ==
  ASSUME NEW log \in Seq(AuditEntry), VerifyChain(log), NEW last \in 0..Len(log)
  PROVE  NewEntries(log, last) = SubSeq(log, last + 1, Len(log))
<1> DEFINE old == {i \in 1..Len(log) : log[i].sequence <= last}
<1>1. old = 1..last
  BY ChainNumbers
<1>2. Cardinality(1..last) = last
  BY FS_Interval
<1> QED BY <1>1, <1>2 DEF NewEntries

\* Whatever the log and the tracker are, it writes entries of the log.
LEMMA NewEntriesOfLog ==
  ASSUME NEW log \in Seq(AuditEntry), NEW last,
         NEW k \in 1..Len(NewEntries(log, last))
  PROVE  \E i \in 1..Len(log) : NewEntries(log, last)[k] = log[i]
<1> DEFINE old == {i \in 1..Len(log) : log[i].sequence <= last}
           m == Cardinality(old)
<1>1. m \in Nat
  <2>1. IsFiniteSet(1..Len(log))
    BY FS_Interval
  <2>2. IsFiniteSet(old)
    BY <2>1, FS_Subset
  <2> QED BY <2>2, FS_CardinalityType
<1>2. NewEntries(log, last) = SubSeq(log, m + 1, Len(log))
  BY DEF NewEntries
<1> HIDE DEF m
<1> DEFINE u == SubSeq(log, m + 1, Len(log))
<1>3. /\ Len(u) = IF m + 1 <= Len(log) THEN Len(log) - (m + 1) + 1 ELSE 0
      /\ \A i \in 1..(Len(log) - (m + 1) + 1) : u[i] = log[(m + 1) + i - 1]
  <2>1. \A i \in (m + 1)..Len(log) : log[i] \in AuditEntry
    BY <1>1
  <2> QED BY <1>1, <2>1, SubSeqProperties
<1>4. NewEntries(log, last) = u /\ k \in 1..Len(u)
  BY <1>2, Zenon
<1> HIDE DEF u
<1>5. /\ k \in 1..(Len(log) - (m + 1) + 1) /\ m + k \in 1..Len(log)
      /\ (m + 1) + k - 1 = m + k
  BY <1>1, <1>3, <1>4
<1>6. u[k] = log[m + k]
  BY <1>3, <1>5
<1> QED BY <1>4, <1>5, <1>6

\* Joining a sequence to the empty one changes nothing.
LEMMA JoinEmpty ==
  ASSUME NEW S, NEW s \in Seq(S)
  PROVE  s \o <<>> = s /\ <<>> \o s = s
BY ConcatEmptySeq

\* A sequence is its start followed by its rest.
LEMMA StartAndRest ==
  ASSUME NEW S, NEW s \in Seq(S), NEW n \in 0..Len(s)
  PROVE  SubSeq(s, 1, n) \o SubSeq(s, n + 1, Len(s)) = s
<1> DEFINE u == SubSeq(s, 1, n)
           v == SubSeq(s, n + 1, Len(s))
<1>1. u \in Seq(S) /\ Len(u) = n /\ \A i \in 1..n : u[i] = s[i]
  OBVIOUS
<1>2. /\ v \in Seq(S) /\ Len(v) = Len(s) - n
      /\ \A i \in 1..(Len(s) - n) : v[i] = s[n + i]
  OBVIOUS
<1> HIDE DEF u, v
<1> DEFINE w == u \o v
<1>3. /\ w \in Seq(S) /\ Len(w) = Len(u) + Len(v)
      /\ \A i \in 1..(Len(u) + Len(v)) :
           w[i] = IF i <= Len(u) THEN u[i] ELSE v[i - Len(u)]
  BY <1>1, <1>2, ConcatProperties
<1> HIDE DEF w
<1>4. Len(w) = Len(s)
  BY <1>1, <1>2, <1>3
<1>5. ASSUME NEW i \in 1..Len(s) PROVE w[i] = s[i]
  <2>1. CASE i <= n
    BY <1>1, <1>2, <1>3, <2>1
  <2>2. CASE i > n
    <3>1. i - n \in 1..(Len(s) - n) /\ n + (i - n) = i /\ ~ (i <= n)
      BY <2>2
    <3> QED BY <1>1, <1>2, <1>3, <3>1
  <2> QED BY <2>1, <2>2
<1>6. w = s
  BY <1>3, <1>4, <1>5, SeqEqual
<1> QED BY <1>6 DEF u, v, w

\* Moving the head of one sequence to the end of another.
LEMMA MoveHead ==
  ASSUME NEW S, NEW s \in Seq(S), NEW t \in Seq(S), t # <<>>
  PROVE  Append(s, Head(t)) \o Tail(t) = s \o t
<1> DEFINE u == Append(s, Head(t))
           v == Tail(t)
<1>1. /\ u \in Seq(S) /\ Len(u) = Len(s) + 1 /\ u[Len(s) + 1] = t[1]
      /\ \A i \in 1..Len(s) : u[i] = s[i]
  OBVIOUS
<1>2. /\ v \in Seq(S) /\ Len(v) = Len(t) - 1
      /\ \A i \in 1..(Len(t) - 1) : v[i] = t[i + 1]
  OBVIOUS
<1> HIDE DEF u, v
<1> DEFINE w == u \o v
           x == s \o t
<1>3. /\ w \in Seq(S) /\ Len(w) = Len(u) + Len(v)
      /\ \A i \in 1..(Len(u) + Len(v)) :
           w[i] = IF i <= Len(u) THEN u[i] ELSE v[i - Len(u)]
  BY <1>1, <1>2, ConcatProperties
<1>4. /\ x \in Seq(S) /\ Len(x) = Len(s) + Len(t)
      /\ \A i \in 1..(Len(s) + Len(t)) :
           x[i] = IF i <= Len(s) THEN s[i] ELSE t[i - Len(s)]
  BY ConcatProperties
<1> HIDE DEF w, x
<1>5. Len(w) = Len(x) /\ Len(t) > 0
  BY <1>1, <1>2, <1>3, <1>4
<1>6. ASSUME NEW i \in 1..Len(x) PROVE w[i] = x[i]
  <2>0. i \in 1..(Len(s) + Len(t)) /\ i \in 1..(Len(u) + Len(v))
    BY <1>3, <1>4, <1>5
  <2>1. CASE i <= Len(s)
    BY <1>1, <1>3, <1>4, <2>0, <2>1
  <2>2. CASE i = Len(s) + 1
    <3>1. i - Len(s) = 1 /\ ~ (i <= Len(s)) /\ i <= Len(u)
      BY <1>1, <2>2
    <3>2. w[i] = u[i] /\ x[i] = t[i - Len(s)]
      BY <1>3, <1>4, <2>0, <3>1
    <3> QED BY <1>1, <2>2, <3>1, <3>2
  <2>3. CASE i > Len(s) + 1
    <3>1. /\ i - Len(u) \in 1..(Len(t) - 1) /\ ~ (i <= Len(u)) /\ ~ (i <= Len(s))
          /\ (i - Len(u)) + 1 = i - Len(s)
      BY <1>1, <2>0, <2>3
    <3> QED BY <1>2, <1>3, <1>4, <2>0, <3>1
  <2> QED BY <2>0, <2>1, <2>2, <2>3
<1>7. w = x
  BY <1>3, <1>4, <1>5, <1>6, SeqEqual
<1> QED BY <1>7 DEF u, v, w, x

\* The start of a joined sequence.
LEMMA StartOfJoined ==
  ASSUME NEW S, NEW s \in Seq(S), NEW t \in Seq(S), NEW n \in 0..Len(s)
  PROVE  /\ SubSeq(s \o t, 1, n) = SubSeq(s, 1, n)
         /\ Len(s \o t) >= Len(s)
<1> DEFINE w == s \o t
<1>1. w \in Seq(S) /\ Len(w) = Len(s) + Len(t) /\ \A i \in 1..Len(s) : w[i] = s[i]
  BY ConcatProperties
<1> HIDE DEF w
<1>2. SubSeq(w, 1, n) = SubSeq(s, 1, n)
  BY <1>1
<1> QED BY <1>1, <1>2 DEF w

\* A whole line after whole lines is a line of its own.
LEMMA WholeLine ==
  ASSUME NEW lines \in Seq(AuditEntry), NEW e \in AuditEntry
  PROVE  WithLine(lines, e) = Append(lines, e)
<1>1. lines # <<>> => lines[Len(lines)] \in AuditEntry
  OBVIOUS
<1> QED BY <1>1, AuditAssumption DEF WithLine

\* Hashes still grow when an entry that follows the log is appended.
LEMMA GrowByEntry ==
  ASSUME NEW log \in Seq(AuditEntry), HashesGrow(log),
         NEW e \in AuditEntry, Follows(e, log)
  PROVE  HashesGrow(Append(log, e))
<1> DEFINE new == Append(log, e)
           n == Len(log)
<1>1. /\ Len(new) = n + 1 /\ n \in Nat /\ new[n + 1] = e
      /\ \A i \in 1..n : new[i] = log[i]
  OBVIOUS
<1>2. e.prev_hash \in Seq(Contents) /\ e.content \in Contents
  BY DEF AuditEntry, Hash
<1>3. /\ e.prev_hash = LastHash(log)
      /\ Len(e.entry_hash) = Len(e.prev_hash) + 1 /\ Len(e.prev_hash) \in Nat
  BY <1>2 DEF Follows, ComputeHash
<1>4. ASSUME NEW i \in 1..n
      PROVE  /\ Len(log[i].prev_hash) < Len(e.entry_hash)
             /\ Len(log[i].prev_hash) \in Nat
  <2>1. log # <<>> /\ n \in 1..n /\ i <= n
    BY <1>1
  <2>2. e.prev_hash = log[n].entry_hash
    BY <1>3, <2>1 DEF LastHash
  <2>3. Len(log[i].prev_hash) < Len(log[n].entry_hash)
    BY <2>1 DEF HashesGrow
  <2>4. log[i] \in AuditEntry
    OBVIOUS
  <2>5. log[i].prev_hash \in Seq(Contents)
    BY <2>4 DEF AuditEntry, Hash
  <2> QED BY <1>3, <2>2, <2>3, <2>5
<1> HIDE DEF new, n
<1>5. ASSUME NEW i \in 1..Len(new), NEW j \in 1..Len(new), i <= j
      PROVE  Len(new[i].prev_hash) < Len(new[j].entry_hash)
  <2>1. CASE j = n + 1 /\ i = n + 1
    BY <1>1, <1>3, <2>1
  <2>2. CASE j = n + 1 /\ i # n + 1
    BY <1>1, <1>4, <1>5, <2>2
  <2>3. CASE j # n + 1
    <3>1. i \in 1..n /\ j \in 1..n
      BY <1>1, <1>5, <2>3
    <3> QED BY <1>1, <1>5, <3>1 DEF HashesGrow, n
  <2> QED BY <2>1, <2>2, <2>3
<1> QED BY <1>5 DEF HashesGrow, new

\* And when any number of lines is imported.
LEMMA GrowByImport ==
  ASSUME NEW log \in Seq(AuditEntry), HashesGrow(log), NEW lines \in Seq(Line),
         NEW n \in 0..Len(lines), ImportsUpTo(lines, log, n)
  PROVE  HashesGrow(log \o SubSeq(lines, 1, n))
<1> DEFINE T == {k \in Nat : k <= n => HashesGrow(log \o SubSeq(lines, 1, k))}
<1>1. 0 \in T
  <2>1. SubSeq(lines, 1, 0) = <<>>
    OBVIOUS
  <2> QED BY <2>1, JoinEmpty
<1>2. ASSUME NEW k \in Nat, k \in T, k + 1 <= n
      PROVE  HashesGrow(log \o SubSeq(lines, 1, k + 1))
  <2> DEFINE taken == SubSeq(lines, 1, k)
             e == lines[k + 1]
  <2>1. k \in 0..Len(lines) /\ k + 1 \in 1..n /\ k <= n
    BY <1>2
  <2>2. ImportsUpTo(lines, log, k)
    BY <2>1 DEF ImportsUpTo
  <2>3. taken \in Seq(AuditEntry)
    BY <2>1, <2>2, ImportedChain
  <2>4. e \in AuditEntry
    <3>1. e \in Line /\ IsEntry(e)
      BY <2>1 DEF ImportsUpTo
    <3> QED BY <3>1 DEF IsEntry, Line
  <2>5. Follows(e, log \o taken)
    <3>1. Acceptable(lines[k + 1], log \o SubSeq(lines, 1, (k + 1) - 1))
      BY <2>1 DEF ImportsUpTo
    <3>2. (k + 1) - 1 = k
      OBVIOUS
    <3> QED BY <3>1, <3>2 DEF Acceptable
  <2>6. SubSeq(lines, 1, k + 1) = Append(taken, e)
    BY <2>1
  <2>7. log \o Append(taken, e) = Append(log \o taken, e)
    <3> HIDE DEF taken, e
    <3> QED BY <2>3, <2>4
  <2>8. HashesGrow(log \o taken)
    BY <1>2, <2>1
  <2>9. log \o taken \in Seq(AuditEntry)
    BY <2>3, ConcatProperties
  <2> HIDE DEF taken, e
  <2> QED BY <2>4, <2>5, <2>6, <2>7, <2>8, <2>9, GrowByEntry
<1>3. Nat \subseteq T
  <2>1. ASSUME NEW k \in Nat, k \in T PROVE k + 1 \in T
    BY <1>2, <2>1
  <2> HIDE DEF T
  <2> QED BY <1>1, <2>1, AllNaturals
<1> QED BY <1>3

\* Changing a content leaves the hashes alone.
LEMMA GrowModified ==
  ASSUME NEW log \in Seq(AuditEntry), NEW i \in 1..Len(log), NEW c \in Contents
  PROVE  LET new == [log EXCEPT ![i].content = c]
         IN /\ Len(new) = Len(log)
            /\ \A j \in 1..Len(log) : /\ new[j].prev_hash = log[j].prev_hash
                                      /\ new[j].entry_hash = log[j].entry_hash
<1> DEFINE e == [log[i] EXCEPT !.content = c]
           new == [log EXCEPT ![i] = e]
<1>1. log[i] \in AuditEntry
  OBVIOUS
<1>2. /\ e \in AuditEntry /\ e.prev_hash = log[i].prev_hash
      /\ e.entry_hash = log[i].entry_hash
  BY <1>1 DEF AuditEntry
<1>3. new = [log EXCEPT ![i].content = c]
  OBVIOUS
<1> HIDE DEF e
<1>4. /\ Len(new) = Len(log)
      /\ \A j \in 1..Len(log) : new[j] = IF j = i THEN e ELSE log[j]
  BY <1>2, ExceptSeq
<1> HIDE DEF new
<1> QED BY <1>2, <1>3, <1>4

\* The entries that are left when one is removed, in their order.
LEMMA LeftOf ==
  ASSUME NEW log \in Seq(AuditEntry), NEW i \in 1..Len(log)
  PROVE  LET new == Without(log, i)
         IN /\ Len(new) = Len(log) - 1
            /\ \A j \in 1..Len(new) : new[j] = IF j < i THEN log[j] ELSE log[j + 1]
<1> DEFINE before == SubSeq(log, 1, i - 1)
           after == SubSeq(log, i + 1, Len(log))
<1>1. /\ before \in Seq(AuditEntry) /\ Len(before) = i - 1
      /\ \A j \in 1..(i - 1) : before[j] = log[j]
  OBVIOUS
<1>2. /\ after \in Seq(AuditEntry) /\ Len(after) = Len(log) - i
      /\ \A j \in 1..(Len(log) - i) : after[j] = log[i + j]
  OBVIOUS
<1>3. Without(log, i) = before \o after
  BY DEF Without
<1> DEFINE new == before \o after
<1> HIDE DEF before, after
<1>a. /\ Len(new) = Len(before) + Len(after)
      /\ \A j \in 1..(Len(before) + Len(after)) :
           new[j] = IF j <= Len(before) THEN before[j] ELSE after[j - Len(before)]
  BY <1>1, <1>2, ConcatProperties
<1> HIDE DEF new
<1>4. /\ Len(new) = Len(log) - 1
      /\ \A j \in 1..Len(new) :
           new[j] = IF j <= i - 1 THEN before[j] ELSE after[j - (i - 1)]
  BY <1>1, <1>2, <1>a
<1>5. ASSUME NEW j \in 1..Len(new)
      PROVE  new[j] = IF j < i THEN log[j] ELSE log[j + 1]
  <2>1. CASE j < i
    BY <1>1, <1>4, <2>1
  <2>2. CASE ~ (j < i)
    <3>1. j - (i - 1) \in 1..(Len(log) - i) /\ i + (j - (i - 1)) = j + 1
      BY <1>4, <2>2
    <3>2. ~ (j <= i - 1)
      BY <2>2
    <3> QED BY <1>2, <1>4, <2>2, <3>1, <3>2
  <2> QED BY <2>1, <2>2
<1> QED BY <1>3, <1>4, <1>5 DEF new


-----------------------------------------------------------------------------
(***************************************************************************)
(* The invariant of the exports, conjunct by conjunct.                     *)
(***************************************************************************)

\* An export is in progress exactly while its mode and its step say so, and
\* its mode is one the deployment uses.
LEMMA OneModeStep == AuditInv /\ OneMode /\ [Next]_vars => OneMode'
<1> SUFFICES ASSUME AuditInv, OneMode, [Next]_vars PROVE OneMode'
  OBVIOUS
<1>0. pending \in Pending
  BY DEF AuditInv, TypeOK
<1>1. ASSUME pending' = pending, modes' = modes PROVE OneMode'
  BY <1>1 DEF OneMode, Idle
<1>2. ASSUME pending' = Idle, modes' = modes PROVE OneMode'
  BY <1>2 DEF OneMode, Idle
<1>3. ASSUME NEW mode \in {"w", "a", "incremental"}, mode \in modes, NEW todo,
             pending' = [step |-> "lines", mode |-> mode, todo |-> todo],
             modes' = modes
      PROVE  OneMode'
  BY <1>3 DEF OneMode, Idle
<1>4. ASSUME NEW c \in Contents, Record(c) PROVE OneMode'
  BY <1>1, <1>4 DEF Record
<1>5. CASE ExportOverwrite
  BY <1>3, <1>5 DEF ExportOverwrite
<1>6. CASE ExportAppend
  BY <1>3, <1>6 DEF ExportAppend
<1>7. CASE ExportIncremental
  BY <1>3, <1>7 DEF ExportIncremental
<1>8. CASE WriteLine
  <2>1. /\ pending'.mode = pending.mode /\ pending'.step = "lines"
        /\ pending.step = "lines" /\ modes' = modes
    BY <1>0, <1>8 DEF WriteLine, Pending
  <2>2. pending # Idle /\ pending' # Idle
    BY <2>1 DEF Idle
  <2> QED BY <2>1, <2>2 DEF OneMode
<1>9. CASE OpenTracker
  <2>1. /\ pending'.mode = pending.mode /\ pending'.step = "tracker"
        /\ pending.step = "lines" /\ modes' = modes
    BY <1>0, <1>9 DEF OpenTracker, Pending
  <2>2. pending # Idle /\ pending' # Idle
    BY <2>1 DEF Idle
  <2> QED BY <2>1, <2>2 DEF OneMode
<1>10. CASE ExportDone \/ WriteTracker \/ ExportFails \/ Crash
  BY <1>2, <1>10 DEF ExportDone, WriteTracker, ExportFails, Crash
<1>11. CASE ImportComplete
  BY <1>1, <1>11 DEF ImportComplete
<1>12. ASSUME NEW n \in 0..MaxLines, ImportRefused(n) PROVE OneMode'
  BY <1>1, <1>12 DEF ImportRefused
<1>13. ASSUME NEW i \in 1..Len(entries), Remove(i) PROVE OneMode'
  BY <1>1, <1>13 DEF Remove
<1>14. ASSUME NEW i \in 1..Len(entries), NEW c \in Contents, Modify(i, c)
       PROVE  OneMode'
  BY <1>1, <1>14 DEF Modify
<1>15. CASE UNCHANGED vars
  BY <1>1, <1>15 DEF vars
<1> QED BY <1>4, <1>5, <1>6, <1>7, <1>8, <1>9, <1>10, <1>11, <1>12, <1>13, <1>14,
           <1>15 DEF Next, Import, Fault

\* Hashes grow along every log the code and its faults make.
LEMMA HashesStep ==
  AuditInv /\ HashesGrow(entries) /\ [Next]_vars => HashesGrow(entries')
<1> SUFFICES ASSUME AuditInv, HashesGrow(entries), [Next]_vars
             PROVE  HashesGrow(entries')
  OBVIOUS
<1>0. entries \in Seq(AuditEntry) /\ file \in Seq(Line)
  BY DEF AuditInv, TypeOK
<1>1. HashesGrow(<<>>)
  BY DEF HashesGrow
<1>2. ASSUME NEW c \in Contents, Record(c) PROVE HashesGrow(entries')
  <2>1. Sealed(c, entries) \in AuditEntry /\ Follows(Sealed(c, entries), entries)
    BY <1>0, SealedType DEF Follows, Sealed
  <2> QED BY <1>0, <1>2, <2>1, GrowByEntry DEF Record
<1>3. CASE ImportComplete
  <2>1. Len(file) \in 0..Len(file) /\ SubSeq(file, 1, Len(file)) = file
    BY <1>0
  <2>2. HashesGrow(entries \o file)
    BY <1>0, <1>3, <2>1, GrowByImport DEF ImportComplete
  <2> QED BY <1>1, <1>3, <2>2 DEF ImportComplete
<1>4. ASSUME NEW n \in 0..MaxLines, ImportRefused(n) PROVE HashesGrow(entries')
  <2>1. n \in 0..Len(file)
    BY <1>0, <1>4, AuditAssumption DEF ImportRefused
  <2> QED BY <1>0, <1>4, <2>1, GrowByImport DEF ImportRefused
<1>5. ASSUME NEW i \in 1..Len(entries), Remove(i) PROVE HashesGrow(entries')
  <2> DEFINE new == Without(entries, i)
  <2>1. entries' = new
    BY <1>5 DEF Remove
  <2>2. /\ Len(new) = Len(entries) - 1
        /\ \A j \in 1..Len(new) :
             new[j] = IF j < i THEN entries[j] ELSE entries[j + 1]
    BY <1>0, LeftOf
  <2> HIDE DEF new
  <2>3. ASSUME NEW j \in 1..Len(new), NEW k \in 1..Len(new), j <= k
        PROVE  Len(new[j].prev_hash) < Len(new[k].entry_hash)
    <3> DEFINE at(m) == IF m < i THEN m ELSE m + 1
    <3>1. /\ at(j) \in 1..Len(entries) /\ at(k) \in 1..Len(entries)
          /\ at(j) <= at(k)
      BY <1>0, <2>2, <2>3
    <3>2. new[j] = entries[at(j)] /\ new[k] = entries[at(k)]
      BY <2>2
    <3> HIDE DEF at
    <3> QED BY <3>1, <3>2 DEF HashesGrow
  <2> QED BY <2>1, <2>3 DEF HashesGrow
<1>6. ASSUME NEW i \in 1..Len(entries), NEW c \in Contents, Modify(i, c)
      PROVE  HashesGrow(entries')
  <2> DEFINE new == [entries EXCEPT ![i].content = c]
  <2>1. entries' = new
    BY <1>6 DEF Modify
  <2>2. /\ Len(new) = Len(entries)
        /\ \A j \in 1..Len(entries) : /\ new[j].prev_hash = entries[j].prev_hash
                                      /\ new[j].entry_hash = entries[j].entry_hash
    BY <1>0, GrowModified
  <2> HIDE DEF new
  <2> QED BY <2>1, <2>2 DEF HashesGrow
<1>7. ASSUME entries' = entries \/ entries' = <<>> PROVE HashesGrow(entries')
  BY <1>1, <1>7
<1>8. CASE ExportOverwrite \/ ExportAppend \/ ExportIncremental \/ WriteLine
             \/ ExportDone \/ OpenTracker \/ WriteTracker \/ ExportFails
             \/ Crash \/ UNCHANGED vars
  BY <1>7, <1>8 DEF ExportOverwrite, ExportAppend, ExportIncremental, WriteLine,
       ExportDone, OpenTracker, WriteTracker, ExportFails, Crash, vars
<1> QED BY <1>2, <1>3, <1>4, <1>5, <1>6, <1>8 DEF Next, Import, Fault


\* Every export but the append writes the whole of what the file lacks.
LEMMA RestStep ==
  AuditInv /\ OneMode /\ WritesTheRest /\ IncrementalIsExact /\ [Next]_vars
    => WritesTheRest'
<1> SUFFICES ASSUME AuditInv, OneMode, WritesTheRest, IncrementalIsExact,
                    [Next]_vars, modes' = {"w"} \/ Incremental'
             PROVE  /\ pending'.step = "lines" => file' \o pending'.todo = entries'
                    /\ pending'.step = "tracker" => file' = entries'
  BY DEF WritesTheRest
<1>0. /\ pending \in Pending /\ entries \in Seq(AuditEntry)
      /\ file \in Seq(Line) /\ tracker \in Nat
      /\ ~faulted => VerifyChain(entries)
  BY DEF AuditInv, TypeOK, ChainIntact
<1>1. ASSUME pending' = Idle
      PROVE  /\ pending'.step = "lines" => file' \o pending'.todo = entries'
             /\ pending'.step = "tracker" => file' = entries'
  BY <1>1 DEF Idle
<1>2. modes' = {"incremental"} \/ modes' = {"w"}
  BY DEF Incremental
<1>3. ASSUME modes' = modes, crashes' = crashes, faulted' = faulted
      PROVE  /\ modes = {"w"} \/ Incremental
             /\ pending.step = "lines" => file \o pending.todo = entries
             /\ pending.step = "tracker" => file = entries
  BY <1>3 DEF WritesTheRest, Incremental
<1>4. CASE ExportOverwrite
  <2>1. /\ file' = <<>> /\ entries' = entries
        /\ pending'.step = "lines" /\ pending'.todo = entries
    BY <1>4 DEF ExportOverwrite
  <2> QED BY <1>0, <2>1, JoinEmpty
<1>5. CASE ExportAppend
  BY <1>2, <1>5 DEF ExportAppend
<1>6. CASE ExportIncremental
  <2>1. /\ "incremental" \in modes /\ pending = Idle
        /\ modes' = modes /\ crashes' = crashes /\ faulted' = faulted
        /\ entries' = entries /\ file' = file
        /\ pending'.step = "lines"
        /\ pending'.todo = NewEntries(entries, tracker)
    BY <1>6 DEF ExportIncremental
  <2>2. Incremental
    BY <1>3, <2>1
  <2>3. /\ tracker \in 0..Len(entries) /\ file = SubSeq(entries, 1, tracker)
        /\ VerifyChain(entries)
    BY <1>0, <2>1, <2>2 DEF IncrementalIsExact, Incremental
  <2>4. NewEntries(entries, tracker) = SubSeq(entries, tracker + 1, Len(entries))
    BY <1>0, <2>3, NewEntriesOfChain
  <2>5. file \o NewEntries(entries, tracker) = entries
    BY <1>0, <2>3, <2>4, StartAndRest
  <2> QED BY <2>1, <2>5
<1>7. CASE WriteLine
  <2>1. /\ pending.step = "lines" /\ pending.todo # <<>>
        /\ pending.todo \in Seq(AuditEntry)
        /\ pending'.step = "lines" /\ pending'.todo = Tail(pending.todo)
        /\ file' = WithLine(file, Head(pending.todo)) /\ entries' = entries
        /\ modes' = modes /\ crashes' = crashes /\ faulted' = faulted
    BY <1>0, <1>7 DEF WriteLine, Pending
  <2>2. file \o pending.todo = entries
    BY <1>3, <2>1
  <2>3. file \in Seq(AuditEntry)
    <3> DEFINE todo == pending.todo
               w == file \o todo
    <3>1. todo \in Seq(Line) /\ w = entries
      BY <2>1, <2>2 DEF Line
    <3> HIDE DEF todo
    <3>2. /\ Len(w) = Len(file) + Len(todo)
          /\ \A i \in 1..(Len(file) + Len(todo)) :
               w[i] = IF i <= Len(file) THEN file[i] ELSE todo[i - Len(file)]
      BY <1>0, <3>1, ConcatProperties
    <3> HIDE DEF w
    <3>3. ASSUME NEW i \in 1..Len(file) PROVE file[i] \in AuditEntry
      <4>1. i \in 1..Len(entries) /\ i \in 1..(Len(file) + Len(todo))
        BY <1>0, <3>1, <3>2
      <4>2. entries[i] = file[i]
        BY <3>1, <3>2, <4>1
      <4> QED BY <1>0, <4>1, <4>2
    <3> QED BY <1>0, <3>3
  <2>4. Head(pending.todo) \in AuditEntry
    BY <2>1
  <2>5. file' = Append(file, Head(pending.todo))
    BY <2>1, <2>3, <2>4, WholeLine
  <2>6. Append(file, Head(pending.todo)) \o Tail(pending.todo)
          = file \o pending.todo
    BY <2>1, <2>3, MoveHead
  <2> QED BY <2>1, <2>2, <2>5, <2>6
<1>8. CASE OpenTracker
  <2>1. /\ pending.step = "lines" /\ pending.todo = <<>>
        /\ pending'.step = "tracker" /\ entries' = entries /\ file' = file
        /\ modes' = modes /\ crashes' = crashes /\ faulted' = faulted
    BY <1>0, <1>8 DEF OpenTracker, Pending
  <2> QED BY <1>0, <1>3, <2>1, JoinEmpty
<1>9. CASE ExportDone \/ WriteTracker \/ ExportFails \/ Crash
  BY <1>1, <1>9 DEF ExportDone, WriteTracker, ExportFails, Crash
<1>10. ASSUME NEW c \in Contents, Record(c) PROVE pending' = Idle
  BY <1>10 DEF Record
<1>11. CASE ImportComplete
  BY <1>1, <1>11 DEF ImportComplete
<1>12. ASSUME NEW n \in 0..MaxLines, ImportRefused(n) PROVE pending' = Idle
  BY <1>12 DEF ImportRefused
<1>13. ASSUME NEW i \in 1..Len(entries), Remove(i) PROVE pending' = Idle
  BY <1>13 DEF Remove
<1>14. ASSUME NEW i \in 1..Len(entries), NEW c \in Contents, Modify(i, c)
       PROVE  pending' = Idle
  BY <1>14 DEF Modify
<1>15. CASE UNCHANGED vars
  BY <1>3, <1>15 DEF vars
<1> QED BY <1>1, <1>4, <1>5, <1>6, <1>7, <1>8, <1>9, <1>10, <1>11, <1>12, <1>13,
           <1>14, <1>15 DEF Next, Import, Fault

\* import_jsonl gets to the end of a file whose first line is chained to a hash
\* of the log only if the log is empty.
LEMMA NoRepairByOwnFile ==
  ASSUME AuditInv, HashesGrow(entries), file # <<>>,
         KnownHash(entries, file[1].prev_hash),
         ImportsUpTo(file, entries, Len(file))
  PROVE  entries = <<>>
<1> SUFFICES ASSUME entries # <<>> PROVE FALSE
  OBVIOUS
<1>0. entries \in Seq(AuditEntry) /\ file \in Seq(Line)
  BY DEF AuditInv, TypeOK
<1>1. 1 \in 1..Len(file) /\ SubSeq(file, 1, 1 - 1) = <<>>
  BY <1>0
<1>2. Acceptable(file[1], entries \o SubSeq(file, 1, 1 - 1))
  BY <1>1 DEF ImportsUpTo
<1>3. Follows(file[1], entries)
  BY <1>0, <1>1, <1>2, JoinEmpty DEF Acceptable
<1> DEFINE n == Len(entries)
<1>4. n \in 1..n /\ n \in Nat
  BY <1>0
<1>5. file[1].prev_hash = entries[n].entry_hash
  BY <1>3 DEF Follows, LastHash
<1>6. entries[n] \in AuditEntry
  BY <1>0, <1>4
<1>7. Len(entries[n].prev_hash) \in Nat
  BY <1>6 DEF AuditEntry, Hash
<1>8. Len(entries[n].prev_hash) < Len(entries[n].entry_hash)
  BY <1>4 DEF HashesGrow
<1>9. CASE file[1].prev_hash = GENESIS
  <2>1. Len(entries[n].entry_hash) = 0
    BY <1>5, <1>9 DEF GENESIS
  <2> QED BY <1>7, <1>8, <2>1
<1>10. ASSUME NEW i \in 1..n, entries[i].prev_hash = file[1].prev_hash PROVE FALSE
  <2>1. i <= n
    BY <1>4
  <2>2. Len(entries[i].prev_hash) < Len(entries[n].entry_hash)
    BY <1>4, <2>1 DEF HashesGrow
  <2>3. entries[i] \in AuditEntry
    BY <1>0
  <2>4. Len(entries[i].prev_hash) \in Nat
    BY <2>3 DEF AuditEntry, Hash
  <2> QED BY <1>5, <1>10, <2>2, <2>4
<1> QED BY <1>9, <1>10 DEF KnownHash

\* So where the exports are incremental and none was cut short, a log is only
\* emptied by an import while the file is empty.
LEMMA RepairNeedsEmptyFile ==
  ASSUME AuditInv, HashesGrow(entries), FileIsOfLog, modes = {"incremental"},
         crashes = 0, ImportComplete, ~VerifyChain(entries \o file)
  PROVE  file = <<>>
<1> SUFFICES ASSUME file # <<>> PROVE FALSE
  OBVIOUS
<1>0. entries \in Seq(AuditEntry) /\ file \in Seq(Line)
  BY DEF AuditInv, TypeOK
<1>1. /\ ImportsUpTo(file, entries, Len(file))
      /\ KnownHash(entries, file[1].prev_hash)
  BY DEF ImportComplete, FileIsOfLog
<1>2. entries = <<>>
  BY <1>1, NoRepairByOwnFile
<1>3. Len(file) \in 0..Len(file) /\ SubSeq(file, 1, Len(file)) = file
  BY <1>0
<1>4. VerifyChain(entries)
  BY <1>2 DEF VerifyChain
<1> QED BY <1>0, <1>1, <1>3, <1>4, ImportedChain


\* The hashes the file knows of stay known while the log keeps them.
LEMMA FileOfLogStep == AuditInv /\ FileInv /\ [Next]_vars => FileIsOfLog'
<1> SUFFICES ASSUME AuditInv, FileInv, [Next]_vars,
                    modes' = {"incremental"}, crashes' = 0
             PROVE  FileIsOfLog'
  BY DEF FileIsOfLog
<1>0. /\ pending \in Pending /\ entries \in Seq(AuditEntry)
      /\ file \in Seq(Line) /\ tracker \in Nat /\ crashes \in Nat
      /\ ~faulted => VerifyChain(entries)
  BY DEF AuditInv, TypeOK, ChainIntact
<1>1. OneMode /\ HashesGrow(entries) /\ FileIsOfLog /\ IncrementalIsExact
  BY DEF FileInv
<1>2. modes = {"incremental"}
  BY DEF Next, Import, Fault, Record, ExportOverwrite, ExportAppend,
         ExportIncremental, WriteLine, ExportDone, OpenTracker, WriteTracker,
         ExportFails, Crash, ImportComplete, ImportRefused, Remove, Modify, vars
<1>3. ASSUME crashes' = crashes
      PROVE  /\ crashes = 0 /\ file \in Seq(AuditEntry)
             /\ file # <<>> => KnownHash(entries, file[1].prev_hash)
             /\ pending.step = "lines" =>
                  \A k \in 1..Len(pending.todo) :
                    KnownHash(entries, pending.todo[k].prev_hash)
             /\ file = <<>> => /\ pending = Idle => tracker = 0
                               /\ pending.step = "lines" => pending.todo # <<>>
                               /\ pending.step # "tracker"
  BY <1>1, <1>2, <1>3 DEF FileIsOfLog
<1>4. ASSUME crashes' = crashes, file' = file, pending = Idle, pending' = pending,
             tracker' = tracker,
             file # <<>> => KnownHash(entries', file[1].prev_hash)
      PROVE  FileIsOfLog'
  <2>1. pending'.step = "idle" /\ pending' = Idle /\ Idle' = Idle
    BY <1>4 DEF Idle
  <2> QED BY <1>3, <1>4, <2>1 DEF FileIsOfLog
<1>5. ASSUME NEW t \in Seq(AuditEntry), NEW h, KnownHash(entries, h)
      PROVE  KnownHash(entries \o t, h)
  <2>1. CASE h = GENESIS
    BY <2>1 DEF KnownHash
  <2>2. ASSUME NEW i \in 1..Len(entries), entries[i].prev_hash = h
        PROVE  KnownHash(entries \o t, h)
    <3>1. i \in 1..Len(entries \o t) /\ (entries \o t)[i] = entries[i]
      BY <1>0
    <3> QED BY <2>2, <3>1 DEF KnownHash
  <2> QED BY <1>5, <2>1, <2>2 DEF KnownHash
<1>6. ASSUME NEW c \in Contents, Record(c) PROVE FileIsOfLog'
  <2>1. entries' = entries \o <<Sealed(c, entries)>>
    BY <1>0, <1>6, SealedType DEF Record
  <2>2. <<Sealed(c, entries)>> \in Seq(AuditEntry)
    BY <1>0, SealedType
  <2>3. crashes' = crashes /\ file' = file /\ pending = Idle
          /\ pending' = pending /\ tracker' = tracker
    BY <1>6 DEF Record
  <2> QED BY <1>3, <1>4, <1>5, <2>1, <2>2, <2>3
<1>7. CASE ExportOverwrite \/ ExportAppend
  BY <1>2, <1>7 DEF ExportOverwrite, ExportAppend
<1>8. CASE ExportIncremental
  <2> DEFINE todo == NewEntries(entries, tracker)
  <2>1. /\ crashes' = crashes /\ file' = file /\ entries' = entries
        /\ todo # <<>>
        /\ pending' = [step |-> "lines", mode |-> "incremental", todo |-> todo]
    BY <1>8 DEF ExportIncremental
  <2>2. ASSUME NEW k \in 1..Len(todo)
        PROVE  KnownHash(entries, todo[k].prev_hash)
    <3>1. PICK i \in 1..Len(entries) : todo[k] = entries[i]
      BY <1>0, NewEntriesOfLog
    <3> QED BY <3>1 DEF KnownHash
  <2> HIDE DEF todo
  <2>3. /\ pending'.step = "lines" /\ pending'.todo = todo
        /\ pending' # Idle /\ Idle' = Idle
    BY <2>1 DEF Idle
  <2> QED BY <1>3, <2>1, <2>2, <2>3 DEF FileIsOfLog
<1>9. CASE WriteLine
  <2> DEFINE todo == pending.todo
             rest == Tail(pending.todo)
  <2>1. /\ crashes' = crashes /\ entries' = entries /\ pending.step = "lines"
        /\ todo # <<>> /\ todo \in Seq(AuditEntry)
        /\ file' = WithLine(file, Head(todo))
        /\ pending'.step = "lines" /\ pending'.todo = rest
    BY <1>0, <1>9 DEF WriteLine, Pending
  <2>2. /\ file \in Seq(AuditEntry)
        /\ file # <<>> => KnownHash(entries, file[1].prev_hash)
        /\ \A k \in 1..Len(todo) : KnownHash(entries, todo[k].prev_hash)
    BY <1>3, <2>1
  <2>3. Head(todo) \in AuditEntry /\ Head(todo) = todo[1] /\ 1 \in 1..Len(todo)
    BY <2>1
  <2>4. /\ Len(rest) = Len(todo) - 1
        /\ \A k \in 1..Len(rest) : rest[k] = todo[k + 1] /\ k + 1 \in 1..Len(todo)
    BY <2>1
  <2> HIDE DEF todo, rest
  <2>5. file' = Append(file, Head(todo))
    BY <2>1, <2>2, <2>3, WholeLine
  <2>6. /\ file' \in Seq(AuditEntry) /\ file' # <<>>
        /\ file'[1] = IF file = <<>> THEN todo[1] ELSE file[1]
    BY <2>2, <2>3, <2>5
  <2>7. KnownHash(entries', file'[1].prev_hash)
    BY <2>1, <2>2, <2>3, <2>6
  <2>8. \A k \in 1..Len(pending'.todo) :
          KnownHash(entries', pending'.todo[k].prev_hash)
    BY <2>1, <2>2, <2>4
  <2> QED BY <2>6, <2>7, <2>8 DEF FileIsOfLog
<1>10. CASE ExportDone
  <2>1. pending.mode \in {"w", "a"} /\ pending.mode \in modes
    BY <1>1, <1>10 DEF ExportDone, OneMode
  <2> QED BY <1>2, <2>1
<1>11. CASE OpenTracker
  <2>1. /\ crashes' = crashes /\ entries' = entries /\ pending.step = "lines"
        /\ pending.todo = <<>> /\ file' = file /\ pending'.step = "tracker"
    BY <1>0, <1>11 DEF OpenTracker, Pending
  <2>2. file # <<>>
    BY <1>3, <2>1
  <2> QED BY <1>3, <2>1, <2>2 DEF FileIsOfLog
<1>12. CASE WriteTracker
  <2>1. /\ crashes' = crashes /\ entries' = entries /\ pending.step = "tracker"
        /\ file' = file /\ pending'.step = "idle"
    BY <1>12 DEF WriteTracker, Idle
  <2>2. file # <<>>
    BY <1>3, <2>1
  <2> QED BY <1>3, <2>1, <2>2 DEF FileIsOfLog
<1>13. CASE ExportFails \/ Crash
  <2>1. crashes' = crashes + 1
    BY <1>13 DEF ExportFails, Crash
  <2> QED BY <1>0, <2>1
<1>14. CASE ImportComplete
  <2>0. crashes' = crashes /\ file' = file /\ pending = Idle
          /\ pending' = pending /\ tracker' = tracker
    BY <1>14 DEF ImportComplete
  <2>1. CASE VerifyChain(entries \o file)
    <3>1. entries' = entries \o file
      BY <1>14, <2>1 DEF ImportComplete
    <3>2. file \in Seq(AuditEntry)
      BY <1>3, <2>0
    <3> QED BY <1>3, <1>4, <1>5, <2>0, <3>1, <3>2
  <2>2. CASE ~VerifyChain(entries \o file)
    <3>1. file = <<>>
      BY <1>1, <1>2, <1>3, <1>14, <2>0, <2>2, RepairNeedsEmptyFile
    <3> QED BY <1>4, <2>0, <3>1
  <2> QED BY <2>1, <2>2
<1>15. ASSUME NEW n \in 0..MaxLines, ImportRefused(n) PROVE FileIsOfLog'
  <2>0. /\ crashes' = crashes /\ file' = file /\ pending = Idle
        /\ pending' = pending /\ tracker' = tracker
        /\ entries' = entries \o SubSeq(file, 1, n)
        /\ n \in 0..Len(file)
    BY <1>0, <1>15, AuditAssumption DEF ImportRefused
  <2>1. SubSeq(file, 1, n) \in Seq(AuditEntry)
    <3>1. file \in Seq(AuditEntry)
      BY <1>3, <2>0
    <3> QED BY <2>0, <3>1
  <2> QED BY <1>3, <1>4, <1>5, <2>0, <2>1
<1>16. ASSUME NEW i \in 1..Len(entries), Remove(i) PROVE FileIsOfLog'
  <2>0. /\ crashes' = crashes /\ file' = file /\ pending = Idle
        /\ pending' = pending /\ tracker' = tracker /\ ~faulted
    BY <1>16 DEF Remove
  <2>1. Incremental /\ VerifyChain(entries)
    BY <1>0, <1>2, <1>3, <2>0 DEF Incremental
  <2>2. ASSUME file # <<>> PROVE file[1].prev_hash = GENESIS
    <3>1. /\ tracker = Len(file) /\ tracker <= Len(entries)
          /\ file = SubSeq(entries, 1, tracker)
      BY <1>1, <2>0, <2>1 DEF IncrementalIsExact
    <3>2. tracker > 0
      BY <1>0, <2>2, <3>1
    <3>3. file[1] = entries[1] /\ 1 \in 1..Len(entries)
      BY <1>0, <3>1, <3>2
    <3>4. Follows(entries[1], SubSeq(entries, 1, 1 - 1))
      BY <2>1, <3>3 DEF VerifyChain
    <3>5. SubSeq(entries, 1, 1 - 1) = <<>>
      BY <1>0
    <3> QED BY <3>3, <3>4, <3>5 DEF Follows, LastHash
  <2> QED BY <1>4, <2>0, <2>2 DEF KnownHash
<1>17. ASSUME NEW i \in 1..Len(entries), NEW c \in Contents, Modify(i, c)
       PROVE  FileIsOfLog'
  <2> DEFINE new == [entries EXCEPT ![i].content = c]
  <2>0. /\ crashes' = crashes /\ file' = file /\ pending = Idle
        /\ pending' = pending /\ tracker' = tracker
    BY <1>17 DEF Modify
  <2>1. entries' = new
    BY <1>17 DEF Modify
  <2>2. /\ Len(new) = Len(entries)
        /\ \A j \in 1..Len(entries) : new[j].prev_hash = entries[j].prev_hash
    BY <1>0, GrowModified
  <2> HIDE DEF new
  <2>3. file # <<>> => KnownHash(entries', file[1].prev_hash)
    BY <1>3, <2>0, <2>1, <2>2 DEF KnownHash
  <2> QED BY <1>4, <2>0, <2>3
<1>18. CASE UNCHANGED vars
  <2>1. FileIsOfLog' = FileIsOfLog
    BY <1>18 DEF vars, FileIsOfLog, Idle
  <2> QED BY <1>1, <2>1
<1> QED BY <1>6, <1>7, <1>8, <1>9, <1>10, <1>11, <1>12, <1>13, <1>14, <1>15, <1>16,
           <1>17, <1>18 DEF Next, Import, Fault


\* The incremental export starts where the last one ended.
LEMMA ExactStep == AuditInv /\ FileInv /\ [Next]_vars => IncrementalIsExact'
<1> SUFFICES ASSUME AuditInv, FileInv, [Next]_vars, Incremental', pending' = Idle
             PROVE  /\ tracker' = Len(file') /\ tracker' <= Len(entries')
                    /\ file' = SubSeq(entries', 1, tracker')
  BY DEF IncrementalIsExact, Idle
<1> DEFINE Exact == /\ tracker' = Len(file') /\ tracker' <= Len(entries')
                    /\ file' = SubSeq(entries', 1, tracker')
<1> SUFFICES Exact
  OBVIOUS
<1>0. /\ pending \in Pending /\ entries \in Seq(AuditEntry)
      /\ file \in Seq(Line) /\ tracker \in Nat /\ crashes \in Nat
      /\ ~faulted => VerifyChain(entries)
  BY DEF AuditInv, TypeOK, ChainIntact
<1>1. /\ OneMode /\ WritesTheRest /\ HashesGrow(entries) /\ FileIsOfLog
      /\ IncrementalIsExact
  BY DEF FileInv
<1>2. modes' = {"incremental"} /\ crashes' = 0 /\ ~faulted'
  BY DEF Incremental
<1>3. ASSUME NEW t \in Seq(AuditEntry), entries' = entries \o t, file' = file,
             tracker' = tracker, pending = Idle, modes' = modes,
             crashes' = crashes, faulted' = faulted
      PROVE  Exact
  <2>1. /\ tracker = Len(file) /\ tracker <= Len(entries)
        /\ file = SubSeq(entries, 1, tracker)
    BY <1>1, <1>2, <1>3 DEF IncrementalIsExact, Incremental
  <2>2. SubSeq(entries \o t, 1, tracker) = SubSeq(entries, 1, tracker)
          /\ Len(entries \o t) >= Len(entries)
          /\ Len(entries \o t) \in Nat
    <3>1. tracker \in 0..Len(entries)
      BY <1>0, <2>1
    <3>2. entries \o t \in Seq(AuditEntry)
      BY <1>0, <1>3, ConcatProperties
    <3> QED BY <1>0, <1>3, <3>1, <3>2, StartOfJoined
  <2>3. tracker <= Len(entries \o t)
    BY <1>0, <2>1, <2>2
  <2> QED BY <1>3, <2>1, <2>2, <2>3
<1>4. ASSUME NEW c \in Contents, Record(c) PROVE Exact
  <2>1. entries' = entries \o <<Sealed(c, entries)>>
    BY <1>0, <1>4, SealedType DEF Record
  <2>2. <<Sealed(c, entries)>> \in Seq(AuditEntry)
    BY <1>0, SealedType
  <2>3. file' = file /\ tracker' = tracker /\ pending = Idle /\ modes' = modes
          /\ crashes' = crashes /\ faulted' = faulted
    BY <1>4 DEF Record
  <2> HIDE DEF Exact
  <2> QED BY <1>3, <2>1, <2>2, <2>3
<1>5. CASE ExportOverwrite \/ ExportAppend \/ ExportIncremental
  <2>1. pending'.step = "lines"
    BY <1>5 DEF ExportOverwrite, ExportAppend, ExportIncremental
  <2> QED BY <2>1 DEF Idle
<1>6. CASE WriteLine
  <2>1. pending'.step = "lines"
    BY <1>0, <1>6 DEF WriteLine, Pending
  <2> QED BY <2>1 DEF Idle
<1>7. CASE OpenTracker
  <2>1. pending'.step = "tracker"
    BY <1>0, <1>7 DEF OpenTracker, Pending
  <2> QED BY <2>1 DEF Idle
<1>8. CASE ExportDone
  <2>1. pending.mode \in {"w", "a"} /\ pending.mode \in modes /\ modes' = modes
    BY <1>1, <1>8 DEF ExportDone, OneMode
  <2> QED BY <1>2, <2>1
<1>9. CASE WriteTracker
  <2>1. /\ pending.step = "tracker" /\ tracker' = entries[Len(entries)].sequence
        /\ modes' = modes /\ entries' = entries /\ file' = file
        /\ crashes' = crashes /\ faulted' = faulted
    BY <1>9 DEF WriteTracker
  <2>2. entries # <<>>
    BY <2>1 DEF AuditInv, ExportInv
  <2>3. file = entries /\ VerifyChain(entries)
    BY <1>0, <1>1, <1>2, <2>1 DEF WritesTheRest, Incremental
  <2>4. tracker' = Len(entries)
    <3>1. Len(entries) \in 1..Len(entries)
      BY <1>0, <2>2
    <3> QED BY <1>0, <2>1, <2>3, <3>1, ChainNumbers
  <2>5. SubSeq(entries, 1, Len(entries)) = entries /\ Len(entries) \in Nat
    BY <1>0
  <2> QED BY <2>1, <2>3, <2>4, <2>5
<1>10. CASE ExportFails \/ Crash
  <2>1. crashes' = crashes + 1
    BY <1>10 DEF ExportFails, Crash
  <2> QED BY <1>0, <1>2, <2>1
<1>11. CASE ImportComplete
  <2>0. /\ crashes' = crashes /\ file' = file /\ pending = Idle
        /\ tracker' = tracker /\ modes' = modes
    BY <1>11 DEF ImportComplete
  <2>1. CASE VerifyChain(entries \o file)
    <3>1. entries' = entries \o file /\ faulted' = faulted
      BY <1>11, <2>1 DEF ImportComplete
    <3>2. file \in Seq(AuditEntry)
      BY <1>1, <1>2, <2>0 DEF FileIsOfLog
    <3> HIDE DEF Exact
    <3> QED BY <1>3, <2>0, <3>1, <3>2
  <2>2. CASE ~VerifyChain(entries \o file)
    <3>1. file = <<>>
      BY <1>1, <1>2, <1>11, <2>0, <2>2, RepairNeedsEmptyFile
    <3>2. tracker = 0
      BY <1>1, <1>2, <2>0, <3>1 DEF FileIsOfLog
    <3>3. entries' = <<>>
      BY <1>11, <2>2 DEF ImportComplete
    <3>4. SubSeq(<<>>, 1, 0) = <<>> /\ Len(<<>>) = 0
      OBVIOUS
    <3> QED BY <2>0, <3>1, <3>2, <3>3, <3>4
  <2> QED BY <2>1, <2>2
<1>12. ASSUME NEW n \in 0..MaxLines, ImportRefused(n) PROVE Exact
  <2>0. /\ crashes' = crashes /\ file' = file /\ pending = Idle
        /\ tracker' = tracker /\ modes' = modes /\ faulted' = faulted
        /\ entries' = entries \o SubSeq(file, 1, n)
        /\ n \in 0..Len(file)
    BY <1>0, <1>12, AuditAssumption DEF ImportRefused
  <2>1. SubSeq(file, 1, n) \in Seq(AuditEntry)
    <3>1. file \in Seq(AuditEntry)
      BY <1>1, <1>2, <2>0 DEF FileIsOfLog
    <3> QED BY <2>0, <3>1
  <2> HIDE DEF Exact
  <2> QED BY <1>3, <2>0, <2>1
<1>13. ASSUME NEW i \in 1..Len(entries), Remove(i) PROVE Exact
  BY <1>2, <1>13 DEF Remove
<1>14. ASSUME NEW i \in 1..Len(entries), NEW c \in Contents, Modify(i, c)
       PROVE  Exact
  BY <1>2, <1>14 DEF Modify
<1>15. CASE UNCHANGED vars
  <2>1. Incremental /\ pending = Idle
    BY <1>15 DEF vars, Incremental, Idle
  <2> QED BY <1>1, <1>15, <2>1 DEF vars, IncrementalIsExact
<1> HIDE DEF Exact
<1> QED BY <1>4, <1>5, <1>6, <1>7, <1>8, <1>9, <1>10, <1>11, <1>12, <1>13, <1>14,
           <1>15 DEF Next, Import, Fault

\* Together: what the exports leave is as the invariant says.
LEMMA FileInvHolds == Spec => [](AuditInv /\ FileInv)
<1>1. Init => AuditInv /\ FileInv
  <2> SUFFICES ASSUME Init PROVE FileInv
    BY InitInv
  <2>1. /\ pending = Idle /\ entries = <<>> /\ file = <<>> /\ tracker = 0
        /\ Idle.step = "idle" /\ Idle.mode = "none"
    BY DEF Init, Idle
  <2>2. OneMode /\ WritesTheRest /\ FileIsOfLog
    BY <2>1 DEF OneMode, WritesTheRest, FileIsOfLog
  <2>3. HashesGrow(entries)
    BY <2>1 DEF HashesGrow
  <2>4. IncrementalIsExact
    BY <2>1 DEF IncrementalIsExact
  <2> QED BY <2>2, <2>3, <2>4 DEF FileInv
<1>2. (AuditInv /\ FileInv) /\ [Next]_vars => (AuditInv /\ FileInv)'
  <2> SUFFICES ASSUME AuditInv, FileInv, [Next]_vars PROVE AuditInv' /\ FileInv'
    OBVIOUS
  <2>1. AuditInv' /\ OneMode' /\ HashesGrow(entries') /\ WritesTheRest'
    BY AuditStep, OneModeStep, HashesStep, RestStep DEF FileInv
  <2>2. FileIsOfLog' /\ IncrementalIsExact'
    BY FileOfLogStep, ExactStep
  <2> QED BY <2>1, <2>2 DEF FileInv, HashesGrow
<1> QED BY <1>1, <1>2, PTL DEF Spec

\* The incremental export neither skips nor repeats an entry, whatever was
\* imported between the exports and although import_jsonl may repair a damaged
\* log by emptying it.
THEOREM IncrementalAlwaysExact == Spec => []IncrementalIsExact
<1>1. AuditInv /\ FileInv => IncrementalIsExact
  BY DEF FileInv
<1> QED BY <1>1, FileInvHolds, PTL

\* A finished export leaves a file that import_jsonl takes in whole, exactly if
\* no entry of the log is larger than import_jsonl accepts: where all exports
\* overwrite, after any that were cut short, and where all are incremental, as
\* long as none was cut short.  Appending and mixed modes are not covered.
THEOREM ExportsAlwaysImportable == Spec => ExportsAreImportable
<1>1. AuditInv /\ FileInv /\ [Next]_vars =>
        ((/\ pending # Idle /\ pending' = Idle /\ crashes' = crashes
          /\ Incremental \/ (modes = {"w"} /\ ~faulted))
            => (Importable(file') <=> ~\E i \in 1..Len(entries) :
                                         entries[i].content \in LargeContents))
  <2> SUFFICES ASSUME AuditInv, FileInv, [Next]_vars, pending # Idle,
                      pending' = Idle, crashes' = crashes,
                      Incremental \/ (modes = {"w"} /\ ~faulted)
               PROVE  Importable(file') <=> ~\E i \in 1..Len(entries) :
                                               entries[i].content \in LargeContents
    OBVIOUS
  <2>0. /\ pending \in Pending /\ entries \in Seq(AuditEntry)
        /\ file \in Seq(Line) /\ crashes \in Nat /\ VerifyChain(entries)
    BY DEF AuditInv, TypeOK, ChainIntact, Incremental
  <2>1. ASSUME pending'.step \in {"lines", "tracker"} PROVE FALSE
    BY <2>1 DEF Idle
  <2>2. ASSUME crashes' = crashes + 1 PROVE FALSE
    BY <2>0, <2>2
  <2>3. (ExportDone \/ WriteTracker) /\ file' = file
    <3>1. CASE WriteLine
      <4>1. pending'.step = "lines"
        BY <2>0, <3>1 DEF WriteLine, Pending
      <4> QED BY <2>1, <4>1
    <3>2. CASE OpenTracker
      <4>1. pending'.step = "tracker"
        BY <2>0, <3>2 DEF OpenTracker, Pending
      <4> QED BY <2>1, <4>1
    <3>3. CASE ExportFails \/ Crash
      <4>1. crashes' = crashes + 1
        BY <3>3 DEF ExportFails, Crash
      <4> QED BY <2>2, <4>1
    <3>4. CASE ExportDone \/ WriteTracker
      BY <3>4 DEF ExportDone, WriteTracker
    <3>5. ASSUME pending = Idle PROVE FALSE
      BY <3>5
    <3>6. CASE UNCHANGED vars
      BY <3>6 DEF vars, Idle
    <3> QED BY <3>1, <3>2, <3>3, <3>4, <3>5, <3>6
            DEF Next, Import, Fault, Record, ExportOverwrite, ExportAppend,
                ExportIncremental, ImportComplete, ImportRefused, Remove, Modify
  <2>4. file = entries
    <3>1. /\ pending.step = "lines" => file \o pending.todo = entries
          /\ pending.step = "tracker" => file = entries
      BY DEF FileInv, WritesTheRest
    <3>2. CASE ExportDone
      <4>1. pending.step = "lines" /\ pending.todo = <<>>
        BY <3>2 DEF ExportDone
      <4> QED BY <2>0, <3>1, <4>1, JoinEmpty
    <3>3. CASE WriteTracker
      BY <3>1, <3>3 DEF WriteTracker
    <3> QED BY <2>3, <3>2, <3>3
  <2>5. ASSUME NEW i \in 1..Len(entries)
        PROVE  /\ IsEntry(entries[i])
               /\ Acceptable(entries[i], <<>> \o SubSeq(entries, 1, i - 1))
                    <=> entries[i].content \notin LargeContents
    <3>1. entries[i] \in AuditEntry
      BY <2>0
    <3>2. IsEntry(entries[i])
      BY <3>1, AuditAssumption DEF IsEntry
    <3>3. SubSeq(entries, 1, i - 1) \in Seq(AuditEntry)
      BY <2>0
    <3>4. <<>> \o SubSeq(entries, 1, i - 1) = SubSeq(entries, 1, i - 1)
      BY <3>3, JoinEmpty
    <3>5. Follows(entries[i], SubSeq(entries, 1, i - 1))
      BY <2>0 DEF VerifyChain
    <3> QED BY <3>2, <3>4, <3>5 DEF Acceptable
  <2>6. file' = entries
    BY <2>3, <2>4
  <2> QED BY <2>5, <2>6 DEF Importable, ImportsUpTo
<1> QED BY <1>1, FileInvHolds, PTL DEF Spec, ExportsAreImportable

\* Until the process ends an undamaged log only gets longer: no operation
\* drops, changes or reorders an entry, an import that is refused half way
\* included.
THEOREM LogOnlyGrows == Spec => LogIsAppendOnly
<1>1. AuditInv /\ [Next]_vars =>
        ((crashes' = crashes /\ ~faulted /\ ~faulted') =>
           /\ Len(entries') >= Len(entries)
           /\ SubSeq(entries', 1, Len(entries)) = entries)
  <2> SUFFICES ASSUME AuditInv, [Next]_vars, crashes' = crashes, ~faulted,
                      ~faulted'
               PROVE  /\ Len(entries') >= Len(entries)
                      /\ SubSeq(entries', 1, Len(entries)) = entries
    OBVIOUS
  <2>0. /\ entries \in Seq(AuditEntry) /\ file \in Seq(Line) /\ crashes \in Nat
        /\ VerifyChain(entries)
    BY DEF AuditInv, TypeOK, ChainIntact
  <2>1. ASSUME NEW t \in Seq(AuditEntry), entries' = entries \o t
        PROVE  /\ Len(entries') >= Len(entries)
               /\ SubSeq(entries', 1, Len(entries)) = entries
    <3>1. Len(entries) \in 0..Len(entries) /\ SubSeq(entries, 1, Len(entries)) = entries
      BY <2>0
    <3> QED BY <2>0, <2>1, <3>1, StartOfJoined
  <2>2. ASSUME entries' = entries
        PROVE  /\ Len(entries') >= Len(entries)
               /\ SubSeq(entries', 1, Len(entries)) = entries
    BY <2>0, <2>2
  <2>3. ASSUME NEW c \in Contents, Record(c)
        PROVE  \E t \in Seq(AuditEntry) : entries' = entries \o t
    <3>1. <<Sealed(c, entries)>> \in Seq(AuditEntry)
      BY <2>0, SealedType
    <3>2. entries' = entries \o <<Sealed(c, entries)>>
      BY <2>0, <2>3, SealedType DEF Record
    <3> QED BY <3>1, <3>2
  <2>4. CASE ImportComplete
    <3>1. Len(file) \in 0..Len(file) /\ SubSeq(file, 1, Len(file)) = file
      BY <2>0
    <3>2. file \in Seq(AuditEntry) /\ VerifyChain(entries \o file)
      BY <2>0, <2>4, <3>1, ImportedChain DEF ImportComplete
    <3>3. entries' = entries \o file
      BY <2>4, <3>2 DEF ImportComplete
    <3> QED BY <2>1, <3>2, <3>3
  <2>5. ASSUME NEW n \in 0..MaxLines, ImportRefused(n)
        PROVE  \E t \in Seq(AuditEntry) : entries' = entries \o t
    <3>1. n \in 0..Len(file)
      BY <2>0, <2>5, AuditAssumption DEF ImportRefused
    <3>2. SubSeq(file, 1, n) \in Seq(AuditEntry)
      BY <2>0, <2>5, <3>1, ImportedChain DEF ImportRefused
    <3> QED BY <2>5, <3>2 DEF ImportRefused
  <2>6. ASSUME NEW i \in 1..Len(entries), Remove(i) PROVE FALSE
    BY <2>6 DEF Remove
  <2>7. ASSUME NEW i \in 1..Len(entries), NEW c \in Contents, Modify(i, c)
        PROVE  FALSE
    BY <2>7 DEF Modify
  <2>8. CASE Crash
    BY <2>0, <2>8 DEF Crash
  <2>9. CASE ExportOverwrite \/ ExportAppend \/ ExportIncremental \/ WriteLine
               \/ ExportDone \/ OpenTracker \/ WriteTracker \/ ExportFails
               \/ UNCHANGED vars
    BY <2>2, <2>9 DEF ExportOverwrite, ExportAppend, ExportIncremental,
         WriteLine, ExportDone, OpenTracker, WriteTracker, ExportFails, vars
  <2> QED BY <2>1, <2>3, <2>4, <2>5, <2>6, <2>7, <2>8, <2>9
          DEF Next, Import, Fault
<1>2. Init => AuditInv
  BY InitInv
<1> QED BY <1>1, <1>2, AuditStep, PTL DEF Spec, LogIsAppendOnly
=============================================================================
