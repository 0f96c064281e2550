------------------------------ MODULE AuditLog ------------------------------
(***************************************************************************)
(* The tamper-evident audit log of core/security/audit.py: one AuditLog    *)
(* object, the JSONL file it is exported to and the ".seq" tracker of the  *)
(* incremental export.  The file and the tracker outlive the process, the  *)
(* object does not.                                                        *)
(*                                                                         *)
(* SHA-256 is taken to be injective: the hash of an entry is the sequence  *)
(* of contents it commits to, its own after those of the hash it is        *)
(* chained to, and the genesis hash is the empty sequence.                 *)
(***************************************************************************)
EXTENDS Integers, Sequences, FiniteSets

CONSTANTS Contents,        \* what compute_hash covers, prev_hash apart
          LargeContents,   \* contents whose details exceed 10000 characters
          Torn,            \* a line that was written in part
          Spoiled,         \* a torn line that was written on
          Deployments,     \* sets of export modes, one of which is in use
          Faults,          \* ways the entries in memory may be damaged
          MaxEntries,      \* bound: entries in memory
          MaxLines,        \* bound: lines in the file
          MaxCrashes       \* bound: crashes and failed exports

VARIABLES modes,     \* the exports the deployment uses
          entries,   \* AuditLog._entries
          dirty,     \* AuditLog._dirty
          file,      \* the lines of the exported file
          tracker,   \* the number in the tracker file, 0 if there is none
          pending,   \* the export in progress
          crashes,   \* history: crashes so far
          faulted    \* history: the entries were damaged behind the API

vars == <<modes, entries, dirty, file, tracker, pending, crashes, faulted>>

(***************************************************************************)
(* Entries and the chain.                                                  *)
(***************************************************************************)
Hash == Seq(Contents)
GENESIS == <<>>

AuditEntry == [content: Contents, prev_hash: Hash, entry_hash: Hash,
               sequence: Nat]

ASSUME AuditAssumption ==
  /\ Torn \notin AuditEntry /\ Spoiled \notin AuditEntry
  /\ LargeContents \subseteq Contents
  /\ Deployments \subseteq SUBSET {"w", "a", "incremental"}
  /\ Faults \subseteq {"modify", "remove", "truncate"}
  /\ MaxEntries \in Nat /\ MaxLines \in Nat /\ MaxCrashes \in Nat

ComputeHash(content, prevHash) == Append(prevHash, content)

LastHash(log) == IF log = <<>> THEN GENESIS ELSE log[Len(log)].entry_hash

\* record builds the entry and seal()s it.
Sealed(content, log) ==
  [content |-> content, prev_hash |-> LastHash(log),
   entry_hash |-> ComputeHash(content, LastHash(log)),
   sequence |-> Len(log) + 1]

\* The three checks verify_chain and import_jsonl make of each entry.
Follows(entry, log) ==
  /\ entry.sequence = Len(log) + 1
  /\ entry.prev_hash = LastHash(log)
  /\ entry.entry_hash = ComputeHash(entry.content, entry.prev_hash)

\* Mutant: the last entry is skipped.
VerifyChainSkipsLast(log) ==
  \A i \in 1..(Len(log) - 1) : Follows(log[i], SubSeq(log, 1, i - 1))

\* verify_chain()["valid"]
VerifyChain(log) ==
  \A i \in 1..Len(log) : Follows(log[i], SubSeq(log, 1, i - 1))

(***************************************************************************)
(* The file.  A crash while a line is written leaves it torn; what is      *)
(* written after a torn line ends up on the same line and spoils it.       *)
(***************************************************************************)
Line == AuditEntry \cup {Torn, Spoiled}

IsEntry(line) == line \notin {Torn, Spoiled}

WithLine(lines, line) ==
  IF lines # <<>> /\ lines[Len(lines)] = Torn
  THEN [lines EXCEPT ![Len(lines)] = IF line = Torn THEN Torn ELSE Spoiled]
  ELSE Append(lines, line)

\* Mutant: a line that parses is accepted.
AcceptableUnchecked(line, log) ==
  /\ IsEntry(line)
  /\ line.content \notin LargeContents

\* import_jsonl accepts a line that parses, whose details are small enough
\* and that continues the log.
Acceptable(line, log) ==
  /\ IsEntry(line)
  /\ line.content \notin LargeContents
  /\ Follows(line, log)

\* The first n lines are accepted one after the other.
ImportsUpTo(lines, log, n) ==
  /\ \A i \in 1..n : IsEntry(lines[i])
  /\ \A i \in 1..n : Acceptable(lines[i], log \o SubSeq(lines, 1, i - 1))

\* import_jsonl of these lines into a new AuditLog returns True.
Importable(lines) == ImportsUpTo(lines, <<>>, Len(lines))

(***************************************************************************)
(* An export in progress: what is still to be written, and at which step   *)
(* the method is.                                                          *)
(***************************************************************************)
Idle == [step |-> "idle", mode |-> "none", todo |-> <<>>]

Pending == [step: {"idle", "lines", "tracker"},
            mode: {"none", "w", "a", "incremental"}, todo: Seq(AuditEntry)]

-----------------------------------------------------------------------------
Init ==
  /\ modes \in Deployments
  /\ entries = <<>>
  /\ dirty = FALSE
  /\ file = <<>>
  /\ tracker = 0
  /\ pending = Idle
  /\ crashes = 0
  /\ faulted = FALSE

Record(c) ==
  /\ pending = Idle
  /\ Len(entries) < MaxEntries
  /\ entries' = Append(entries, Sealed(c, entries))
  /\ dirty' = TRUE
  /\ UNCHANGED <<modes, file, tracker, pending, crashes, faulted>>

\* export_jsonl(path, "w"): opening the file truncates it.
ExportOverwrite ==
  /\ pending = Idle
  /\ "w" \in modes
  /\ file' = <<>>
  /\ pending' = [step |-> "lines", mode |-> "w", todo |-> entries]
  /\ UNCHANGED <<modes, entries, dirty, tracker, crashes, faulted>>

\* export_jsonl(path, "a"): only the last entry is written.
ExportAppend ==
  /\ pending = Idle
  /\ "a" \in modes
  /\ Len(file) < MaxLines
  /\ pending' = [step |-> "lines", mode |-> "a",
                 todo |-> IF entries = <<>> THEN <<>>
                          ELSE <<entries[Len(entries)]>>]
  /\ UNCHANGED <<modes, entries, dirty, file, tracker, crashes, faulted>>

\* Mutant: the comparison with the tracker is off by one.
NewEntriesInclusive(log, last) ==
  LET old == {i \in 1..Len(log) : log[i].sequence < last}
  IN SubSeq(log, Cardinality(old) + 1, Len(log))

\* The entries with a sequence number above last.  Sequence numbers never
\* decrease along the list, so these are its last ones.
NewEntries(log, last) ==
  LET old == {i \in 1..Len(log) : log[i].sequence <= last}
  IN SubSeq(log, Cardinality(old) + 1, Len(log))

\* export_incremental up to the opening of the file; with nothing new it
\* returns at once.
ExportIncremental ==
  /\ pending = Idle
  /\ "incremental" \in modes
  /\ NewEntries(entries, tracker) # <<>>
  /\ Len(file) + Len(NewEntries(entries, tracker)) <= MaxLines
  /\ pending' = [step |-> "lines", mode |-> "incremental",
                 todo |-> NewEntries(entries, tracker)]
  /\ UNCHANGED <<modes, entries, dirty, file, tracker, crashes, faulted>>

WriteLine ==
  /\ pending.step = "lines"
  /\ pending.todo # <<>>
  /\ file' = WithLine(file, Head(pending.todo))
  /\ pending' = [pending EXCEPT !.todo = Tail(@)]
  /\ UNCHANGED <<modes, entries, dirty, tracker, crashes, faulted>>

\* The end of export_jsonl.
ExportDone ==
  /\ pending.step = "lines"
  /\ pending.todo = <<>>
  /\ pending.mode \in {"w", "a"}
  /\ dirty' = FALSE
  /\ pending' = Idle
  /\ UNCHANGED <<modes, entries, file, tracker, crashes, faulted>>

\* Opening the tracker for writing empties it, and an empty tracker reads
\* as 0.
OpenTracker ==
  /\ pending.step = "lines"
  /\ pending.todo = <<>>
  /\ pending.mode = "incremental"
  /\ tracker' = 0
  /\ pending' = [pending EXCEPT !.step = "tracker"]
  /\ UNCHANGED <<modes, entries, dirty, file, crashes, faulted>>

\* The last step of export_incremental.
WriteTracker ==
  /\ pending.step = "tracker"
  /\ tracker' = entries[Len(entries)].sequence
  /\ pending' = Idle
  /\ UNCHANGED <<modes, entries, dirty, file, crashes, faulted>>

\* What an interruption may leave in the file: the line being written may
\* have been written in part.
Interrupted(lines) ==
  {lines} \cup
    (IF pending.step = "lines" /\ pending.todo # <<>>
     THEN {WithLine(lines, Torn)} ELSE {})

\* An exception while writing (a full disk): the process lives on.
ExportFails ==
  /\ pending # Idle
  /\ crashes < MaxCrashes
  /\ file' \in Interrupted(file)
  /\ pending' = Idle
  /\ crashes' = crashes + 1
  /\ UNCHANGED <<modes, entries, dirty, tracker, faulted>>

\* The process dies and a new one starts with an empty AuditLog.
Crash ==
  /\ crashes < MaxCrashes
  /\ file' \in Interrupted(file)
  /\ entries' = <<>>
  /\ dirty' = FALSE
  /\ pending' = Idle
  /\ crashes' = crashes + 1
  /\ faulted' = FALSE
  /\ UNCHANGED <<modes, tracker>>

(***************************************************************************)
(* import_jsonl.  Lines are accepted until one is refused; the method then *)
(* returns False and keeps what it has appended.  After the last line the  *)
(* whole chain is verified, and the log is emptied if that fails.          *)
(***************************************************************************)

\* Mutant: a refused import empties the log.
ImportRefusedClears(n) ==
  /\ pending = Idle
  /\ n < Len(file)
  /\ Len(entries) + n <= MaxEntries
  /\ ImportsUpTo(file, entries, n)
  /\ ~Acceptable(file[n + 1], entries \o SubSeq(file, 1, n))
  /\ entries' = <<>>
  /\ UNCHANGED <<modes, dirty, file, tracker, pending, crashes, faulted>>

\* The first n lines are accepted and the next one is not.
ImportRefused(n) ==
  /\ pending = Idle
  /\ n < Len(file)
  /\ Len(entries) + n <= MaxEntries
  /\ ImportsUpTo(file, entries, n)
  /\ ~Acceptable(file[n + 1], entries \o SubSeq(file, 1, n))
  /\ entries' = entries \o SubSeq(file, 1, n)
  /\ UNCHANGED <<modes, dirty, file, tracker, pending, crashes, faulted>>

\* Every line is accepted.
ImportComplete ==
  /\ pending = Idle
  /\ Len(entries) + Len(file) <= MaxEntries
  /\ ImportsUpTo(file, entries, Len(file))
  /\ IF VerifyChain(entries \o file)
     THEN entries' = entries \o file /\ UNCHANGED faulted
     ELSE entries' = <<>> /\ faulted' = FALSE
  /\ UNCHANGED <<modes, dirty, file, tracker, pending, crashes>>

Import == ImportComplete \/ \E n \in 0..MaxLines : ImportRefused(n)

(***************************************************************************)
(* Faults: AuditEntry objects are mutable and the list is an ordinary      *)
(* attribute, so other code of the process can damage the log.             *)
(***************************************************************************)
Modify(i, c) ==
  /\ pending = Idle /\ ~faulted
  /\ "modify" \in Faults
  /\ entries[i].content # c
  /\ entries' = [entries EXCEPT ![i].content = c]
  /\ faulted' = TRUE
  /\ UNCHANGED <<modes, dirty, file, tracker, pending, crashes>>

Without(log, i) == SubSeq(log, 1, i - 1) \o SubSeq(log, i + 1, Len(log))

Remove(i) ==
  /\ pending = Idle /\ ~faulted
  /\ IF i < Len(entries) THEN "remove" \in Faults ELSE "truncate" \in Faults
  /\ entries' = Without(entries, i)
  /\ faulted' = TRUE
  /\ UNCHANGED <<modes, dirty, file, tracker, pending, crashes>>

Fault == \E i \in 1..Len(entries) : Remove(i) \/ \E c \in Contents : Modify(i, c)

Next ==
  \/ \E c \in Contents : Record(c)
  \/ ExportOverwrite \/ ExportAppend \/ ExportIncremental
  \/ WriteLine \/ ExportDone \/ OpenTracker \/ WriteTracker
  \/ ExportFails \/ Crash
  \/ Import
  \/ Fault

Spec == Init /\ [][Next]_vars
-----------------------------------------------------------------------------
(***************************************************************************)
(* Properties.                                                             *)
(***************************************************************************)

\* The log, the file and an export in progress hold entries of the declared
\* type.
TypeOK ==
  /\ modes \in Deployments
  /\ entries \in Seq(AuditEntry)
  /\ dirty \in BOOLEAN
  /\ file \in Seq(Line)
  /\ tracker \in Nat
  /\ pending \in Pending
  /\ crashes \in Nat
  /\ faulted \in BOOLEAN

\* verify_chain() holds of every log built through record and import_jsonl
\* alone, also after imports that were refused half way and from files that
\* crashed exports left behind.
ChainIntact == ~faulted => VerifyChain(entries)

\* "If any entry is modified, added, or removed, the chain breaks": once an
\* entry was changed behind the API verify_chain() reports it, however many
\* entries are recorded or imported after it.
FaultsAreDetected == faulted => ~VerifyChain(entries)

\* Exports are only incremental and none was cut short.
Incremental == modes = {"incremental"} /\ crashes = 0 /\ ~faulted

\* Where all exports overwrite, one that runs to its end leaves a file that a
\* new log can import, whatever exports that were cut short had left in it.
\* Where all are incremental and none has been cut short, so does each of
\* them.  In both cases the log itself must hold no entry too large to import,
\* and that is the only exception.  Nothing is said of appending, of modes
\* that are mixed, or of incremental exports after one that was cut short.
ExportsAreImportable ==
  [][ ( /\ pending # Idle /\ pending' = Idle /\ crashes' = crashes
        /\ Incremental \/ (modes = {"w"} /\ ~faulted) )
        => (Importable(file') <=> ~\E i \in 1..Len(entries) :
                                     entries[i].content \in LargeContents) ]_vars

\* "import_jsonl": any finished export leaves a file a new log can import.
EveryExportIsImportable ==
  [][ (pending # Idle /\ pending' = Idle /\ crashes' = crashes /\ ~faulted)
        => Importable(file') ]_vars

InFile(entry) == \E j \in 1..Len(file) : file[j] = entry

\* "_dirty tracks if export is needed": a log that is not dirty has all its
\* entries in the file.
CleanMeansExported ==
  (pending = Idle /\ ~dirty) => \A i \in 1..Len(entries) : InFile(entries[i])

\* The incremental export neither skips nor repeats an entry: after each one
\* the file holds the log up to the number in the tracker.
IncrementalIsExact ==
  (Incremental /\ pending = Idle) =>
    /\ tracker = Len(file)
    /\ tracker <= Len(entries)
    /\ file = SubSeq(entries, 1, tracker)

\* "only appends new entries since last export": when the incremental export
\* finds nothing left to append, every entry of the log is in the file.
CaughtUpMeansExported ==
  (pending = Idle /\ NewEntries(entries, tracker) = <<>>)
    => \A i \in 1..Len(entries) : InFile(entries[i])

\* The code never shortens a log that verifies: records are only appended,
\* until the process ends.
LogIsAppendOnly ==
  [][ (crashes' = crashes /\ ~faulted /\ ~faulted') =>
        /\ Len(entries') >= Len(entries)
        /\ SubSeq(entries', 1, Len(entries)) = entries ]_vars
=============================================================================
