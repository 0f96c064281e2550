----------------------------- MODULE SeccompFile -----------------------------
(***************************************************************************)
(* The seccomp file that all sandboxes of a user share,                    *)
(* VibeShieldSandbox._ensure_seccomp_profile and SeccompProfile.save:      *)
(* every process writes the file once, in place, and then remembers its    *)
(* path; podman reads it at each deployment.  A document is written piece  *)
(* by piece, each writer at its own offset.  A write that fails raises and *)
(* leaves what it has written, as the end of its process does.             *)
(***************************************************************************)
EXTENDS Integers, Sequences

CONSTANTS Processes,
          Versions,    \* the versions of Podman's own profile, 1..n
          Pieces,      \* how many pieces a document is written in
          Hole,        \* a piece that was skipped
          NoOne        \* no process

VARIABLES exists,   \* os.path.exists(path)
          pieces,   \* the content of the file
          base,     \* the version of the installed profile
          cached,   \* cls._seccomp_path of each process
          writer,   \* what each process is writing
          opener    \* history: who truncated the file last, NoOne once its
                    \* write has come to its end

file == <<exists, pieces, base, cached, writer, opener>>

NotWriting == [version |-> 0, offset |-> 0]

FileInit ==
  /\ exists = FALSE
  /\ pieces = <<>>
  /\ base = 1
  /\ cached = [p \in Processes |-> FALSE]
  /\ writer = [p \in Processes |-> NotWriting]
  /\ opener = NoOne

Writing(p) == writer[p] # NotWriting

\* from_podman_default and to_json: the document is made in memory.
Generate(p) ==
  /\ ~Writing(p)
  /\ ~(cached[p] /\ exists)
  /\ writer' = [writer EXCEPT ![p] = [version |-> base, offset |-> -1]]
  /\ UNCHANGED <<exists, pieces, base, cached, opener>>

\* open(path, "w") truncates the file.
Open(p) ==
  /\ Writing(p)
  /\ writer[p].offset = -1
  /\ exists' = TRUE
  /\ pieces' = <<>>
  /\ writer' = [writer EXCEPT ![p].offset = 0]
  /\ opener' = p
  /\ UNCHANGED <<base, cached>>

\* The file with a piece at an offset; what lies before it and was never
\* written, or was truncated since, is a hole.
WithPiece(content, offset, piece) ==
  [i \in 1..(IF Len(content) > offset THEN Len(content) ELSE offset + 1) |->
     IF i = offset + 1 THEN piece
     ELSE IF i <= Len(content) THEN content[i] ELSE Hole]

Write(p) ==
  /\ Writing(p)
  /\ writer[p].offset \in 0..(Pieces - 1)
  /\ pieces' = WithPiece(pieces, writer[p].offset, writer[p].version)
  /\ writer' = [writer EXCEPT ![p].offset = @ + 1]
  /\ UNCHANGED <<exists, base, cached, opener>>

\* Mutant: the file is closed before its last piece is written.
CloseEarly(p) ==
  /\ Writing(p)
  /\ writer[p].offset >= Pieces - 1
  /\ writer' = [writer EXCEPT ![p] = NotWriting]
  /\ cached' = [cached EXCEPT ![p] = TRUE]
  /\ opener' = IF opener = p THEN NoOne ELSE opener
  /\ UNCHANGED <<exists, pieces, base>>

\* The path is remembered after the file was closed.
Close(p) ==
  /\ Writing(p)
  /\ writer[p].offset = Pieces
  /\ writer' = [writer EXCEPT ![p] = NotWriting]
  /\ cached' = [cached EXCEPT ![p] = TRUE]
  /\ opener' = IF opener = p THEN NoOne ELSE opener
  /\ UNCHANGED <<exists, pieces, base>>

\* save raises, for a directory that cannot be made, a file that cannot be
\* opened or a disk that is full: the process lives and remembers no path.
SaveFails(p) ==
  /\ Writing(p)
  /\ writer' = [writer EXCEPT ![p] = NotWriting]
  /\ UNCHANGED <<exists, pieces, base, cached, opener>>

\* The process dies; the next one has nothing cached.
Crash(p) ==
  /\ cached' = [cached EXCEPT ![p] = FALSE]
  /\ writer' = [writer EXCEPT ![p] = NotWriting]
  /\ UNCHANGED <<exists, pieces, base, opener>>

\* The temporary directory is cleaned while no process is writing.
Clean ==
  /\ exists
  /\ \A p \in Processes : ~Writing(p)
  /\ exists' = FALSE
  /\ pieces' = <<>>
  /\ UNCHANGED <<base, cached, writer, opener>>

\* Another version of Podman is installed.
Upgrade ==
  /\ base + 1 \in Versions
  /\ base' = base + 1
  /\ UNCHANGED <<exists, pieces, cached, writer, opener>>

FileNext ==
  \/ \E p \in Processes :
       \/ Generate(p) \/ Open(p) \/ Write(p) \/ Close(p)
       \/ SaveFails(p) \/ Crash(p)
  \/ Clean
  \/ Upgrade

FileSpec == FileInit /\ [][FileNext]_file
-----------------------------------------------------------------------------
Whole(version) == pieces = [i \in 1..Pieces |-> version]

FileTypeOK ==
  /\ exists \in BOOLEAN
  /\ pieces \in Seq(Versions \cup {Hole}) /\ Len(pieces) <= Pieces
  /\ base \in Versions
  /\ cached \in [Processes -> BOOLEAN]
  /\ writer \in [Processes -> [version: {0} \cup Versions, offset: -1..Pieces]]
  /\ opener \in Processes \cup {NoOne}

\* Once the write that truncated the file last has come to its end, the file is
\* one whole document for podman to read, whoever died, failed or is still
\* writing, and in whatever order they truncate and write, as long as all were
\* given the same document.  (After a write that failed or whose process died,
\* the file may be torn, and stays so until another process writes it.)
ClosedFileIsWhole ==
  (exists /\ opener = NoOne /\ base = 1) => Whole(1)

\* A process that remembers the path can use what is there.
CachedFileIsWhole ==
  \A p \in Processes : (cached[p] /\ exists) => \E v \in Versions : Whole(v)
=============================================================================
