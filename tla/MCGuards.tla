------------------------------ MODULE MCGuards ------------------------------
(***************************************************************************)
(* Instances of what guards a task for TLC: the scan of its payload and    *)
(* that of its output, the seccomp document, the file it is saved in and   *)
(* the image.  They share nothing: a behaviour is one of one of the five,  *)
(* and the others stay as they are in one of their initial states.         *)
(***************************************************************************)
EXTENDS Injection, Exfiltration, SeccompProfile, SeccompFile, ImageVerify

VARIABLE guard  \* which of the five

SyscallNames == {"read", "socket", "ptrace", "open_tree", "io_uring_setup", "clone3"}
DangerousNames == {"ptrace", "io_uring_setup"}
HardenedNames == {"ptrace", "open_tree"}
NetworkNames == {"socket"}

\* Podman's profile allows what it lists and fails the rest.
PodmanDefault ==
  [default |-> "ERRNO",
   rules |-> << [names |-> {"clone3"}, action |-> "ERRNO"],
                [names |-> SyscallNames \ {"socket"}, action |-> "ALLOW"] >>]

\* The second name is that of an image in the registry the first one names,
\* with a port.
StripPort ==
  LET first == CHOOSE n \in Names : TRUE IN [n \in Names |-> first]

\* Every key has signed the first digest only.
FirstSigned == Keys \X {CHOOSE d \in Digests : TRUE}

MCInit ==
  /\ guard \in {"payload", "output", "profile", "file", "image"}
  /\ Init /\ OutputInit /\ ProfileInit /\ FileInit /\ ImageInit
  /\ guard # "output" => shingles = 0
  /\ guard # "profile" => mode = "harden"
  /\ guard # "image" => store = [n \in Names |-> None] /\ registry = store

MCNext ==
  \/ guard = "payload" /\ Next /\ UNCHANGED <<guard, output, profile, file, image>>
  \/ guard = "output" /\ OutputNext /\ UNCHANGED <<guard, vars, profile, file, image>>
  \/ guard = "profile" /\ ProfileNext /\ UNCHANGED <<guard, vars, output, file, image>>
  \/ guard = "file" /\ FileNext /\ UNCHANGED <<guard, vars, output, profile, image>>
  \/ guard = "image" /\ ImageNext /\ UNCHANGED <<guard, vars, output, profile, file>>

MCSpec == MCInit /\ [][MCNext]_<<guard, vars, output, profile, file, image>>
=============================================================================
