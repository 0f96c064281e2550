--------------------------- MODULE SeccompProfile ---------------------------
(***************************************************************************)
(* SeccompProfile of core/security/seccomp.py: the object, the calls that  *)
(* change it, and the document to_dict makes of it.  A document is a       *)
(* default action and a list of rules; rules about different system calls  *)
(* that the code adds in a loop are one rule here for each action.         *)
(***************************************************************************)
EXTENDS Integers, Sequences, FiniteSets

CONSTANTS Syscalls,
          Blocklist,    \* BLOCKLIST_SYSCALLS
          HardenKill,   \* HARDEN_KILL_SYSCALLS
          Network,      \* what allow_network adds
          Actions,      \* the actions block_syscall is called with
          Base,         \* the document Podman ships
          MaxCalls      \* bound: calls on the object

VARIABLES mode,     \* "deny" (from scratch) or "harden" (from_podman_default)
          default,  \* SeccompProfile.default_action
          audit,    \* SeccompProfile.audit_mode
          allowed,  \* SeccompProfile._allowed_syscalls
          blocked,  \* SeccompProfile._blocked_specific: syscall -> action
          calls     \* history: calls made

profile == <<mode, default, audit, allowed, blocked, calls>>

SeccompAction == {"KILL", "ERRNO", "TRACE", "ALLOW", "LOG"}
Rule == [names: SUBSET Syscalls, action: SeccompAction]

(***************************************************************************)
(* What a container may call under a document.  libseccomp is external:    *)
(* the first rule that names a call decides, as _to_dict_harden relies on. *)
(***************************************************************************)
Naming(document, s) ==
  {i \in 1..Len(document.rules) : s \in document.rules[i].names}

Effective(document, s) ==
  IF Naming(document, s) = {} THEN document.default
  ELSE document.rules[CHOOSE i \in Naming(document, s) :
                        \A j \in Naming(document, s) : i <= j].action

\* A call that is traced fails, as no tracer is attached to a container.
Permitted(document) ==
  {s \in Syscalls : Effective(document, s) \in {"ALLOW", "LOG"}}

(***************************************************************************)
(* to_dict.                                                                *)
(***************************************************************************)
WithAction(a) == {s \in DOMAIN blocked : blocked[s] = a}

BlockedRule(a) == [names |-> WithAction(a), action |-> a]

BlockedRules == << BlockedRule("KILL"), BlockedRule("ERRNO"),
                   BlockedRule("TRACE"), BlockedRule("LOG"), BlockedRule("ALLOW") >>

\* Mutant: the allowlist comes before the explicit blocks.
DenyDocumentAllowsFirst ==
  [default |-> IF audit THEN "LOG" ELSE default,
   rules |-> << [names |-> Blocklist, action |-> "KILL"],
                [names |-> allowed \ Blocklist,
                 action |-> IF audit THEN "LOG" ELSE "ALLOW"] >> \o BlockedRules]

\* The blocklist, then the explicit blocks, then the allowlist.
DenyDocument ==
  [default |-> IF audit THEN "LOG" ELSE default,
   rules |-> << [names |-> Blocklist, action |-> "KILL"] >> \o BlockedRules \o
             << [names |-> allowed \ (Blocklist \cup DOMAIN blocked),
                 action |-> IF audit THEN "LOG" ELSE "ALLOW"] >>]

\* Mutant: every block is put before the rules of the base.
HardenedDocumentTakesAll ==
  [default |-> Base.default,
   rules |-> << [names |-> HardenKill \cup WithAction("KILL"), action |-> "KILL"] >>
             \o BlockedRules \o Base.rules]

\* The rules of the base after one that kills and those that fail.  The
\* allowlist and blocks with another action have no effect in this mode.
HardenedDocument ==
  [default |-> Base.default,
   rules |-> << [names |-> HardenKill \cup WithAction("KILL"), action |-> "KILL"],
                BlockedRule("ERRNO") >> \o Base.rules]

Document == IF mode = "harden" THEN HardenedDocument ELSE DenyDocument
-----------------------------------------------------------------------------
\* SeccompProfile(...) or SeccompProfile.from_podman_default().
ProfileInit ==
  /\ \/ mode = "deny" /\ default \in SeccompAction /\ audit \in BOOLEAN
     \/ mode = "harden" /\ default = Base.default /\ audit = FALSE
  /\ allowed = {}
  /\ blocked = <<>>
  /\ calls = 0

Call == calls < MaxCalls /\ calls' = calls + 1

AddSyscalls(names) ==
  /\ Call
  /\ allowed' = allowed \cup (names \ Blocklist)
  /\ UNCHANGED <<mode, default, audit, blocked>>

AllowNetwork == AddSyscalls(Network)

\* The last call about a system call replaces the earlier ones.
BlockSyscall(s, action) ==
  /\ Call
  /\ blocked' = [t \in DOMAIN blocked \cup {s} |->
                   IF t = s THEN action ELSE blocked[t]]
  /\ UNCHANGED <<mode, default, audit, allowed>>

ProfileNext ==
  \/ \E s \in Syscalls : AddSyscalls({s})
  \/ AllowNetwork
  \/ \E s \in Syscalls, a \in Actions : BlockSyscall(s, a)

ProfileSpec == ProfileInit /\ [][ProfileNext]_profile
-----------------------------------------------------------------------------
(***************************************************************************)
(* Properties.                                                             *)
(***************************************************************************)

ProfileTypeOK ==
  /\ mode \in {"deny", "harden"} /\ default \in SeccompAction
  /\ audit \in BOOLEAN
  /\ allowed \subseteq Syscalls
  /\ DOMAIN blocked \subseteq Syscalls
  /\ \A s \in DOMAIN blocked : blocked[s] \in SeccompAction
  /\ calls \in 0..MaxCalls

\* The calls a document must refuse: the dangerous ones of its mode, and all
\* that block_syscall was last told to kill or to fail.
MustRefuse ==
  (IF mode = "harden" THEN HardenKill ELSE Blocklist)
    \cup WithAction("KILL") \cup WithAction("ERRNO")

\* Whatever was added to the allowlist or blocked, in whatever order, before or
\* after, in audit mode too: the document refuses what it must refuse.
BlockedIsRefused == Permitted(Document) \cap MustRefuse = {}

\* A profile from scratch permits what was allowed and nothing else, unless it
\* is in audit mode, its default permits the rest (ALLOW or LOG) or a block is
\* one in name only (LOG or ALLOW); a hardened one permits nothing that Podman's
\* own does not.
NothingElsePermitted ==
  /\ (mode = "deny" /\ ~audit /\ default \notin {"ALLOW", "LOG"}) =>
       Permitted(Document) \subseteq
         allowed \cup WithAction("LOG") \cup WithAction("ALLOW")
  /\ mode = "harden" => Permitted(Document) \subseteq Permitted(Base)

\* "ALWAYS blocked - never whitelist these regardless of profile"
AlwaysBlocked == Permitted(Document) \cap Blocklist = {}
=============================================================================
