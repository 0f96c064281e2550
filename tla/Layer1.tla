------------------------------- MODULE Layer1 -------------------------------
(***************************************************************************)
(* Layer 1 as its callers see it: core/layer1_factory.py chooses a backend *)
(* for each sandbox object, the object is a Podman or an OpenShell sandbox *)
(* from then on, and scripts/sandbox_task.py turns what the call returned  *)
(* or raised into an exit code.                                            *)
(*                                                                         *)
(* The two modules of the backends share the variables of a call; what     *)
(* only one of them has stays as it is for the sandboxes of the other.     *)
(***************************************************************************)
EXTENDS Tasks

CONSTANTS Unset,    \* no backend argument, or no variable in the environment
          Unknown   \* a name of no backend

VARIABLES backend,   \* the class of each sandbox object, None before create_sandbox
          pc, request, state, trail, run, outcome, released, container,
          failures, profile, cached, policies, deploys

podmanOnly == <<state, container, failures, profile, cached>>
callVars == <<pc, request, trail, run, outcome, released, deploys>>
vars == <<backend, podmanOnly, callVars, policies>>

P == INSTANCE Sandbox
O == INSTANCE OpenShell WITH calls <- deploys

Backends == {"podman", "openshell"}

ASSUME Layer1Assumption ==
  {None, Unset, Unknown} \cap Backends = {} /\ Unset # Unknown

Init ==
  /\ backend = [s \in Sandboxes |-> None]
  /\ P!Init
  /\ policies = [s \in Sandboxes |-> O!NoFile]

(***************************************************************************)
(* get_backend and create_sandbox.                                         *)
(***************************************************************************)
GetBackend(env) == IF env = Unset THEN "podman" ELSE env

\* The backend argument > VIBESHIELD_SANDBOX_BACKEND env > podman.  An argument
\* that names no backend is podman; only the environment is checked.
Chosen(flag, env) ==
  LET name == IF flag # Unset THEN flag ELSE GetBackend(env)
  IN IF name = "openshell" THEN "openshell" ELSE "podman"

Create(s, flag, env) ==
  /\ backend[s] = None
  /\ flag # Unset \/ GetBackend(env) \in Backends
  /\ backend' = [backend EXCEPT ![s] = Chosen(flag, env)]
  /\ outcome' = [outcome EXCEPT ![s] = "none"]
  /\ UNCHANGED <<pc, request, trail, run, released, deploys, podmanOnly, policies>>

\* get_backend raises ValueError, and there is no sandbox.
CreateRefused(s, flag, env) ==
  /\ backend[s] = None
  /\ flag = Unset /\ GetBackend(env) \notin Backends
  /\ outcome' = [outcome EXCEPT ![s] = "ValueError"]
  /\ UNCHANGED <<backend, pc, request, trail, run, released, deploys,
                 podmanOnly, policies>>

CreateSandbox(s) ==
  \E flag \in Backends \cup {Unset, Unknown}, env \in Backends \cup {Unset, Unknown} :
    Create(s, flag, env) \/ CreateRefused(s, flag, env)

(***************************************************************************)
(* A step of a sandbox is one of the module of its backend.                *)
(***************************************************************************)
WithPodman(s) ==
  /\ backend[s] = "podman"
  /\ P!Submit(s) \/ P!Shred(s) \/ P!Advance(s) \/ P!Podman(s)
  /\ UNCHANGED <<backend, policies>>

WithOpenShell(s) ==
  /\ backend[s] = "openshell"
  /\ O!Submit(s) \/ O!Advance(s) \/ O!Gateway(s)
  /\ UNCHANGED <<backend, podmanOnly>>

Next == \E s \in Sandboxes : CreateSandbox(s) \/ WithPodman(s) \/ WithOpenShell(s)

AdvancePodman(s) ==
  /\ backend[s] = "podman"
  /\ P!Advance(s)
  /\ UNCHANGED <<backend, policies>>

AdvanceOpenShell(s) ==
  /\ backend[s] = "openshell"
  /\ O!Advance(s)
  /\ UNCHANGED <<backend, podmanOnly>>

\* A call keeps running, as in the two modules.
Fairness ==
  \A s \in Sandboxes : WF_vars(AdvancePodman(s)) /\ WF_vars(AdvanceOpenShell(s))

Spec == Init /\ [][Next]_vars /\ Fairness

-----------------------------------------------------------------------------
(***************************************************************************)
(* main() of scripts/sandbox_task.py.  Its own call of get_backend is not  *)
(* in the try statement, so the interpreter ends with 1.                   *)
(***************************************************************************)

\* Mutant: an answer that is not an exception is a success.
ExitCodeOfAnswer(s) ==
  CASE backend[s] = None -> 1
    [] backend[s] = "podman" -> P!RunnerExit(outcome[s])
    [] backend[s] = "openshell" ->
         IF outcome[s] \in {"ValueError", "PermissionError"} THEN 2 ELSE 0

ExitCode(s) ==
  CASE backend[s] = None -> 1
    [] backend[s] = "podman" -> P!RunnerExit(outcome[s])
    [] backend[s] = "openshell" -> O!RunnerExit(outcome[s])

-----------------------------------------------------------------------------
(***************************************************************************)
(* Properties.                                                             *)
(***************************************************************************)

\* Every variable has its type, and a sandbox object only ever is where the
\* code of its own class can be.
TypeOK ==
  /\ backend \in [Sandboxes -> Backends \cup {None}]
  /\ pc \in [Sandboxes -> P!Steps \cup O!Steps]
  /\ request \in [Sandboxes -> Requests]
  /\ state \in [Sandboxes -> P!SandboxState]
  /\ trail \in [Sandboxes -> Seq(P!Events \cup O!Events)]
  /\ run \in [Sandboxes -> [code: Nat, output: Output]]
  /\ outcome \in [Sandboxes -> {"none", "shred", "shred raised"} \cup P!Results \cup P!Exceptions
                                 \cup O!Results \cup O!Exceptions]
  /\ released \in [Sandboxes -> Output]
  /\ container \in [Sandboxes -> Requests \cup {None}]
  /\ failures \in [Sandboxes -> Nat]
  /\ profile \in {"absent", "partial", "whole"}
  /\ cached \in [Processes -> BOOLEAN]
  /\ policies \in [Sandboxes -> (SUBSET Hosts) \cup {O!NoFile, O!TornFile}]
  /\ deploys \in [Sandboxes -> Nat]
  /\ \A s \in Sandboxes :
       CASE backend[s] = None -> pc[s] = "idle" /\ deploys[s] = 0
         [] backend[s] = "podman" -> pc[s] \in P!Steps /\ policies[s] = O!NoFile
         [] backend[s] = "openshell" -> pc[s] \in O!Steps /\ container[s] = None

Answered(s) == pc[s] = "idle" /\ outcome[s] # "none"

\* Whatever the backend, Layer 1 keeps one promise: only what passes the
\* gates runs, each call is answered once, and a risky stdout leaves only
\* unscanned.  It is no promise about stderr: see OutputsAreScanned.
Gate ==
  INSTANCE GatedTask WITH
    phase <- [s \in Sandboxes |->
                IF pc[s] # "idle" /\ outcome[s] = "none" THEN "busy" ELSE "free"]

ImplementsGatedTask == Gate!Spec

\* A result of the Podman backend means that no container is left, unless
\* both ways to end it failed: see Sandbox.
ResultMeansGone == P!ResultMeansGone

\* A container runs only for a request that passed every gate: see Sandbox.
OnlyCheckedRequestsRun == P!OnlyCheckedRequestsRun

\* What the audit log tells of the end of the last call, which Podman keeps
\* per object and OpenShell per call.  The endings that leave no trace of
\* their own are named at TrailTells of the two modules: a timeout with
\* Podman, and with both the exceptions after the gates.
TrailTellsOutcome ==
  \A s \in Sandboxes :
    /\ backend[s] = "podman" => P!TrailTells(s)
    /\ backend[s] = "openshell" => O!TrailTells(s)

Refused(r) == ~r.valid \/ ~r.authorized \/ Blocked(r)

\* Exit code 0 of the runner is only for a task that ended with 0 and had no
\* stdout withheld.  What the arguments, the token or the payload got refused
\* always ends in 2, and 2 never comes with output of a task or next to an
\* event that closes a call.  It is not only for refusals: other ValueErrors
\* and PermissionErrors end in 2 as well (RanIsNoUsageError).
RunnerExitFaithful ==
  \A s \in Sandboxes : Answered(s) /\ backend[s] # None =>
    /\ ExitCode(s) = 0 =>
         run[s].code = 0 /\ O!Logged(s, "finish") /\ ~O!Logged(s, "exfil_blocked")
    /\ Refused(request[s]) /\ outcome[s] \notin {"shred", "shred raised"}
         => ExitCode(s) = 2
    /\ ExitCode(s) = 2 =>
         /\ released[s] = NoOutput
         /\ request[s].valid => O!Last(trail[s]) \notin
              {"complete", "exfil_blocked", "finish", "timeout"}

\* A call returns or raises with either backend, whatever podman, the
\* container and the gateway do.
DeployReturns ==
  \A s \in Sandboxes : pc[s] # "idle" ~> pc[s] = "idle"

\* "2  runner/usage error (bad task-id, unknown backend, blocked payload)":
\* the exit code for a name of a backend that does not exist.
UnknownBackendIsUsageError ==
  \A s \in Sandboxes :
    backend[s] = None /\ outcome[s] = "ValueError" => ExitCode(s) = 2
=============================================================================
