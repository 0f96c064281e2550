------------------------------ MODULE Sandbox ------------------------------
(***************************************************************************)
(* Layer 1 with the Podman backend, core/layer1_sandbox.py: deploy_agent   *)
(* with its gates, the seccomp profile shared through one file, the        *)
(* container on the host, the timeout and cryptographic_shred.             *)
(*                                                                         *)
(* Each sandbox object is used by one thread.  The subprocess calls are    *)
(* steps of their own, between which the container and the other           *)
(* sandboxes move.                                                         *)
(***************************************************************************)
EXTENDS Tasks

VARIABLES pc,         \* where each deploy_agent is
          request,    \* its arguments
          state,      \* VibeShieldSandbox.state
          trail,      \* the events in its audit log
          run,        \* what podman run returned
          outcome,    \* what the last deploy_agent returned or raised
          released,   \* the output of the task that it returned
          container,  \* on the host: the request the container runs, or None
          failures,   \* on the host: how often podman stop and rm failed
          profile,    \* on the host: the seccomp profile file
          cached,     \* VibeShieldSandbox._seccomp_path of each process is set
          deploys     \* calls of deploy_agent so far

call == <<request, deploys>>
host == <<container, failures, profile, cached>>
vars == <<pc, request, state, trail, run, outcome, released, container,
          failures, profile, cached, deploys>>

SandboxState ==
  {"PENDING", "RUNNING", "COMPLETED", "FAILED", "SHREDDED", "TIMEOUT"}

Results == {"COMPLETED", "FAILED", "TIMEOUT"}

\* ValueError stands for its subclasses too (UnicodeDecodeError,
\* JSONDecodeError), OSError for all but PermissionError, and Exception for
\* every other class (KeyError, ...).
Exceptions == {"ValueError", "PermissionError", "NameError", "AttributeError",
               "OSError", "TimeoutExpired", "Exception"}

Steps == {"idle", "profile", "saving", "options", "podman", "attached",
          "finish", "stop", "rm", "volume"}

Events == {"auth_failure", "start", "injection_blocked", "exfil_blocked",
           "complete"}

Init ==
  /\ pc = [s \in Sandboxes |-> "idle"]
  /\ request \in [Sandboxes -> Requests]
  /\ state = [s \in Sandboxes |-> "PENDING"]
  /\ trail = [s \in Sandboxes |-> <<>>]
  /\ run = [s \in Sandboxes |-> [code |-> 0, output |-> NoOutput]]
  /\ outcome = [s \in Sandboxes |-> "none"]
  /\ released = [s \in Sandboxes |-> NoOutput]
  /\ container = [s \in Sandboxes |-> None]
  /\ failures = [s \in Sandboxes |-> 0]
  /\ profile = "absent"
  /\ cached = [p \in Processes |-> FALSE]
  /\ deploys = [s \in Sandboxes |-> 0]

(***************************************************************************)
(* The helpers: deploy_agent logs, goes on, returns or raises.             *)
(***************************************************************************)
Log(s, events) == trail' = [trail EXCEPT ![s] = @ \o events]

Goto(s, step) ==
  /\ pc' = [pc EXCEPT ![s] = step]
  /\ UNCHANGED <<outcome, released>>

Return(s, result, output) ==
  /\ pc' = [pc EXCEPT ![s] = "idle"]
  /\ outcome' = [outcome EXCEPT ![s] = result]
  /\ released' = [released EXCEPT ![s] = output]

Raise(s, exception) == Return(s, exception, NoOutput)

Call(s, r) ==
  /\ pc[s] = "idle"
  /\ deploys[s] < MaxDeploys
  /\ request' = [request EXCEPT ![s] = r]
  /\ deploys' = [deploys EXCEPT ![s] = @ + 1]

(***************************************************************************)
(* The gates before the container, in the order of the code.               *)
(***************************************************************************)
\* A bad task_id or entrypoint is refused before anything is logged.
RefuseArguments(s, r) ==
  /\ ~r.valid
  /\ Call(s, r)
  /\ Raise(s, "ValueError")
  /\ UNCHANGED <<state, trail, run, host>>

RefuseToken(s, r) ==
  /\ r.valid /\ ~r.authorized
  /\ Call(s, r)
  /\ Log(s, <<"auth_failure">>)
  /\ Raise(s, "PermissionError")
  /\ UNCHANGED <<state, run, host>>

BlockPayload(s, r) ==
  /\ r.valid /\ r.authorized /\ Blocked(r)
  /\ Call(s, r)
  /\ Log(s, <<"start", "injection_blocked">>)
  /\ Raise(s, "ValueError")
  /\ UNCHANGED <<state, run, host>>

\* Mutant: the verdict of the injection scan is logged but not obeyed.
AdmitAll(s, r) ==
  /\ r.valid /\ r.authorized
  /\ Call(s, r)
  /\ Log(s, <<"start">>)
  /\ pc' = [pc EXCEPT ![s] = "profile"]
  /\ outcome' = [outcome EXCEPT ![s] = "none"]
  /\ released' = [released EXCEPT ![s] = NoOutput]
  /\ UNCHANGED <<state, run, host>>

Admit(s, r) ==
  /\ r.valid /\ r.authorized /\ ~Blocked(r)
  /\ Call(s, r)
  /\ Log(s, <<"start">>)
  /\ pc' = [pc EXCEPT ![s] = "profile"]
  /\ outcome' = [outcome EXCEPT ![s] = "none"]
  /\ released' = [released EXCEPT ![s] = NoOutput]
  /\ UNCHANGED <<state, run, host>>

(***************************************************************************)
(* _ensure_seccomp_profile: one file for all processes of a user, written  *)
(* in place.                                                               *)
(***************************************************************************)
ReuseProfile(s) ==
  /\ pc[s] = "profile"
  /\ cached[ProcessOf[s]] /\ profile # "absent"
  /\ Goto(s, "options")
  /\ UNCHANGED <<call, state, trail, run, host>>

\* podman's own profile is missing, unreadable, not JSON or without its
\* fields; or the path of ours is refused or cannot be opened.
ProfileFails(s) ==
  /\ pc[s] = "profile"
  /\ ~(cached[ProcessOf[s]] /\ profile # "absent")
  /\ \E exception \in {"OSError", "PermissionError", "ValueError", "Exception"} :
       Raise(s, exception)
  /\ UNCHANGED <<call, state, trail, run, host>>

\* save opens the file for writing, which empties it.
OpenProfile(s) ==
  /\ pc[s] = "profile"
  /\ ~(cached[ProcessOf[s]] /\ profile # "absent")
  /\ profile' = "partial"
  /\ Goto(s, "saving")
  /\ UNCHANGED <<call, state, trail, run, container, failures, cached>>

SaveProfile(s) ==
  /\ pc[s] = "saving"
  /\ profile' = "whole"
  /\ cached' = [cached EXCEPT ![ProcessOf[s]] = TRUE]
  /\ Goto(s, "options")
  /\ UNCHANGED <<call, state, trail, run, container, failures>>

\* The disk is full: what was written of the file stays.
SaveFails(s) ==
  /\ pc[s] = "saving"
  /\ Raise(s, "OSError")
  /\ UNCHANGED <<call, state, trail, run, host>>

(***************************************************************************)
(* The options of podman run.                                              *)
(***************************************************************************)
\* _apply_egress_rules looks for the restricted network, and creates it if
\* need be; it takes the attributes of rules, which are dicts if the runner
\* made them; and where it is to log the rules it refers to AuditCategory,
\* which is local to deploy_agent.
ApplyEgressRules(s) ==
  /\ pc[s] = "options"
  /\ request[s].egress # {}
  /\ \E exception \in {"OSError", "PermissionError", "TimeoutExpired",
                       "AttributeError", "NameError"} :
       Raise(s, exception)
  /\ UNCHANGED <<call, state, trail, run, host>>

RefuseEnvironment(s) ==
  /\ pc[s] = "options"
  /\ request[s].egress = {} /\ ~request[s].envOk
  /\ Raise(s, "ValueError")
  /\ UNCHANGED <<call, state, trail, run, host>>

Launch(s) ==
  /\ pc[s] = "options"
  /\ request[s].egress = {} /\ request[s].envOk
  /\ state' = [state EXCEPT ![s] = "RUNNING"]
  /\ Goto(s, "podman")
  /\ UNCHANGED <<call, trail, run, host>>

(***************************************************************************)
(* podman run and the container, which lives on if its client is killed.   *)
(***************************************************************************)
\* subprocess.run refuses the payload or an entrypoint argument.
EmbeddedNul(s) ==
  /\ pc[s] = "podman"
  /\ ~request[s].argsOk
  /\ Raise(s, "ValueError")
  /\ UNCHANGED <<call, state, trail, run, host>>

\* podman is not there, may not be executed, or its arguments are too long.
PodmanMissing(s) ==
  /\ pc[s] = "podman"
  /\ request[s].argsOk
  /\ \E exception \in {"OSError", "PermissionError"} : Raise(s, exception)
  /\ UNCHANGED <<call, state, trail, run, host>>

\* podman reads the whole profile and the name is free.
ContainerStarts(s) ==
  /\ pc[s] = "podman"
  /\ request[s].argsOk
  /\ profile = "whole" /\ container[s] = None
  /\ container' = [container EXCEPT ![s] = request[s]]
  /\ Goto(s, "attached")
  /\ UNCHANGED <<call, state, trail, run, failures, profile, cached>>

\* The profile does not parse, the name is in use, the image is missing.
PodmanRefuses(s) ==
  /\ pc[s] = "podman"
  /\ request[s].argsOk
  /\ run' = [run EXCEPT ![s] = [code |-> 125, output |-> NoOutput]]
  /\ Goto(s, "finish")
  /\ UNCHANGED <<call, state, trail, host>>

\* --rm removes the container when it exits.
ContainerExits(s, code, output) ==
  /\ container[s] # None
  /\ container' = [container EXCEPT ![s] = None]
  /\ IF pc[s] = "attached"
     THEN /\ run' = [run EXCEPT ![s] = [code |-> code, output |-> output]]
          /\ Goto(s, "finish")
     ELSE UNCHANGED <<run, pc, outcome, released>>
  /\ UNCHANGED <<call, state, trail, failures, profile, cached>>

\* The container exits, and one of its streams is not UTF-8.
OutputUndecodable(s) ==
  /\ pc[s] = "attached"
  /\ container[s] # None
  /\ container' = [container EXCEPT ![s] = None]
  /\ Raise(s, "ValueError")
  /\ UNCHANGED <<call, state, trail, run, failures, profile, cached>>

\* Mutant: the timeout only covers the start of the container.
RunTimeoutStartOnly(s) ==
  /\ pc[s] = "podman" /\ request[s].argsOk
  /\ state' = [state EXCEPT ![s] = "TIMEOUT"]
  /\ Goto(s, "stop")
  /\ UNCHANGED <<call, trail, run, host>>

\* Mutant: a task that timed out is left to --rm.
RunTimeoutNoShred(s) ==
  /\ pc[s] \in {"podman", "attached"} /\ request[s].argsOk
  /\ state' = [state EXCEPT ![s] = "TIMEOUT"]
  /\ Return(s, "TIMEOUT", NoOutput)
  /\ UNCHANGED <<call, trail, run, host>>

\* subprocess.run kills the podman client after timeout_seconds.
RunTimeout(s) ==
  /\ pc[s] \in {"podman", "attached"} /\ request[s].argsOk
  /\ state' = [state EXCEPT ![s] = "TIMEOUT"]
  /\ Goto(s, "stop")
  /\ UNCHANGED <<call, trail, run, host>>

-----------------------------------------------------------------------------
\* Only stdout is scanned.
Withheld(s) == request[s].scan /\ run[s].output.stdout = "risky"

\* Mutant: a blocked output is reported but still returned.
FinishReleases(s) ==
  LET final == IF run[s].code = 0 THEN "COMPLETED" ELSE "FAILED"
  IN /\ pc[s] = "finish"
     /\ state' = [state EXCEPT ![s] = final]
     /\ Log(s, IF Withheld(s) THEN <<"exfil_blocked">> ELSE <<"complete">>)
     /\ Return(s, IF Withheld(s) THEN "FAILED" ELSE final, run[s].output)
     /\ UNCHANGED <<call, run, host>>

\* From the end of podman run to the return, the exfiltration gate included,
\* which withholds stderr with a blocked stdout and otherwise lets it pass.
Finish(s) ==
  LET final == IF run[s].code = 0 THEN "COMPLETED" ELSE "FAILED"
  IN /\ pc[s] = "finish"
     /\ state' = [state EXCEPT ![s] = final]
     /\ IF Withheld(s)
        THEN /\ Log(s, <<"exfil_blocked">>)
             /\ Return(s, "FAILED", NoOutput)
        ELSE /\ Log(s, <<"complete">>)
             /\ Return(s, final, run[s].output)
     /\ UNCHANGED <<call, run, host>>

(***************************************************************************)
(* cryptographic_shred, after a timeout or called by the owner of the      *)
(* sandbox.  It ignores what podman returns; its own timeouts, and podman  *)
(* that cannot be started any more, escape.                                *)
(***************************************************************************)
Shred(s) ==
  /\ pc[s] = "idle"
  /\ pc' = [pc EXCEPT ![s] = "stop"]
  /\ outcome' = [outcome EXCEPT ![s] = "shred"]
  /\ UNCHANGED <<call, state, trail, run, released, host>>

\* podman stop and podman rm -f end the container, unless they fail.
PodmanEnds(s) ==
  \/ /\ container' = [container EXCEPT ![s] = None]
     /\ UNCHANGED failures
  \/ /\ failures[s] < MaxFailures
     /\ failures' = [failures EXCEPT ![s] = @ + 1]
     /\ UNCHANGED container

Stop(s) ==
  /\ pc[s] = "stop"
  /\ PodmanEnds(s)
  /\ Goto(s, "rm")
  /\ UNCHANGED <<call, state, trail, run, profile, cached>>

ForceRemove(s) ==
  /\ pc[s] = "rm"
  /\ PodmanEnds(s)
  /\ Goto(s, "volume")
  /\ UNCHANGED <<call, state, trail, run, profile, cached>>

RemoveVolume(s) ==
  /\ pc[s] = "volume"
  /\ state' = [state EXCEPT ![s] = "SHREDDED"]
  /\ pc' = [pc EXCEPT ![s] = "idle"]
  /\ outcome' = [outcome EXCEPT ![s] = IF @ = "shred" THEN @ ELSE "TIMEOUT"]
  /\ UNCHANGED <<call, trail, run, released, host>>

ShredRaises(s) ==
  /\ pc[s] \in {"stop", "rm", "volume"}
  /\ pc' = [pc EXCEPT ![s] = "idle"]
  /\ \E exception \in {"TimeoutExpired", "OSError", "PermissionError"} :
       outcome' = [outcome EXCEPT ![s] =
                     IF @ = "shred" THEN "shred raised" ELSE exception]
  /\ UNCHANGED <<call, state, trail, run, released, host>>

-----------------------------------------------------------------------------
Submit(s) ==
  \E r \in Requests :
    RefuseArguments(s, r) \/ RefuseToken(s, r) \/ BlockPayload(s, r) \/ Admit(s, r)

\* The steps of a call under way that are up to the code.
Advance(s) ==
  \/ ReuseProfile(s) \/ ProfileFails(s) \/ OpenProfile(s)
  \/ SaveProfile(s) \/ SaveFails(s)
  \/ ApplyEgressRules(s) \/ RefuseEnvironment(s) \/ Launch(s) \/ EmbeddedNul(s)
  \/ RunTimeout(s) \/ Finish(s)
  \/ Stop(s) \/ ForceRemove(s) \/ RemoveVolume(s)

Podman(s) ==
  \/ PodmanMissing(s) \/ ContainerStarts(s) \/ PodmanRefuses(s)
  \/ \E code \in {0, 1}, output \in Output : ContainerExits(s, code, output)
  \/ OutputUndecodable(s)
  \/ ShredRaises(s)

Next == \E s \in Sandboxes : Submit(s) \/ Shred(s) \/ Advance(s) \/ Podman(s)

\* The thread of a call keeps running, and subprocess.run raises when its
\* timeout has passed.  Nothing is assumed of the container.
Fairness == \A s \in Sandboxes : WF_vars(Advance(s))

Spec == Init /\ [][Next]_vars /\ Fairness
-----------------------------------------------------------------------------
(***************************************************************************)
(* scripts/sandbox_task.py: success is state.value = "COMPLETED", but the  *)
(* values of SandboxState are in lower case; ValueError and                *)
(* PermissionError become exit code 2, other exceptions end the            *)
(* interpreter with 1.                                                     *)
(***************************************************************************)
StateValue(result) ==
  CASE result = "COMPLETED" -> "completed"
    [] result = "FAILED" -> "failed"
    [] result = "TIMEOUT" -> "timeout"

RunnerExit(result) ==
  IF result \in {"ValueError", "PermissionError"} THEN 2
  ELSE IF result \in Results /\ StateValue(result) = "COMPLETED" THEN 0
  ELSE 1

\* verify_isolation: json is not imported, so looking into the description
\* of an existing container raises and only the check "error" is returned.
IsolationChecks(s) == IF container[s] = None THEN {} ELSE {"error"}

-----------------------------------------------------------------------------
(***************************************************************************)
(* Properties.                                                             *)
(***************************************************************************)

\* Every variable has its type.
TypeOK ==
  /\ pc \in [Sandboxes -> Steps]
  /\ request \in [Sandboxes -> Requests]
  /\ state \in [Sandboxes -> SandboxState]
  /\ trail \in [Sandboxes -> Seq(Events)]
  /\ run \in [Sandboxes -> [code: Nat, output: Output]]
  /\ outcome \in [Sandboxes -> {"none", "shred", "shred raised"}
                                 \cup Results \cup Exceptions]
  /\ released \in [Sandboxes -> Output]
  /\ container \in [Sandboxes -> Requests \cup {None}]
  /\ failures \in [Sandboxes -> Nat]
  /\ profile \in {"absent", "partial", "whole"}
  /\ cached \in [Processes -> BOOLEAN]
  /\ deploys \in [Sandboxes -> Nat]

Answered(s) == pc[s] = "idle" /\ outcome[s] # "none"

\* deploy_agent keeps the promise of both backends: only what passes the
\* gates runs, and a risky stdout leaves only unscanned.
Gate ==
  INSTANCE GatedTask WITH
    phase <- [s \in Sandboxes |->
                IF pc[s] # "idle" /\ outcome[s] = "none" THEN "busy" ELSE "free"]

ImplementsGatedTask == Gate!Spec

\* The two ways cryptographic_shred ends the container make up for a failure
\* of one of them: a call that returned COMPLETED or TIMEOUT, or a shred of
\* the owner that returned, has left no container behind, its own or one that
\* an earlier call had to abandon.
ResultMeansGone ==
  \A s \in Sandboxes :
    /\ pc[s] = "idle" /\ outcome[s] = "COMPLETED" => container[s] = None
    /\ pc[s] = "idle" /\ outcome[s] \in {"TIMEOUT", "shred"} /\ failures[s] <= 1
         => container[s] = None

\* What runs, or ran when its client was killed, passed every gate, the
\* environment check included, and the sandbox logged its start.
OnlyCheckedRequestsRun ==
  \A s \in Sandboxes :
    container[s] # None =>
      /\ container[s].valid /\ container[s].authorized /\ container[s].envOk
      /\ container[s].egress = {} /\ ~Blocked(container[s])
      /\ \E i \in 1..Len(trail[s]) : trail[s][i] = "start"

Last(events) == IF events = <<>> THEN "none" ELSE events[Len(events)]

\* Does the log show how the last call ended?  An argument refused and a
\* shred of the owner leave no event.  Of the calls that leave one, the last
\* event is the refusal of the gate that refused, complete exactly for a
\* result whose output is returned, exfil_blocked exactly for one that is
\* withheld, and start for everything else: the result TIMEOUT and all
\* exceptions after the gates leave the same trace, that of a call still under
\* way.  Output of a task is returned only next to complete.
TrailTells(s) ==
  Answered(s) =>
    /\ released[s] # NoOutput => Last(trail[s]) = "complete"
    /\ request[s].valid /\ outcome[s] \notin {"shred", "shred raised"} =>
         /\ ~request[s].authorized => Last(trail[s]) = "auth_failure"
         /\ request[s].authorized /\ Blocked(request[s])
              => Last(trail[s]) = "injection_blocked"
         /\ request[s].authorized /\ ~Blocked(request[s])
              => Last(trail[s]) = IF outcome[s] \notin {"COMPLETED", "FAILED"} THEN "start"
                                  ELSE IF Withheld(s) THEN "exfil_blocked"
                                  ELSE "complete"

\* deploy_agent returns or raises, whatever the container does: the timeout
\* of subprocess.run bounds every wait.
DeployReturns ==
  \A s \in Sandboxes : pc[s] # "idle" ~> pc[s] = "idle"

\* "Ephemeral: all data destroyed after task completion": when deploy_agent
\* has returned or raised, the container is gone.
EphemeralAfterDeploy ==
  \A s \in Sandboxes : Answered(s) => container[s] = None

\* "Every stage recorded to the audit log": a deployment that ran and was
\* answered with a result has a closing event.
EveryResultIsLogged ==
  \A s \in Sandboxes :
    pc[s] = "idle" /\ outcome[s] \in Results => Last(trail[s]) # "start"

\* "egress rules are applied and audit-logged": a call with egress rules that
\* passes the other gates is not answered with an error of the program.
EgressRulesApply ==
  \A s \in Sandboxes :
    Answered(s) => outcome[s] \notin {"NameError", "AttributeError"}

\* "Generate + save the hardened seccomp profile once": a podman that is
\* about to read the profile finds it whole.
ProfileReady ==
  \A s \in Sandboxes : pc[s] = "podman" => profile = "whole"

\* "0  task succeeded": the runner reports the success of a task that the
\* sandbox reports as completed.
RunnerReportsSuccess ==
  \A s \in Sandboxes :
    pc[s] = "idle" /\ outcome[s] = "COMPLETED" => RunnerExit(outcome[s]) = 0

\* "scans all agent outputs before delivery": what a scanned call delivers,
\* stderr included, is not what the scanner would block.
OutputsAreScanned ==
  \A s \in Sandboxes :
    Answered(s) /\ request[s].scan =>
      released[s].stdout # "risky" /\ released[s].stderr # "risky"

\* "1  task failed inside the sandbox, 2  runner/usage error": the runner does
\* not answer 2 when the container of its task has run to its end.
RanIsNoUsageError ==
  [][\A s \in Sandboxes :
       pc[s] = "attached" /\ container'[s] = None => RunnerExit(outcome'[s]) # 2]_vars

\* "Returns a dict of security checks": for a running container
\* verify_isolation says whether the network is isolated.
IsolationIsVerified ==
  \A s \in Sandboxes :
    container[s] # None => "network_isolated" \in IsolationChecks(s)
=============================================================================
