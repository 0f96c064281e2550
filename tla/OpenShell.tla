----------------------------- MODULE OpenShell -----------------------------
(***************************************************************************)
(* Layer 1 with the OpenShell backend, core/layer1_openshell.py:           *)
(* execute_task with its gates, the policy file it writes for the gateway, *)
(* the sandbox create command and its timeout, deploy_agent_compat, and    *)
(* what scripts/sandbox_task.py makes of the result.                       *)
(*                                                                         *)
(* The audit log is local to a call, so trail is the log of the last call. *)
(* Of the arguments, egress and envOk are not looked at: the rules that    *)
(* reach the policy file are those of the config, and the workload sets    *)
(* the environment itself.  Nor is argsOk: the payload travels in base64.  *)
(***************************************************************************)
EXTENDS Tasks

VARIABLES pc,        \* where each execute_task is
          request,   \* its arguments
          trail,     \* the events of its audit log
          run,       \* what the openshell command returned
          outcome,   \* what the last execute_task returned or raised
          released,  \* the output of the task that it returned
          policies,  \* on the host: the endpoints in each sandbox's policy
                     \* file, if there is one
          calls      \* calls so far

vars == <<pc, request, trail, run, outcome, released, policies, calls>>

NoFile == {"no file"}
TornFile == {"torn file"}

Results == {"success", "failure", "timeout"}
Exceptions == {"ValueError", "PermissionError", "OSError", "Exception"}
Steps == {"idle", "policy", "create", "finish"}
Events == {"auth_failure", "injection_blocked", "start", "timeout",
           "exfil_blocked", "finish"}

Init ==
  /\ pc = [s \in Sandboxes |-> "idle"]
  /\ request \in [Sandboxes -> Requests]
  /\ trail = [s \in Sandboxes |-> <<>>]
  /\ run = [s \in Sandboxes |-> [code |-> 0, output |-> NoOutput]]
  /\ outcome = [s \in Sandboxes |-> "none"]
  /\ released = [s \in Sandboxes |-> NoOutput]
  /\ policies = [s \in Sandboxes |-> NoFile]
  /\ calls = [s \in Sandboxes |-> 0]

(***************************************************************************)
(* Logging, going on, and the end of a call.                               *)
(***************************************************************************)
Log(s, events) == trail' = [trail EXCEPT ![s] = @ \o events]

Goto(s, step) ==
  /\ pc' = [pc EXCEPT ![s] = step]
  /\ UNCHANGED <<outcome, released>>

Return(s, result, output) ==
  /\ pc' = [pc EXCEPT ![s] = "idle"]
  /\ outcome' = [outcome EXCEPT ![s] = result]
  /\ released' = [released EXCEPT ![s] = output]

Raise(s, exception) == Return(s, exception, NoOutput)

Call(s, r, events) ==
  /\ pc[s] = "idle"
  /\ calls[s] < MaxDeploys
  /\ calls' = [calls EXCEPT ![s] = @ + 1]
  /\ request' = [request EXCEPT ![s] = r]
  /\ trail' = [trail EXCEPT ![s] = events]
  /\ UNCHANGED <<run, policies>>

(***************************************************************************)
(* The gates; deploy.start is logged after them.                           *)
(***************************************************************************)
RefuseArguments(s, r) ==
  /\ ~r.valid
  /\ Call(s, r, <<>>)
  /\ Raise(s, "ValueError")

RefuseToken(s, r) ==
  /\ r.valid /\ ~r.authorized
  /\ Call(s, r, <<"auth_failure">>)
  /\ Raise(s, "PermissionError")

BlockPayload(s, r) ==
  /\ r.valid /\ r.authorized /\ Blocked(r)
  /\ Call(s, r, <<"injection_blocked">>)
  /\ Raise(s, "ValueError")

Admit(s, r) ==
  /\ r.valid /\ r.authorized /\ ~Blocked(r)
  /\ Call(s, r, <<>>)
  /\ pc' = [pc EXCEPT ![s] = "policy"]
  /\ outcome' = [outcome EXCEPT ![s] = "none"]
  /\ released' = [released EXCEPT ![s] = NoOutput]

(***************************************************************************)
(* _base_policy and _write_policy.  The endpoints come from the config;    *)
(* the egress_rules argument is not looked at.                             *)
(***************************************************************************)
BasePolicy(s) == ConfigEgress

\* The default policy is missing, unreadable or not the YAML it should be, or
\* a port in the config is not a number.
BasePolicyMissing(s) ==
  /\ pc[s] = "policy"
  /\ \E exception \in Exceptions : Raise(s, exception)
  /\ UNCHANGED <<request, trail, run, policies, calls>>

\* The policy file cannot be opened, or not be written to its end.
PolicyUnwritable(s) ==
  /\ pc[s] = "policy"
  /\ \E file \in {policies[s], TornFile} : policies' = [policies EXCEPT ![s] = file]
  /\ \E exception \in {"OSError", "PermissionError"} : Raise(s, exception)
  /\ UNCHANGED <<request, trail, run, calls>>

WritePolicy(s) ==
  /\ pc[s] = "policy"
  /\ policies' = [policies EXCEPT ![s] = BasePolicy(s)]
  /\ Log(s, <<"start">>)
  /\ Goto(s, "create")
  /\ UNCHANGED <<request, run, calls>>

(***************************************************************************)
(* openshell sandbox create.                                               *)
(***************************************************************************)
\* openshell is not there, may not be executed, or its arguments are too long.
CommandMissing(s) ==
  /\ pc[s] = "create"
  /\ \E exception \in {"OSError", "PermissionError"} : Raise(s, exception)
  /\ UNCHANGED <<request, trail, run, policies, calls>>

CommandExits(s, code, output) ==
  /\ pc[s] = "create"
  /\ run' = [run EXCEPT ![s] = [code |-> code, output |-> output]]
  /\ Goto(s, "finish")
  /\ UNCHANGED <<request, trail, policies, calls>>

\* The command exits, and one of its streams is not UTF-8.
OutputUndecodable(s) ==
  /\ pc[s] = "create"
  /\ Raise(s, "ValueError")
  /\ UNCHANGED <<request, trail, run, policies, calls>>

\* Mutant: the timeout is not logged.
CreateTimeoutUnlogged(s) ==
  /\ pc[s] = "create"
  /\ Return(s, "timeout", NoOutput)
  /\ UNCHANGED <<request, trail, run, policies, calls>>

\* subprocess.run raises after 900 seconds.
CreateTimeout(s) ==
  /\ pc[s] = "create"
  /\ Log(s, <<"timeout">>)
  /\ Return(s, "timeout", NoOutput)
  /\ UNCHANGED <<request, run, policies, calls>>

-----------------------------------------------------------------------------
\* Only stdout is scanned.
Withheld(s) == request[s].scan /\ run[s].output.stdout = "risky"

\* Mutant: risky output of a task that succeeded is returned.
FinishScansFailures(s) ==
  LET ok == run[s].code = 0
  IN /\ pc[s] = "finish"
     /\ Log(s, IF Withheld(s) /\ ~ok THEN <<"exfil_blocked", "finish">>
               ELSE <<"finish">>)
     /\ Return(s, IF ok THEN "success" ELSE "failure",
                  IF Withheld(s) /\ ~ok THEN NoOutput ELSE run[s].output)
     /\ UNCHANGED <<request, run, policies, calls>>

\* The exfiltration gate, deploy.finish and the result.  The notice that
\* replaces a blocked stdout is not output of the task; stderr is returned as
\* it is, with a blocked stdout too.
Finish(s) ==
  /\ pc[s] = "finish"
  /\ Log(s, IF Withheld(s) THEN <<"exfil_blocked", "finish">> ELSE <<"finish">>)
  /\ Return(s, IF run[s].code = 0 /\ ~Withheld(s) THEN "success" ELSE "failure",
               IF Withheld(s) THEN [run[s].output EXCEPT !.stdout = "none"]
               ELSE run[s].output)
  /\ UNCHANGED <<request, run, policies, calls>>

Submit(s) ==
  \E r \in Requests :
    RefuseArguments(s, r) \/ RefuseToken(s, r) \/ BlockPayload(s, r) \/ Admit(s, r)

\* What is up to the code and to subprocess.run.
Advance(s) ==
  \/ BasePolicyMissing(s) \/ PolicyUnwritable(s) \/ WritePolicy(s)
  \/ CreateTimeout(s) \/ Finish(s)

Gateway(s) ==
  \/ CommandMissing(s)
  \/ \E code \in {0, 1}, output \in Output : CommandExits(s, code, output)
  \/ OutputUndecodable(s)

Next == \E s \in Sandboxes : Submit(s) \/ Advance(s) \/ Gateway(s)

\* A call keeps running; nothing is assumed of the gateway.
Fairness == \A s \in Sandboxes : WF_vars(Advance(s))

Spec == Init /\ [][Next]_vars /\ Fairness

-----------------------------------------------------------------------------
\* The state deploy_agent_compat reports.
CompatState(result) == IF result = "success" THEN "COMPLETED" ELSE "FAILED"

\* The exit code of the runner with this backend.
RunnerExit(result) ==
  IF result \in {"ValueError", "PermissionError"} THEN 2
  ELSE IF result = "success" THEN 0 ELSE 1

-----------------------------------------------------------------------------
(***************************************************************************)
(* Properties.                                                             *)
(***************************************************************************)

\* Every variable has its type.
TypeOK ==
  /\ pc \in [Sandboxes -> Steps]
  /\ request \in [Sandboxes -> Requests]
  /\ trail \in [Sandboxes -> Seq(Events)]
  /\ run \in [Sandboxes -> [code: Nat, output: Output]]
  /\ outcome \in [Sandboxes -> {"none"} \cup Results \cup Exceptions]
  /\ released \in [Sandboxes -> Output]
  /\ policies \in [Sandboxes -> (SUBSET Hosts) \cup {NoFile, TornFile}]
  /\ calls \in [Sandboxes -> Nat]

Answered(s) == pc[s] = "idle" /\ outcome[s] # "none"

\* execute_task keeps the promise of both backends.
Gate ==
  INSTANCE GatedTask WITH
    phase <- [s \in Sandboxes |-> IF pc[s] = "idle" THEN "free" ELSE "busy"]

ImplementsGatedTask == Gate!Spec

Last(events) == IF events = <<>> THEN "none" ELSE events[Len(events)]

Logged(s, event) == \E i \in 1..Len(trail[s]) : trail[s][i] = event

\* Does the log of a call show how it ended?  The last event is finish exactly
\* for success and failure, timeout exactly for a timeout, and the refusal of
\* the gate for what a gate refused; a withheld stdout is logged, and makes
\* the call a failure.  Every exception after the gates leaves no event or
\* only start: the log does not tell them apart, nor from a call under way.
TrailTells(s) ==
  Answered(s) =>
    LET last == Last(trail[s])
        r == request[s]
    IN /\ last = "finish" <=> outcome[s] \in {"success", "failure"}
       /\ last = "timeout" <=> outcome[s] = "timeout"
       /\ last = "auth_failure" <=> r.valid /\ ~r.authorized
       /\ last = "injection_blocked" <=> r.valid /\ r.authorized /\ Blocked(r)
       /\ outcome[s] \in Results => Logged(s, "start")
       /\ last = "finish" =>
            /\ Logged(s, "exfil_blocked") <=> Withheld(s)
            /\ Withheld(s) => outcome[s] = "failure" /\ released[s].stdout = "none"

\* "nothing to clean up on the host": an answered call leaves no file behind.
HostIsClean ==
  \A s \in Sandboxes : Answered(s) => policies[s] = NoFile

\* state: "COMPLETED" | "FAILED" | "TIMEOUT": the compatible result tells a
\* timeout from a failure.
CompatReportsTimeout ==
  \A s \in Sandboxes :
    Answered(s) /\ outcome[s] = "timeout" => CompatState(outcome[s]) = "TIMEOUT"

\* "Egress rules passed to deploy_agent() are translated automatically into
\* scoped per-binary network policies".
EgressIsTranslated ==
  \A s \in Sandboxes :
    pc[s] = "create" => request[s].egress \subseteq policies[s]
=============================================================================
