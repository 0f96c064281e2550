------------------------------- MODULE Tasks -------------------------------
(***************************************************************************)
(* What the two backends of Layer 1 are given: sandbox objects, the        *)
(* processes they live in, and the arguments of the calls.                 *)
(***************************************************************************)
EXTENDS Naturals, Sequences

CONSTANTS Sandboxes,     \* sandbox objects
          Processes,     \* Python processes
          ProcessOf,     \* the process each sandbox lives in
          Hosts,         \* hosts egress rules may name
          ConfigEgress,  \* the hosts in config.egress_rules
          Requests,      \* the arguments of the calls that are made
          None,
          MaxFailures,   \* bound: failures of podman stop and rm per sandbox
          MaxDeploys     \* bound: calls per sandbox

\* valid: task_id and entrypoint pass; authorized: the token gate passes;
\* malicious: the scanner finds the payload so; scan: security_scan;
\* egress: the hosts of the egress rules; envOk: the environment passes;
\* argsOk: every argument can be passed to a process (none holds a NUL).
Request == [valid: BOOLEAN, authorized: BOOLEAN, malicious: BOOLEAN,
            scan: BOOLEAN, egress: SUBSET Hosts, envOk: BOOLEAN,
            argsOk: BOOLEAN]

\* What the scanner of outputs says of a stream, or would if it were asked.
Kind == {"none", "clean", "risky"}

\* What a task wrote.  The messages that the sandboxes and podman put in its
\* place are not output of the task.
Output == [stdout: Kind, stderr: Kind]

NoOutput == [stdout |-> "none", stderr |-> "none"]

ASSUME TasksAssumption ==
  /\ ProcessOf \in [Sandboxes -> Processes]
  /\ ConfigEgress \subseteq Hosts
  /\ Requests \subseteq Request /\ Requests # {}
  /\ None \notin Request
  /\ MaxFailures \in Nat /\ MaxDeploys \in Nat

\* The injection scan is on and its verdict is MALICIOUS.
Blocked(r) == r.scan /\ r.malicious
=============================================================================
