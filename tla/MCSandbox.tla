----------------------------- MODULE MCSandbox -----------------------------
(***************************************************************************)
(* Instances of Sandbox for TLC.                                           *)
(***************************************************************************)
EXTENDS Sandbox, TLC

CONSTANTS s1, s2, p1, p2, h1

Benign == [valid |-> TRUE, authorized |-> TRUE, malicious |-> FALSE,
           scan |-> TRUE, egress |-> {}, envOk |-> TRUE, argsOk |-> TRUE]

\* Requests that fail one gate each, one that fails them all, and one that is
\* malicious but not scanned.
GateRequests ==
  {Benign, [Benign EXCEPT !.valid = FALSE], [Benign EXCEPT !.authorized = FALSE],
   [Benign EXCEPT !.malicious = TRUE], [Benign EXCEPT !.egress = {h1}],
   [Benign EXCEPT !.envOk = FALSE], [Benign EXCEPT !.argsOk = FALSE],
   [Benign EXCEPT !.scan = FALSE, !.malicious = TRUE],
   [valid |-> FALSE, authorized |-> FALSE, malicious |-> TRUE,
    scan |-> TRUE, egress |-> {h1}, envOk |-> FALSE, argsOk |-> FALSE]}

PlainRequests == {Benign, [Benign EXCEPT !.scan = FALSE]}

OneProcess == [s \in Sandboxes |-> p1]
OwnProcesses == [s \in Sandboxes |-> IF s = s1 THEN p1 ELSE p2]
=============================================================================
