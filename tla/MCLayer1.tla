------------------------------ MODULE MCLayer1 ------------------------------
(***************************************************************************)
(* Instances of Layer1 for TLC.                                            *)
(***************************************************************************)
EXTENDS Layer1, TLC

CONSTANTS h1, p1

Benign == [valid |-> TRUE, authorized |-> TRUE, malicious |-> FALSE,
           scan |-> TRUE, egress |-> {}, envOk |-> TRUE, argsOk |-> TRUE]

\* Requests that fail one gate each, one that fails them all, and one that is
\* malicious but not scanned.
GateRequests ==
  {Benign, [Benign EXCEPT !.valid = FALSE], [Benign EXCEPT !.authorized = FALSE],
   [Benign EXCEPT !.malicious = TRUE], [Benign EXCEPT !.egress = {h1}],
   [Benign EXCEPT !.envOk = FALSE], [Benign EXCEPT !.argsOk = FALSE],
   [Benign EXCEPT !.scan = FALSE, !.malicious = TRUE],
   [valid |-> FALSE, authorized |-> FALSE, malicious |-> TRUE,
    scan |-> TRUE, egress |-> {h1}, envOk |-> FALSE, argsOk |-> FALSE]}

OneProcess == [s \in Sandboxes |-> p1]

\* Claims about the OpenShell backend that the code does not keep.
HostIsClean == O!HostIsClean
CompatReportsTimeout == O!CompatReportsTimeout
EgressIsTranslated == O!EgressIsTranslated
=============================================================================
