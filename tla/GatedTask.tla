----------------------------- MODULE GatedTask -----------------------------
(***************************************************************************)
(* What a Layer-1 backend promises for the tasks submitted to it, whatever *)
(* runs them: a task starts only if its token and its payload pass the     *)
(* gates, each submission is answered once, and the answer carries output  *)
(* only of a task that ran, and a risky stdout only if scanning was off.   *)
(* Nothing is promised of stderr, which no backend scans.                  *)
(***************************************************************************)
CONSTANTS Sandboxes,   \* the sandbox objects
          Requests     \* the arguments a task may be submitted with

VARIABLES phase,     \* is the sandbox free, or is a task under way
          request,   \* the arguments of the last submission
          released   \* the kind of output its answer carried

vars == <<phase, request, released>>

Kind == {"none", "clean", "risky"}
Output == [stdout: Kind, stderr: Kind]
NoOutput == [stdout |-> "none", stderr |-> "none"]

\* The token gate and the prompt-injection gate.
Admissible(r) == r.authorized /\ ~(r.scan /\ r.malicious)

Init ==
  /\ phase = [s \in Sandboxes |-> "free"]
  /\ request \in [Sandboxes -> Requests]
  /\ released = [s \in Sandboxes |-> NoOutput]

Refuse(s, r) ==
  /\ phase[s] = "free"
  /\ request' = [request EXCEPT ![s] = r]
  /\ released' = [released EXCEPT ![s] = NoOutput]
  /\ UNCHANGED phase

Start(s, r) ==
  /\ phase[s] = "free"
  /\ Admissible(r)
  /\ phase' = [phase EXCEPT ![s] = "busy"]
  /\ request' = [request EXCEPT ![s] = r]
  /\ released' = [released EXCEPT ![s] = NoOutput]

Answer(s, out) ==
  /\ phase[s] = "busy"
  /\ out.stdout = "risky" => ~request[s].scan
  /\ phase' = [phase EXCEPT ![s] = "free"]
  /\ released' = [released EXCEPT ![s] = out]
  /\ UNCHANGED request

Next ==
  \E s \in Sandboxes :
    \/ \E r \in Requests : Refuse(s, r) \/ Start(s, r)
    \/ \E out \in Output : Answer(s, out)

Spec == Init /\ [][Next]_vars
=============================================================================
