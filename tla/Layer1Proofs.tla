---------------------------- MODULE Layer1Proofs ----------------------------
(***************************************************************************)
(* Proofs about Layer 1: for any number of sandbox objects, processes and  *)
(* requests, any number of calls and of failures of podman.                *)
(***************************************************************************)
EXTENDS Layer1, SequenceTheorems, TLAPS

Steps == {"idle", "profile", "saving", "options", "podman", "attached", "finish",
          "stop", "rm", "volume", "policy", "create"}

Outcomes == {"none", "shred", "shred raised", "COMPLETED", "FAILED", "TIMEOUT",
             "success", "failure", "timeout",
             "ValueError", "PermissionError", "NameError", "AttributeError",
             "OSError", "TimeoutExpired", "Exception"}

CallType ==
  /\ backend \in [Sandboxes -> Backends \cup {None}]
  /\ pc \in [Sandboxes -> Steps]
  /\ request \in [Sandboxes -> Requests]
  /\ run \in [Sandboxes -> [code: Nat, output: Output]]
  /\ outcome \in [Sandboxes -> Outcomes]
  /\ released \in [Sandboxes -> Output]

\* A call that is under way has no outcome and has released nothing, until it
\* ends or, after a timeout, while it destroys its container.
Shredding == {"stop", "rm", "volume"}

CallState(s) ==
  /\ backend[s] = None => pc[s] = "idle"
  /\ pc[s] \notin {"idle"} \cup Shredding => outcome[s] = "none"
  /\ pc[s] # "idle" /\ outcome[s] = "none" => released[s] = NoOutput

CallInv == CallType /\ \A s \in Sandboxes : CallState(s)

\* The modules mean the same by an output.
LEMMA SameOutput ==
  /\ P!Output = Output /\ O!Output = Output /\ Gate!Output = Output
  /\ P!NoOutput = NoOutput /\ O!NoOutput = NoOutput /\ Gate!NoOutput = NoOutput
  /\ NoOutput \in Output /\ NoOutput.stdout = "none"
  BY DEF Output, P!Output, O!Output, Gate!Output, NoOutput, P!NoOutput, O!NoOutput,
         Gate!NoOutput, Kind, P!Kind, O!Kind, Gate!Kind

(***************************************************************************)
(* The ways a step changes what a caller sees of a sandbox.                *)
(***************************************************************************)
seen == <<pc, request, outcome, released>>
GateStep == [Gate!Next]_(Gate!vars)

\* Nothing changes but the output of the command and the backend of others.
LEMMA HiddenStep ==
  ASSUME CallInv, UNCHANGED <<backend, seen>>,
         run' \in [Sandboxes -> [code: Nat, output: Output]]
  PROVE  CallInv' /\ GateStep
<1>1. CallInv'
  BY DEF CallInv, CallType, CallState, seen
<1>2. UNCHANGED Gate!vars
  BY DEF seen, Gate!vars
<1> QED BY <1>1, <1>2 DEF GateStep

\* A call goes on to another step.
LEMMA OnwardStep ==
  ASSUME CallInv, NEW s \in Sandboxes, NEW step \in Steps \ {"idle"},
         pc[s] # "idle", backend[s] # None,
         pc[s] \notin Shredding \/ step \in Shredding,
         pc' = [pc EXCEPT ![s] = step],
         UNCHANGED <<backend, request, outcome, released>>,
         run' \in [Sandboxes -> [code: Nat, output: Output]]
  PROVE  CallInv' /\ GateStep
<1>1. CallInv'
  BY DEF CallInv, CallType, CallState
<1>2. \A t \in Sandboxes : (pc'[t] # "idle") <=> (pc[t] # "idle")
  BY DEF CallInv, CallType
<1>3. UNCHANGED Gate!vars
  BY <1>2 DEF Gate!vars
<1> QED BY <1>1, <1>3 DEF GateStep

\* A call is refused before anything is started.
LEMMA RefusedStep ==
  ASSUME CallInv, NEW s \in Sandboxes, NEW r \in Requests,
         NEW result \in Outcomes \ {"none"},
         pc[s] = "idle",
         pc' = [pc EXCEPT ![s] = "idle"],
         request' = [request EXCEPT ![s] = r],
         outcome' = [outcome EXCEPT ![s] = result],
         released' = [released EXCEPT ![s] = NoOutput],
         UNCHANGED <<backend, run>>
  PROVE  CallInv' /\ GateStep
<1>1. CallInv'
  BY SameOutput DEF CallInv, CallType, CallState
<1>2. \A t \in Sandboxes : (pc'[t] # "idle" /\ outcome'[t] = "none") <=>
                           (pc[t] # "idle" /\ outcome[t] = "none")
  BY DEF CallInv, CallType
<1>3. Gate!Refuse(s, r)
  BY <1>2, SameOutput DEF Gate!Refuse
<1> QED BY <1>1, <1>3 DEF GateStep, Gate!Next

\* A call passes the gates.
LEMMA AdmittedStep ==
  ASSUME CallInv, NEW s \in Sandboxes, NEW r \in Requests,
         NEW step \in Steps \ {"idle"}, backend[s] # None,
         r.authorized, ~(r.scan /\ r.malicious), pc[s] = "idle",
         pc' = [pc EXCEPT ![s] = step],
         request' = [request EXCEPT ![s] = r],
         outcome' = [outcome EXCEPT ![s] = "none"],
         released' = [released EXCEPT ![s] = NoOutput],
         UNCHANGED <<backend, run>>
  PROVE  CallInv' /\ GateStep
<1>1. CallInv'
  BY SameOutput DEF CallInv, CallType, CallState, Outcomes
<1>2. /\ \A t \in Sandboxes \ {s} : pc'[t] = pc[t] /\ outcome'[t] = outcome[t]
      /\ pc'[s] # "idle" /\ outcome'[s] = "none"
  BY DEF CallInv, CallType
<1>3. Gate!Start(s, r)
  BY <1>2, SameOutput DEF Gate!Start, Gate!Admissible
<1> QED BY <1>1, <1>3 DEF GateStep, Gate!Next

\* A call that is under way is answered.
LEMMA AnsweredStep ==
  ASSUME CallInv, NEW s \in Sandboxes, NEW out \in Output,
         NEW result \in Outcomes \ {"none"},
         pc[s] # "idle", outcome[s] = "none",
         out.stdout = "risky" => ~request[s].scan,
         pc' = [pc EXCEPT ![s] = "idle"],
         outcome' = [outcome EXCEPT ![s] = result],
         released' = [released EXCEPT ![s] = out],
         UNCHANGED <<backend, request, run>>
  PROVE  CallInv' /\ GateStep
<1>1. CallInv'
  BY DEF CallInv, CallType, CallState, Steps
<1>2. /\ \A t \in Sandboxes \ {s} : pc'[t] = pc[t] /\ outcome'[t] = outcome[t]
      /\ pc'[s] = "idle"
  BY DEF CallInv, CallType
<1>3. Gate!Answer(s, out)
  BY <1>2 DEF Gate!Answer
<1>4. out \in Gate!Output
  BY SameOutput
<1> QED BY <1>1, <1>3, <1>4 DEF GateStep, Gate!Next

\* The container was shredded, after a timeout or for its owner.
LEMMA ShreddedStep ==
  ASSUME CallInv, NEW s \in Sandboxes, NEW result \in Outcomes \ {"none"},
         pc[s] # "idle",
         pc' = [pc EXCEPT ![s] = "idle"],
         outcome' = [outcome EXCEPT ![s] = result],
         UNCHANGED <<backend, request, released, run>>
  PROVE  CallInv' /\ GateStep
<1>1. CASE outcome[s] = "none"
  <2>1. released[s] = NoOutput /\ released[s] \in Output
    BY <1>1 DEF CallInv, CallType, CallState
  <2>2. released' = [released EXCEPT ![s] = released[s]]
    BY DEF CallInv, CallType
  <2> QED BY <1>1, <2>1, <2>2, AnsweredStep, SameOutput
<1>2. CASE outcome[s] # "none"
  <2>1. CallInv'
    BY DEF CallInv, CallType, CallState, Steps
  <2>2. \A t \in Sandboxes : (pc'[t] # "idle" /\ outcome'[t] = "none") <=>
                             (pc[t] # "idle" /\ outcome[t] = "none")
    BY <1>2 DEF CallInv, CallType
  <2>3. UNCHANGED Gate!vars
    BY <2>2 DEF Gate!vars
  <2> QED BY <2>1, <2>3 DEF GateStep
<1> QED BY <1>1, <1>2

(***************************************************************************)
(* The steps of a sandbox object.                                          *)
(***************************************************************************)
LEMMA CreateStep ==
  ASSUME CallInv, NEW s \in Sandboxes, CreateSandbox(s)
  PROVE  CallInv' /\ GateStep
<1>1. /\ backend[s] = None
      /\ UNCHANGED <<pc, request, released, run>>
  BY DEF CreateSandbox, Create, CreateRefused, podmanOnly
<1>2. /\ backend' \in [Sandboxes -> Backends \cup {None}]
      /\ outcome' \in [Sandboxes -> Outcomes]
      /\ \A t \in Sandboxes \ {s} : backend'[t] = backend[t] /\ outcome'[t] = outcome[t]
  <2>1. PICK b \in Backends \cup {None}, x \in {"none", "ValueError"} :
          /\ backend' = backend \/ backend' = [backend EXCEPT ![s] = b]
          /\ outcome' = [outcome EXCEPT ![s] = x]
    BY DEF CreateSandbox, Create, CreateRefused, Chosen, Backends
  <2>2. x \in Outcomes
    BY DEF Outcomes
  <2> QED BY <2>1, <2>2 DEF CallInv, CallType
<1>3. pc[s] = "idle"
  BY <1>1 DEF CallInv, CallState
<1>4. CallInv'
  BY <1>1, <1>2, <1>3 DEF CallInv, CallType, CallState
<1>5. \A t \in Sandboxes : (pc'[t] # "idle" /\ outcome'[t] = "none") <=>
                           (pc[t] # "idle" /\ outcome[t] = "none")
  BY <1>1, <1>2, <1>3
<1>6. UNCHANGED Gate!vars
  BY <1>1, <1>5 DEF Gate!vars
<1> QED BY <1>4, <1>6 DEF GateStep

LEMMA PodmanSubmitStep ==
  ASSUME CallInv, NEW s \in Sandboxes, backend[s] = "podman", P!Submit(s),
         UNCHANGED backend
  PROVE  CallInv' /\ GateStep
<1>0. backend[s] # None
  BY Layer1Assumption DEF Backends
<1>1. PICK r \in Requests : \/ P!RefuseArguments(s, r) \/ P!RefuseToken(s, r)
                            \/ P!BlockPayload(s, r) \/ P!Admit(s, r)
  BY DEF P!Submit
<1>2. CASE P!RefuseArguments(s, r)
  BY <1>2, RefusedStep, SameOutput
  DEF P!RefuseArguments, P!Call, P!Raise, P!Return, Outcomes
<1>3. CASE P!RefuseToken(s, r)
  BY <1>3, RefusedStep, SameOutput DEF P!RefuseToken, P!Call, P!Raise, P!Return, Outcomes
<1>4. CASE P!BlockPayload(s, r)
  BY <1>4, RefusedStep, SameOutput DEF P!BlockPayload, P!Call, P!Raise, P!Return, Outcomes
<1>5. CASE P!Admit(s, r)
  BY <1>0, <1>5, AdmittedStep, SameOutput DEF P!Admit, P!Call, P!Blocked, Steps
<1> QED BY <1>1, <1>2, <1>3, <1>4, <1>5

\* The steps of deploy_agent before the container is shredded.
LEMMA PodmanAdvanceStep ==
  ASSUME CallInv, NEW s \in Sandboxes, backend[s] = "podman", P!Advance(s),
         UNCHANGED backend
  PROVE  CallInv' /\ GateStep
<1>0. backend[s] # None
  BY Layer1Assumption DEF Backends
<1>1. pc[s] \notin {"idle"} \cup Shredding => outcome[s] = "none"
  BY DEF CallInv, CallState
<1>2. run \in [Sandboxes -> [code: Nat, output: Output]]
  BY DEF CallInv, CallType
<1>3. CASE P!ReuseProfile(s) \/ P!OpenProfile(s) \/ P!SaveProfile(s) \/ P!Launch(s)
           \/ P!RunTimeout(s)
  <2>1. PICK step \in {"options", "saving", "podman", "stop"} :
          pc' = [pc EXCEPT ![s] = step]
    BY <1>3 DEF P!ReuseProfile, P!OpenProfile, P!SaveProfile, P!Launch, P!RunTimeout,
                P!Goto
  <2>2. /\ UNCHANGED <<request, outcome, released, run>>
        /\ pc[s] \in {"profile", "saving", "options", "podman", "attached"}
    BY <1>3 DEF P!ReuseProfile, P!OpenProfile, P!SaveProfile, P!Launch, P!RunTimeout,
                P!Goto, P!call, P!host
  <2>3. step \in Steps \ {"idle"} /\ pc[s] \notin Shredding /\ pc[s] # "idle"
    BY <2>2 DEF Steps, Shredding
  <2> QED BY <1>0, <1>2, <2>1, <2>2, <2>3, OnwardStep
<1>4. CASE P!Stop(s) \/ P!ForceRemove(s)
  <2>1. PICK step \in {"rm", "volume"} : pc' = [pc EXCEPT ![s] = step]
    BY <1>4 DEF P!Stop, P!ForceRemove, P!Goto
  <2>2. /\ UNCHANGED <<request, outcome, released, run>>
        /\ pc[s] # "idle"
    BY <1>4 DEF P!Stop, P!ForceRemove, P!Goto, P!call
  <2>3. step \in Steps \ {"idle"} /\ step \in Shredding
    BY DEF Steps, Shredding
  <2> QED BY <1>0, <1>2, <2>1, <2>2, <2>3, OnwardStep
<1>5. CASE P!ProfileFails(s) \/ P!SaveFails(s) \/ P!ApplyEgressRules(s)
           \/ P!RefuseEnvironment(s) \/ P!EmbeddedNul(s)
  <2>1. PICK x \in Outcomes \ {"none"} :
          /\ pc' = [pc EXCEPT ![s] = "idle"]
          /\ outcome' = [outcome EXCEPT ![s] = x]
          /\ released' = [released EXCEPT ![s] = NoOutput]
    BY <1>5, SameOutput
    DEF P!ProfileFails, P!SaveFails, P!ApplyEgressRules, P!RefuseEnvironment,
        P!EmbeddedNul, P!Raise, P!Return, Outcomes
  <2>2. /\ UNCHANGED <<request, run>>
        /\ pc[s] \in {"profile", "saving", "options", "podman"}
    BY <1>5 DEF P!ProfileFails, P!SaveFails, P!ApplyEgressRules, P!RefuseEnvironment,
                P!EmbeddedNul, P!call, P!host
  <2>3. outcome[s] = "none" /\ pc[s] # "idle"
    BY <1>1, <2>2 DEF Shredding
  <2> QED BY <2>1, <2>2, <2>3, SameOutput, AnsweredStep
<1>6. CASE P!Finish(s)
  <2>1. PICK x \in {"COMPLETED", "FAILED"}, out \in {NoOutput, run[s].output} :
          /\ pc' = [pc EXCEPT ![s] = "idle"]
          /\ outcome' = [outcome EXCEPT ![s] = x]
          /\ released' = [released EXCEPT ![s] = out]
          /\ out.stdout = "risky" => ~request[s].scan
    BY <1>6, SameOutput DEF P!Finish, P!Return, P!Withheld
  <2>2. UNCHANGED <<request, run>> /\ outcome[s] = "none" /\ pc[s] # "idle"
    BY <1>1, <1>6 DEF P!Finish, P!call, Shredding
  <2>3. out \in Output /\ x \in Outcomes \ {"none"}
    BY <1>2, SameOutput DEF Outcomes
  <2> QED BY <2>1, <2>2, <2>3, AnsweredStep
<1>7. CASE P!RemoveVolume(s)
  <2>1. /\ pc[s] # "idle" /\ pc' = [pc EXCEPT ![s] = "idle"]
        /\ UNCHANGED <<request, run, released>>
    BY <1>7 DEF P!RemoveVolume, P!call
  <2>2. PICK x \in {"shred", "TIMEOUT"} : outcome' = [outcome EXCEPT ![s] = x]
    BY <1>7 DEF P!RemoveVolume
  <2>3. x \in Outcomes \ {"none"}
    BY DEF Outcomes
  <2> QED BY <2>1, <2>2, <2>3, ShreddedStep
<1> QED
  BY <1>3, <1>4, <1>5, <1>6, <1>7 DEF P!Advance

\* podman and the container.
LEMMA PodmanHostStep ==
  ASSUME CallInv, NEW s \in Sandboxes, backend[s] = "podman",
         P!Podman(s) \/ P!Shred(s), UNCHANGED backend
  PROVE  CallInv' /\ GateStep
<1>0. backend[s] # None
  BY Layer1Assumption DEF Backends
<1>1. pc[s] \notin {"idle"} \cup Shredding => outcome[s] = "none"
  BY DEF CallInv, CallState
<1>2. run \in [Sandboxes -> [code: Nat, output: Output]]
  BY DEF CallInv, CallType
<1>3. CASE P!PodmanMissing(s)
  <2>1. outcome[s] = "none" /\ pc[s] # "idle"
    BY <1>1, <1>3 DEF P!PodmanMissing, Shredding
  <2>2. PICK x \in {"OSError", "PermissionError"} : P!Raise(s, x)
    BY <1>3 DEF P!PodmanMissing
  <2>3. x \in Outcomes \ {"none"} /\ UNCHANGED <<request, run>>
    BY <1>3 DEF P!PodmanMissing, P!call, Outcomes
  <2> QED BY <2>1, <2>2, <2>3, SameOutput, AnsweredStep DEF P!Raise, P!Return
<1>4. CASE P!ContainerStarts(s)
  BY <1>0, <1>2, <1>4, OnwardStep
  DEF P!ContainerStarts, P!Goto, P!call, Steps, Shredding
<1>5. CASE P!PodmanRefuses(s)
  <2>1. run' \in [Sandboxes -> [code: Nat, output: Output]]
    BY <1>2, <1>5, SameOutput DEF P!PodmanRefuses
  <2> QED BY <1>0, <1>5, <2>1, OnwardStep
      DEF P!PodmanRefuses, P!Goto, P!call, Steps, Shredding
<1>6. ASSUME NEW code \in {0, 1}, NEW output \in Output,
             P!ContainerExits(s, code, output)
      PROVE  CallInv' /\ GateStep
  <2>1. CASE pc[s] = "attached"
    <3>1. run' \in [Sandboxes -> [code: Nat, output: Output]]
      BY <1>2, <1>6, <2>1 DEF P!ContainerExits
    <3> QED BY <1>0, <1>6, <2>1, <3>1, OnwardStep
        DEF P!ContainerExits, P!Goto, P!call, Steps, Shredding
  <2>2. CASE pc[s] # "attached"
    BY <1>2, <1>6, <2>2, HiddenStep DEF P!ContainerExits, P!call, seen
  <2> QED BY <2>1, <2>2
<1>7. CASE P!ShredRaises(s)
  <2>1. PICK x \in {"shred raised", "TimeoutExpired", "OSError", "PermissionError"} :
          outcome' = [outcome EXCEPT ![s] = x]
    BY <1>7 DEF P!ShredRaises
  <2>2. x \in Outcomes \ {"none"}
    BY DEF Outcomes
  <2> QED BY <1>7, <2>1, <2>2, ShreddedStep DEF P!ShredRaises, P!call
<1>8. CASE P!Shred(s)
  <2>1. /\ pc[s] = "idle" /\ pc' = [pc EXCEPT ![s] = "stop"]
        /\ outcome' = [outcome EXCEPT ![s] = "shred"]
        /\ UNCHANGED <<request, released, run>>
    BY <1>8 DEF P!Shred, P!call
  <2>2. CallInv'
    BY <1>0, <2>1 DEF CallInv, CallType, CallState, Steps, Shredding, Outcomes
  <2>3. \A t \in Sandboxes : (pc'[t] # "idle" /\ outcome'[t] = "none") <=>
                             (pc[t] # "idle" /\ outcome[t] = "none")
    BY <2>1 DEF CallInv, CallType
  <2>4. UNCHANGED Gate!vars
    BY <2>1, <2>3 DEF Gate!vars
  <2> QED BY <2>2, <2>4 DEF GateStep
<1>9. CASE P!OutputUndecodable(s)
  <2>1. outcome[s] = "none" /\ pc[s] # "idle" /\ UNCHANGED <<request, run>>
    BY <1>1, <1>9 DEF P!OutputUndecodable, P!call, Shredding
  <2>2. P!Raise(s, "ValueError") /\ "ValueError" \in Outcomes \ {"none"}
    BY <1>9 DEF P!OutputUndecodable, Outcomes
  <2> QED BY <2>1, <2>2, SameOutput, AnsweredStep DEF P!Raise, P!Return
<1> QED
  BY <1>3, <1>4, <1>5, <1>6, <1>7, <1>8, <1>9, SameOutput DEF P!Podman

-----------------------------------------------------------------------------
LEMMA OpenShellStep ==
  ASSUME CallInv, NEW s \in Sandboxes, backend[s] = "openshell",
         O!Submit(s) \/ O!Advance(s) \/ O!Gateway(s), UNCHANGED backend
  PROVE  CallInv' /\ GateStep
<1>0. backend[s] # None
  BY Layer1Assumption DEF Backends
<1>1. pc[s] \notin {"idle"} \cup Shredding => outcome[s] = "none"
  BY DEF CallInv, CallState
<1>2. run \in [Sandboxes -> [code: Nat, output: Output]]
  BY DEF CallInv, CallType
<1>3. ASSUME NEW r \in Requests, O!RefuseArguments(s, r)
      PROVE  CallInv' /\ GateStep
  BY <1>3, RefusedStep, SameOutput DEF O!RefuseArguments, O!Call, O!Raise, O!Return, Outcomes
<1>4. ASSUME NEW r \in Requests, O!RefuseToken(s, r)
      PROVE  CallInv' /\ GateStep
  BY <1>4, RefusedStep, SameOutput DEF O!RefuseToken, O!Call, O!Raise, O!Return, Outcomes
<1>5. ASSUME NEW r \in Requests, O!BlockPayload(s, r)
      PROVE  CallInv' /\ GateStep
  BY <1>5, RefusedStep, SameOutput DEF O!BlockPayload, O!Call, O!Raise, O!Return, Outcomes
<1>6. ASSUME NEW r \in Requests, O!Admit(s, r)
      PROVE  CallInv' /\ GateStep
  BY <1>0, <1>6, AdmittedStep, SameOutput DEF O!Admit, O!Call, O!Blocked, Steps
<1>7. CASE \/ O!BasePolicyMissing(s) \/ O!PolicyUnwritable(s)
           \/ O!CommandMissing(s) \/ O!OutputUndecodable(s) \/ O!CreateTimeout(s)
  <2>1. PICK x \in Outcomes \ {"none"} :
          /\ pc' = [pc EXCEPT ![s] = "idle"]
          /\ outcome' = [outcome EXCEPT ![s] = x]
          /\ released' = [released EXCEPT ![s] = NoOutput]
    BY <1>7, SameOutput
    DEF O!BasePolicyMissing, O!PolicyUnwritable, O!CommandMissing,
        O!OutputUndecodable, O!CreateTimeout, O!Exceptions, O!Raise, O!Return, Outcomes
  <2>2. UNCHANGED <<request, run>> /\ pc[s] \in {"policy", "create"}
    BY <1>7 DEF O!BasePolicyMissing, O!PolicyUnwritable, O!CommandMissing,
                O!OutputUndecodable, O!CreateTimeout
  <2>3. outcome[s] = "none" /\ pc[s] # "idle"
    BY <1>1, <2>2 DEF Shredding
  <2> QED BY <2>1, <2>2, <2>3, SameOutput, AnsweredStep
<1>8. CASE O!WritePolicy(s)
  BY <1>0, <1>2, <1>8, OnwardStep DEF O!WritePolicy, O!Goto, Steps, Shredding
<1>9. CASE O!Finish(s)
  <2>1. /\ run[s].output \in Output
        /\ [run[s].output EXCEPT !.stdout = "none"] \in Output
        /\ [run[s].output EXCEPT !.stdout = "none"].stdout = "none"
    BY <1>2 DEF Output, Kind
  <2>2. PICK x \in {"success", "failure"}, out \in Output :
          /\ pc' = [pc EXCEPT ![s] = "idle"]
          /\ outcome' = [outcome EXCEPT ![s] = x]
          /\ released' = [released EXCEPT ![s] = out]
          /\ out.stdout = "risky" => ~request[s].scan
    BY <1>9, <2>1 DEF O!Finish, O!Return, O!Withheld
  <2>3. UNCHANGED <<request, run>> /\ outcome[s] = "none" /\ pc[s] # "idle"
    BY <1>1, <1>9 DEF O!Finish, Shredding
  <2>4. x \in Outcomes \ {"none"}
    BY DEF Outcomes
  <2> QED BY <2>2, <2>3, <2>4, AnsweredStep
<1>10. ASSUME NEW code \in {0, 1}, NEW output \in Output, O!CommandExits(s, code, output)
       PROVE  CallInv' /\ GateStep
  <2>1. run' \in [Sandboxes -> [code: Nat, output: Output]]
    BY <1>2, <1>10 DEF O!CommandExits
  <2> QED BY <1>0, <1>10, <2>1, OnwardStep
      DEF O!CommandExits, O!Goto, Steps, Shredding
<1>11. CASE O!Submit(s)
  BY <1>3, <1>4, <1>5, <1>6, <1>11 DEF O!Submit
<1>12. CASE O!Advance(s)
  BY <1>7, <1>8, <1>9, <1>12 DEF O!Advance
<1>13. CASE O!Gateway(s)
  BY <1>7, <1>10, <1>13, SameOutput DEF O!Gateway
<1> QED BY <1>11, <1>12, <1>13

-----------------------------------------------------------------------------
(***************************************************************************)
(* The theorems.                                                           *)
(***************************************************************************)
LEMMA CallInitially == Init => CallInv /\ Gate!Init
<1> SUFFICES ASSUME Init PROVE CallInv /\ Gate!Init
  OBVIOUS
<1>1. /\ backend = [s \in Sandboxes |-> None]
      /\ pc = [s \in Sandboxes |-> "idle"]
      /\ request \in [Sandboxes -> Requests]
      /\ run = [s \in Sandboxes |-> [code |-> 0, output |-> NoOutput]]
      /\ outcome = [s \in Sandboxes |-> "none"]
      /\ released = [s \in Sandboxes |-> NoOutput]
  BY SameOutput DEF Init, P!Init
<1>2. CallType
  BY <1>1, SameOutput DEF CallType, Steps, Outcomes
<1>3. \A s \in Sandboxes : CallState(s)
  BY <1>1 DEF CallState
<1>4. Gate!Init
  BY <1>1, SameOutput DEF Gate!Init
<1> QED BY <1>2, <1>3, <1>4 DEF CallInv

LEMMA CallStep == CallInv /\ [Next]_vars => CallInv' /\ GateStep
<1> SUFFICES ASSUME CallInv, [Next]_vars PROVE CallInv' /\ GateStep
  OBVIOUS
<1>1. CASE UNCHANGED vars
  <2>1. run' \in [Sandboxes -> [code: Nat, output: Output]]
    BY <1>1 DEF vars, callVars, CallInv, CallType
  <2> QED BY <1>1, <2>1, HiddenStep DEF vars, callVars, seen
<1>2. ASSUME NEW s \in Sandboxes, CreateSandbox(s)
      PROVE  CallInv' /\ GateStep
  BY <1>2, CreateStep
<1>3. ASSUME NEW s \in Sandboxes, WithPodman(s)
      PROVE  CallInv' /\ GateStep
  BY <1>3, PodmanSubmitStep, PodmanAdvanceStep, PodmanHostStep DEF WithPodman
<1>4. ASSUME NEW s \in Sandboxes, WithOpenShell(s)
      PROVE  CallInv' /\ GateStep
  BY <1>4, OpenShellStep DEF WithOpenShell
<1> QED BY <1>1, <1>2, <1>3, <1>4 DEF Next

\* Type correctness of what a call changes, whichever backend serves it.
THEOREM CallInvariant == Spec => []CallInv
<1> QED BY CallInitially, CallStep, PTL DEF Spec

\* Layer 1 implements the gated task with either backend: deploy_agent and
\* execute_task start only what passes the token and the payload gates, answer
\* each call once, and return a risky stdout only of a call that asked for no
\* scan.  Nothing is stated of stderr, which neither of them scans.
THEOREM Layer1ImplementsGatedTask == Spec => ImplementsGatedTask
<1>1. Init => Gate!Init
  BY CallInitially
<1>2. CallInv /\ [Next]_vars => [Gate!Next]_(Gate!vars)
  BY CallStep DEF GateStep
<1> QED BY <1>1, <1>2, CallInvariant, PTL DEF Spec, ImplementsGatedTask, Gate!Spec

-----------------------------------------------------------------------------
(***************************************************************************)
(* What runs passed the gates.  The gates are looked at one after the      *)
(* other, so what is known of a request grows as its call moves on, and a  *)
(* container keeps it after the call has ended.                            *)
(***************************************************************************)
AllEvents == P!Events \cup O!Events

Started(s) == \E i \in 1..Len(trail[s]) : trail[s][i] = "start"

Admitted == {"profile", "saving", "options", "podman", "attached", "finish"}
Optioned == {"podman", "attached", "finish"}

PassedGates(r) == r.valid /\ r.authorized /\ ~P!Blocked(r)
PassedOptions(r) == r.egress = {} /\ r.envOk

CheckedState(s) ==
  /\ backend[s] = "podman" /\ pc[s] \in Admitted => PassedGates(request[s]) /\ Started(s)
  /\ backend[s] = "podman" /\ pc[s] \in Optioned => PassedOptions(request[s])
  /\ container[s] # None =>
       /\ backend[s] = "podman"
       /\ PassedGates(container[s]) /\ PassedOptions(container[s]) /\ Started(s)

CheckedInv ==
  /\ CallType
  /\ trail \in [Sandboxes -> Seq(AllEvents)]
  /\ DOMAIN container = Sandboxes
  /\ \A s \in Sandboxes : CheckedState(s)

\* The log only grows.
LEMMA LogGrows ==
  ASSUME trail \in [Sandboxes -> Seq(AllEvents)], NEW s \in Sandboxes,
         NEW events \in Seq(AllEvents), trail' = [trail EXCEPT ![s] = @ \o events]
  PROVE  /\ trail' \in [Sandboxes -> Seq(AllEvents)]
         /\ \A t \in Sandboxes : Started(t) => Started(t)'
         /\ (\E i \in 1..Len(events) : events[i] = "start") => Started(s)'
<1> DEFINE old == trail[s]
<1>1. /\ old \in Seq(AllEvents) /\ trail'[s] = old \o events
      /\ \A t \in Sandboxes \ {s} : trail'[t] = trail[t]
  OBVIOUS
<1> HIDE DEF old
<1>2. old \o events \in Seq(AllEvents)
  BY <1>1, ConcatProperties
<1>3. trail' \in [Sandboxes -> Seq(AllEvents)]
  BY <1>1, <1>2
<1>4. /\ Len(old) \in Nat /\ Len(events) \in Nat
      /\ Len(old \o events) = Len(old) + Len(events)
      /\ \A i \in 1..(Len(old) + Len(events)) :
           (old \o events)[i] = IF i <= Len(old) THEN old[i] ELSE events[i - Len(old)]
  BY <1>1, ConcatProperties, LenProperties
<1>5. ASSUME NEW i \in 1..Len(old), old[i] = "start" PROVE Started(s)'
  <2>1. i \in 1..Len(old \o events) /\ (old \o events)[i] = "start"
    BY <1>4, <1>5
  <2> QED BY <1>1, <2>1 DEF Started
<1>6. ASSUME NEW i \in 1..Len(events), events[i] = "start" PROVE Started(s)'
  <2>1. /\ Len(old) + i \in 1..(Len(old) + Len(events))
        /\ ~(Len(old) + i <= Len(old)) /\ (Len(old) + i) - Len(old) = i
    BY <1>4
  <2>2. (old \o events)[Len(old) + i] = events[i]
    BY <1>4, <2>1
  <2> QED BY <1>1, <1>4, <1>6, <2>1, <2>2 DEF Started
<1>7. \A t \in Sandboxes : Started(t) => Started(t)'
  BY <1>1, <1>5 DEF Started, old
<1> QED BY <1>3, <1>6, <1>7

\* A step of a Podman sandbox that passes no gate, and starts nothing.
LEMMA NoGateStep ==
  ASSUME CheckedInv, CallType', NEW s \in Sandboxes, NEW step \in Steps,
         trail' \in [Sandboxes -> Seq(AllEvents)],
         \A t \in Sandboxes : Started(t) => Started(t)',
         pc' = [pc EXCEPT ![s] = step],
         step \in Admitted => pc[s] \in Admitted /\ request'[s] = request[s],
         step \in Optioned => pc[s] \in Optioned,
         \A t \in Sandboxes \ {s} : request'[t] = request[t],
         container' = container \/ container' = [container EXCEPT ![s] = None],
         UNCHANGED backend
  PROVE  CheckedInv'
<1>1. ASSUME NEW t \in Sandboxes PROVE CheckedState(t)'
  <2>1. container'[t] = container[t] \/ container'[t] = None
    BY DEF CheckedInv
  <2>2. /\ t = s => pc'[t] = step
        /\ t # s => pc'[t] = pc[t]
        /\ backend'[t] = backend[t]
    BY DEF CheckedInv, CallType
  <2>3. step \in Optioned => step \in Admitted
    BY DEF Optioned, Admitted
  <2>4. pc'[t] \in Admitted => pc[t] \in Admitted /\ request'[t] = request[t]
    BY <2>2
  <2>5. pc'[t] \in Optioned => pc[t] \in Optioned /\ request'[t] = request[t]
    BY <2>2, <2>3
  <2>6. CheckedState(t) /\ (Started(t) => Started(t)')
    BY DEF CheckedInv
  <2> QED BY <2>1, <2>2, <2>4, <2>5, <2>6 DEF CheckedState
<1>2. DOMAIN container' = Sandboxes
  BY DEF CheckedInv
<1> QED BY <1>1, <1>2 DEF CheckedInv

LEMMA UnloggedKeeps ==
  ASSUME CheckedInv, UNCHANGED trail
  PROVE  /\ trail' \in [Sandboxes -> Seq(AllEvents)]
         /\ \A t \in Sandboxes : Started(t) => Started(t)'
BY DEF CheckedInv, Started

\* A step that passes a gate: the request is the one that is looked at.
LEMMA GateStepKeeps ==
  ASSUME CheckedInv, CallType', NEW s \in Sandboxes,
         trail' \in [Sandboxes -> Seq(AllEvents)],
         \A t \in Sandboxes : Started(t) => Started(t)',
         \A t \in Sandboxes \ {s} : pc'[t] = pc[t] /\ request'[t] = request[t],
         pc'[s] \in Admitted => PassedGates(request'[s]) /\ Started(s)',
         pc'[s] \in Optioned => PassedOptions(request'[s]),
         DOMAIN container' = Sandboxes,
         \A t \in Sandboxes \ {s} : container'[t] = container[t],
         backend[s] = "podman",
         \/ container'[s] = container[s]
         \/ /\ PassedGates(container'[s]) /\ PassedOptions(container'[s])
            /\ Started(s)',
         UNCHANGED backend
  PROVE  CheckedInv'
<1>1. ASSUME NEW t \in Sandboxes, t # s PROVE CheckedState(t)'
  <2>1. /\ pc'[t] = pc[t] /\ request'[t] = request[t] /\ container'[t] = container[t]
        /\ backend'[t] = backend[t]
    BY <1>1
  <2>2. CheckedState(t) /\ (Started(t) => Started(t)')
    BY DEF CheckedInv
  <2> QED BY <2>1, <2>2 DEF CheckedState
<1>2. CheckedState(s)'
  <2>1. CheckedState(s) /\ (Started(s) => Started(s)') /\ backend'[s] = backend[s]
    BY DEF CheckedInv
  <2> QED BY <2>1 DEF CheckedState
<1> QED BY <1>1, <1>2 DEF CheckedInv

LEMMA PodmanSubmitChecked ==
  ASSUME CheckedInv, CallType', NEW s \in Sandboxes, backend[s] = "podman",
         P!Submit(s), UNCHANGED backend
  PROVE  CheckedInv'
<1>1. PICK r \in Requests : \/ P!RefuseArguments(s, r) \/ P!RefuseToken(s, r)
                            \/ P!BlockPayload(s, r) \/ P!Admit(s, r)
  BY DEF P!Submit
<1>2. /\ request' = [request EXCEPT ![s] = r] /\ UNCHANGED container
  BY <1>1 DEF P!RefuseArguments, P!RefuseToken, P!BlockPayload, P!Admit, P!Call, P!host
<1>3. /\ request'[s] = r
      /\ \A t \in Sandboxes \ {s} : request'[t] = request[t]
  BY <1>2 DEF CheckedInv, CallType
<1>4. ASSUME pc' = [pc EXCEPT ![s] = "idle"],
             \/ UNCHANGED trail
             \/ \E events \in Seq(AllEvents) : trail' = [trail EXCEPT ![s] = @ \o events]
      PROVE  CheckedInv'
  <2>1. /\ trail' \in [Sandboxes -> Seq(AllEvents)]
        /\ \A t \in Sandboxes : Started(t) => Started(t)'
    BY <1>4, LogGrows, UnloggedKeeps DEF CheckedInv
  <2>2. "idle" \in Steps /\ "idle" \notin Admitted /\ "idle" \notin Optioned
    BY DEF Steps, Admitted, Optioned
  <2> QED BY <1>2, <1>3, <1>4, <2>1, <2>2, NoGateStep
<1>5. CASE P!RefuseArguments(s, r)
  BY <1>4, <1>5 DEF P!RefuseArguments, P!Raise, P!Return
<1>6. CASE P!RefuseToken(s, r)
  <2>1. <<"auth_failure">> \in Seq(AllEvents)
    BY DEF AllEvents, P!Events
  <2> QED BY <1>4, <1>6, <2>1 DEF P!RefuseToken, P!Raise, P!Return, P!Log
<1>7. CASE P!BlockPayload(s, r)
  <2>1. <<"start", "injection_blocked">> \in Seq(AllEvents)
    BY DEF AllEvents, P!Events
  <2> QED BY <1>4, <1>7, <2>1 DEF P!BlockPayload, P!Raise, P!Return, P!Log
<1>8. CASE P!Admit(s, r)
  <2>1. <<"start">> \in Seq(AllEvents) /\ <<"start">>[1] = "start" /\ Len(<<"start">>) = 1
    BY DEF AllEvents, P!Events
  <2>2. trail' = [trail EXCEPT ![s] = @ \o <<"start">>]
    BY <1>8 DEF P!Admit, P!Log
  <2>3. /\ trail' \in [Sandboxes -> Seq(AllEvents)]
        /\ \A t \in Sandboxes : Started(t) => Started(t)'
        /\ Started(s)'
    <3>1. \E i \in 1..Len(<<"start">>) : <<"start">>[i] = "start"
      BY <2>1
    <3>2. trail \in [Sandboxes -> Seq(AllEvents)] /\ <<"start">> \in Seq(AllEvents)
      BY <2>1 DEF CheckedInv
    <3> DEFINE events == <<"start">>
    <3>3. /\ events \in Seq(AllEvents) /\ trail' = [trail EXCEPT ![s] = @ \o events]
          /\ \E i \in 1..Len(events) : events[i] = "start"
      BY <2>2, <3>1, <3>2
    <3> HIDE DEF events
    <3> QED BY <3>2, <3>3, LogGrows
  <2>4. PassedGates(r)
    BY <1>8 DEF P!Admit, PassedGates
  <2>5. pc'[s] = "profile" /\ \A t \in Sandboxes \ {s} : pc'[t] = pc[t]
    BY <1>8 DEF P!Admit, CheckedInv, CallType
  <2>6. pc'[s] \notin Optioned
    BY <2>5 DEF Optioned
  <2>7. DOMAIN container' = Sandboxes
    BY <1>2 DEF CheckedInv
  <2> QED BY <1>2, <1>3, <2>3, <2>4, <2>5, <2>6, <2>7, GateStepKeeps
<1> QED BY <1>1, <1>5, <1>6, <1>7, <1>8

LEMMA PodmanAdvanceChecked ==
  ASSUME CheckedInv, CallType', NEW s \in Sandboxes, backend[s] = "podman",
         P!Advance(s), UNCHANGED backend
  PROVE  CheckedInv'
<1>0. UNCHANGED request
  BY DEF P!Advance, P!ReuseProfile, P!ProfileFails, P!OpenProfile, P!SaveProfile,
         P!SaveFails, P!ApplyEgressRules, P!RefuseEnvironment, P!Launch, P!EmbeddedNul,
         P!RunTimeout, P!Finish, P!Stop, P!ForceRemove, P!RemoveVolume, P!call
<1>1. CASE P!Launch(s)
  <2>1. /\ pc[s] = "options" /\ PassedOptions(request[s])
        /\ pc' = [pc EXCEPT ![s] = "podman"] /\ UNCHANGED <<trail, container>>
    BY <1>1 DEF P!Launch, P!Goto, P!host, PassedOptions
  <2>2. /\ trail' \in [Sandboxes -> Seq(AllEvents)]
        /\ \A t \in Sandboxes : Started(t) => Started(t)'
    BY <2>1, UnloggedKeeps
  <2>3. PassedGates(request[s]) /\ Started(s)
    BY <2>1 DEF CheckedInv, CheckedState, Admitted
  <2>4. \A t \in Sandboxes \ {s} : pc'[t] = pc[t]
    BY <2>1 DEF CheckedInv, CallType
  <2>5. DOMAIN container' = Sandboxes
    BY <2>1 DEF CheckedInv
  <2> QED BY <1>0, <2>1, <2>2, <2>3, <2>4, <2>5, GateStepKeeps
<1>2. CASE P!ReuseProfile(s) \/ P!OpenProfile(s) \/ P!SaveProfile(s)
  <2>1. PICK step \in {"options", "saving"} : pc' = [pc EXCEPT ![s] = step]
    BY <1>2 DEF P!ReuseProfile, P!OpenProfile, P!SaveProfile, P!Goto
  <2>2. pc[s] \in {"profile", "saving"} /\ UNCHANGED <<trail, container>>
    BY <1>2 DEF P!ReuseProfile, P!OpenProfile, P!SaveProfile, P!host
  <2>3. step \in Steps /\ pc[s] \in Admitted /\ step \notin Optioned
    BY <2>2 DEF Steps, Admitted, Optioned
  <2> QED BY <1>0, <2>1, <2>2, <2>3, UnloggedKeeps, NoGateStep
<1>3. CASE \/ P!ProfileFails(s) \/ P!SaveFails(s) \/ P!ApplyEgressRules(s)
           \/ P!RefuseEnvironment(s) \/ P!EmbeddedNul(s) \/ P!RunTimeout(s)
           \/ P!Stop(s) \/ P!ForceRemove(s) \/ P!RemoveVolume(s)
  <2>1. PICK step \in {"idle", "stop", "rm", "volume"} : pc' = [pc EXCEPT ![s] = step]
    BY <1>3 DEF P!ProfileFails, P!SaveFails, P!ApplyEgressRules, P!RefuseEnvironment,
                P!EmbeddedNul, P!RunTimeout, P!Stop, P!ForceRemove, P!RemoveVolume,
                P!Goto, P!Raise, P!Return
  <2>2. /\ UNCHANGED trail
        /\ container' = container \/ container' = [container EXCEPT ![s] = None]
    BY <1>3 DEF P!ProfileFails, P!SaveFails, P!ApplyEgressRules, P!RefuseEnvironment,
                P!EmbeddedNul, P!RunTimeout, P!Stop, P!ForceRemove, P!RemoveVolume,
                P!PodmanEnds, P!host
  <2>3. step \in Steps /\ step \notin Admitted /\ step \notin Optioned
    BY DEF Steps, Admitted, Optioned
  <2> QED BY <1>0, <2>1, <2>2, <2>3, UnloggedKeeps, NoGateStep
<1>4. CASE P!Finish(s)
  <2>1. pc' = [pc EXCEPT ![s] = "idle"] /\ UNCHANGED container
    BY <1>4 DEF P!Finish, P!Return, P!host
  <2>2. PICK events \in {<<"exfil_blocked">>, <<"complete">>} :
          trail' = [trail EXCEPT ![s] = @ \o events]
    BY <1>4 DEF P!Finish, P!Log
  <2>3. events \in Seq(AllEvents)
    <3>1. <<"exfil_blocked">> \in Seq(AllEvents) /\ <<"complete">> \in Seq(AllEvents)
      BY DEF AllEvents, P!Events
    <3> QED BY <3>1
  <2>4. /\ trail' \in [Sandboxes -> Seq(AllEvents)]
        /\ \A t \in Sandboxes : Started(t) => Started(t)'
    BY <2>2, <2>3, LogGrows DEF CheckedInv
  <2>5. "idle" \in Steps /\ "idle" \notin Admitted /\ "idle" \notin Optioned
    BY DEF Steps, Admitted, Optioned
  <2> QED BY <1>0, <2>1, <2>4, <2>5, NoGateStep
<1> QED BY <1>1, <1>2, <1>3, <1>4 DEF P!Advance

LEMMA PodmanHostChecked ==
  ASSUME CheckedInv, CallType', NEW s \in Sandboxes, backend[s] = "podman",
         P!Podman(s) \/ P!Shred(s), UNCHANGED backend
  PROVE  CheckedInv'
<1>1. CASE \/ P!PodmanMissing(s) \/ P!OutputUndecodable(s)
           \/ P!ShredRaises(s) \/ P!Shred(s)
  <2>1. PICK step \in {"idle", "stop"} : pc' = [pc EXCEPT ![s] = step]
    BY <1>1 DEF P!PodmanMissing, P!OutputUndecodable, P!ShredRaises, P!Shred, P!Raise,
                P!Return
  <2>2. /\ UNCHANGED <<request, trail>>
        /\ container' = container \/ container' = [container EXCEPT ![s] = None]
    BY <1>1 DEF P!PodmanMissing, P!OutputUndecodable, P!ShredRaises, P!Shred, P!call,
                P!host
  <2>3. step \in Steps /\ step \notin Admitted /\ step \notin Optioned
    BY DEF Steps, Admitted, Optioned
  <2> QED BY <2>1, <2>2, <2>3, UnloggedKeeps, NoGateStep
<1>2. CASE P!PodmanRefuses(s)
  <2>1. /\ pc[s] = "podman" /\ pc' = [pc EXCEPT ![s] = "finish"]
        /\ UNCHANGED <<request, trail, container>>
    BY <1>2 DEF P!PodmanRefuses, P!Goto, P!call, P!host
  <2>2. "finish" \in Steps /\ pc[s] \in Admitted /\ pc[s] \in Optioned
    BY <2>1 DEF Steps, Admitted, Optioned
  <2> QED BY <2>1, <2>2, UnloggedKeeps, NoGateStep
<1>3. CASE P!ContainerStarts(s)
  <2>1. /\ pc[s] = "podman" /\ pc' = [pc EXCEPT ![s] = "attached"]
        /\ UNCHANGED <<request, trail>>
        /\ container' = [container EXCEPT ![s] = request[s]]
    BY <1>3 DEF P!ContainerStarts, P!Goto, P!call
  <2>2. /\ trail' \in [Sandboxes -> Seq(AllEvents)]
        /\ \A t \in Sandboxes : Started(t) => Started(t)'
    BY <2>1, UnloggedKeeps
  <2>3. PassedGates(request[s]) /\ Started(s) /\ PassedOptions(request[s])
    BY <2>1 DEF CheckedInv, CheckedState, Admitted, Optioned
  <2>4. \A t \in Sandboxes \ {s} : pc'[t] = pc[t] /\ container'[t] = container[t]
    BY <2>1 DEF CheckedInv, CallType
  <2>5. DOMAIN container' = Sandboxes /\ container'[s] = request[s]
    BY <2>1 DEF CheckedInv
  <2> QED BY <2>1, <2>2, <2>3, <2>4, <2>5, GateStepKeeps
<1>4. ASSUME NEW code \in {0, 1}, NEW output \in P!Output,
             P!ContainerExits(s, code, output)
      PROVE  CheckedInv'
  <2>1. UNCHANGED <<request, trail>> /\ container' = [container EXCEPT ![s] = None]
    BY <1>4 DEF P!ContainerExits, P!call
  <2>2. CASE pc[s] = "attached"
    <3>1. pc' = [pc EXCEPT ![s] = "finish"]
      BY <1>4, <2>2 DEF P!ContainerExits, P!Goto
    <3>2. "finish" \in Steps /\ pc[s] \in Admitted /\ pc[s] \in Optioned
      BY <2>2 DEF Steps, Admitted, Optioned
    <3> QED BY <2>1, <3>1, <3>2, UnloggedKeeps, NoGateStep
  <2>3. CASE pc[s] # "attached"
    <3>1. pc' = [pc EXCEPT ![s] = pc[s]] /\ pc[s] \in Steps
      BY <1>4, <2>3 DEF P!ContainerExits, CheckedInv, CallType
    <3> QED BY <2>1, <3>1, UnloggedKeeps, NoGateStep
  <2> QED BY <2>2, <2>3
<1> QED BY <1>1, <1>2, <1>3, <1>4 DEF P!Podman

LEMMA OpenShellChecked ==
  ASSUME CheckedInv, CallType', NEW s \in Sandboxes, backend[s] = "openshell",
         O!Submit(s) \/ O!Advance(s) \/ O!Gateway(s), UNCHANGED <<backend, podmanOnly>>
  PROVE  CheckedInv'
<1> DEFINE OthersKept ==
             /\ trail' \in [Sandboxes -> Seq(AllEvents)]
             /\ \A t \in Sandboxes \ {s} :
                  pc'[t] = pc[t] /\ request'[t] = request[t] /\ trail'[t] = trail[t]
<1>1. OthersKept
  <2>0. CallType /\ trail \in [Sandboxes -> Seq(AllEvents)]
    BY DEF CheckedInv
  <2>1. ASSUME NEW r \in Requests,
               \/ O!RefuseArguments(s, r) \/ O!RefuseToken(s, r)
               \/ O!BlockPayload(s, r) \/ O!Admit(s, r)
        PROVE  OthersKept
    <3>1. /\ request' = [request EXCEPT ![s] = r]
          /\ pc' = [pc EXCEPT ![s] = "idle"] \/ pc' = [pc EXCEPT ![s] = "policy"]
      BY <2>1 DEF O!RefuseArguments, O!RefuseToken, O!BlockPayload, O!Admit, O!Call,
                  O!Raise, O!Return
    <3>2. PICK events \in {<<>>, <<"auth_failure">>, <<"injection_blocked">>} :
            trail' = [trail EXCEPT ![s] = events]
      BY <2>1 DEF O!RefuseArguments, O!RefuseToken, O!BlockPayload, O!Admit, O!Call
    <3>3. /\ <<>> \in Seq(AllEvents) /\ <<"auth_failure">> \in Seq(AllEvents)
          /\ <<"injection_blocked">> \in Seq(AllEvents)
      BY DEF AllEvents, O!Events
    <3>4. events \in Seq(AllEvents)
      BY <3>3
    <3>5. \A t \in Sandboxes \ {s} : pc'[t] = pc[t] /\ request'[t] = request[t]
      BY <2>0, <3>1 DEF CallType
    <3> QED BY <2>0, <3>2, <3>4, <3>5
  <2>2. ASSUME NEW step, pc' = [pc EXCEPT ![s] = step],
               UNCHANGED request,
               \/ UNCHANGED trail
               \/ \E events \in Seq(AllEvents) : trail' = [trail EXCEPT ![s] = @ \o events]
        PROVE  OthersKept
    <3>1. trail' \in [Sandboxes -> Seq(AllEvents)]
      BY <2>0, <2>2, LogGrows
    <3>2. \A t \in Sandboxes \ {s} : trail'[t] = trail[t]
      BY <2>0, <2>2
    <3> QED BY <2>0, <2>2, <3>1, <3>2 DEF CallType
  <2>3. CASE \/ O!BasePolicyMissing(s) \/ O!PolicyUnwritable(s)
             \/ O!CommandMissing(s) \/ O!OutputUndecodable(s)
    BY <2>2, <2>3 DEF O!BasePolicyMissing, O!PolicyUnwritable, O!CommandMissing,
                      O!OutputUndecodable, O!Raise, O!Return
  <2>4. CASE O!WritePolicy(s)
    <3>1. <<"start">> \in Seq(AllEvents)
      BY DEF AllEvents, O!Events
    <3> QED BY <2>2, <2>4, <3>1 DEF O!WritePolicy, O!Goto, O!Log
  <2>5. CASE O!CreateTimeout(s)
    <3>1. <<"timeout">> \in Seq(AllEvents)
      BY DEF AllEvents, O!Events
    <3> QED BY <2>2, <2>5, <3>1 DEF O!CreateTimeout, O!Return, O!Log
  <2>6. CASE O!Finish(s)
    <3>1. <<"exfil_blocked", "finish">> \in Seq(AllEvents) /\ <<"finish">> \in Seq(AllEvents)
      BY DEF AllEvents, O!Events
    <3>2. PICK events \in {<<"exfil_blocked", "finish">>, <<"finish">>} :
            trail' = [trail EXCEPT ![s] = @ \o events]
      BY <2>6 DEF O!Finish, O!Log
    <3>3. events \in Seq(AllEvents)
      BY <3>1
    <3> QED BY <2>2, <2>6, <3>2, <3>3 DEF O!Finish, O!Return
  <2>7. ASSUME NEW code \in {0, 1}, NEW output \in O!Output, O!CommandExits(s, code, output)
        PROVE  OthersKept
    BY <2>2, <2>7 DEF O!CommandExits, O!Goto
  <2> QED
    BY <2>1, <2>3, <2>4, <2>5, <2>6, <2>7 DEF O!Submit, O!Advance, O!Gateway
<1>2. UNCHANGED <<backend, container>>
  BY DEF podmanOnly
<1>3. ASSUME NEW t \in Sandboxes, t # s PROVE CheckedState(t)'
  <2>1. CheckedState(t)
    BY DEF CheckedInv
  <2>2. Started(t) => Started(t)'
    BY <1>1, <1>3 DEF Started
  <2>3. pc'[t] = pc[t] /\ request'[t] = request[t]
    BY <1>1, <1>3
  <2> QED BY <1>2, <2>1, <2>2, <2>3 DEF CheckedState
<1>4. CheckedState(s)'
  <2>1. backend'[s] # "podman" /\ container'[s] = None
    BY <1>2 DEF CheckedInv, CheckedState
  <2> QED BY <2>1 DEF CheckedState
<1> QED BY <1>1, <1>2, <1>3, <1>4 DEF CheckedInv

LEMMA CreateChecked ==
  ASSUME CheckedInv, CallInv, CallType', NEW s \in Sandboxes, CreateSandbox(s)
  PROVE  CheckedInv'
<1>1. /\ backend[s] = None
      /\ UNCHANGED <<pc, request, trail, container>>
  BY DEF CreateSandbox, Create, CreateRefused, podmanOnly
<1>2. \A t \in Sandboxes \ {s} : backend'[t] = backend[t]
  BY DEF CreateSandbox, Create, CreateRefused, CallInv, CallType
<1>3. pc[s] = "idle" /\ container[s] = None
  BY <1>1, Layer1Assumption DEF CallInv, CallState, CheckedInv, CheckedState, Backends
<1>4. CheckedState(s)'
  BY <1>1, <1>3 DEF CheckedState, Admitted, Optioned
<1>5. ASSUME NEW t \in Sandboxes, t # s PROVE CheckedState(t)'
  BY <1>1, <1>2, <1>5 DEF CheckedInv, CheckedState, Started
<1> QED BY <1>1, <1>4, <1>5 DEF CheckedInv

LEMMA CheckedInitially == Init => CheckedInv
<1> SUFFICES ASSUME Init PROVE CheckedInv
  OBVIOUS
<1>1. /\ pc = [s \in Sandboxes |-> "idle"]
      /\ trail = [s \in Sandboxes |-> <<>>]
      /\ container = [s \in Sandboxes |-> None]
  BY DEF Init, P!Init
<1>2. CallType
  BY CallInitially DEF CallInv
<1>3. trail \in [Sandboxes -> Seq(AllEvents)]
  BY <1>1, EmptySeq
<1>4. \A s \in Sandboxes : CheckedState(s)
  BY <1>1 DEF CheckedState, Admitted, Optioned
<1> QED BY <1>1, <1>2, <1>3, <1>4 DEF CheckedInv

LEMMA CheckedStep == CheckedInv /\ CallInv /\ [Next]_vars => CheckedInv'
<1> SUFFICES ASSUME CheckedInv, CallInv, [Next]_vars PROVE CheckedInv'
  OBVIOUS
<1>0. CallType'
  BY CallStep DEF CallInv
<1>1. CASE UNCHANGED vars
  BY <1>1 DEF vars, callVars, podmanOnly, CheckedInv, CheckedState, CallType, Started
<1>2. ASSUME NEW s \in Sandboxes, CreateSandbox(s) PROVE CheckedInv'
  BY <1>0, <1>2, CreateChecked
<1>3. ASSUME NEW s \in Sandboxes, WithPodman(s) PROVE CheckedInv'
  BY <1>0, <1>3, PodmanSubmitChecked, PodmanAdvanceChecked, PodmanHostChecked
  DEF WithPodman
<1>4. ASSUME NEW s \in Sandboxes, WithOpenShell(s) PROVE CheckedInv'
  BY <1>0, <1>4, OpenShellChecked DEF WithOpenShell
<1> QED BY <1>1, <1>2, <1>3, <1>4 DEF Next

\* A container on the host, also one that an answered or timed-out call left
\* behind, runs a request that passed every gate, and its start is in the
\* audit log: for any number of sandboxes, calls and failures of podman.
THEOREM OnlyCheckedEverRun == Spec => []OnlyCheckedRequestsRun
<1>1. CheckedInv => OnlyCheckedRequestsRun
  <2> SUFFICES ASSUME CheckedInv, NEW s \in Sandboxes, container[s] # None
               PROVE  /\ container[s].valid /\ container[s].authorized
                      /\ container[s].envOk /\ container[s].egress = {}
                      /\ ~P!Blocked(container[s])
                      /\ \E i \in 1..Len(trail[s]) : trail[s][i] = "start"
    BY DEF OnlyCheckedRequestsRun, P!OnlyCheckedRequestsRun
  <2> QED BY DEF CheckedInv, CheckedState, PassedGates, PassedOptions, Started
<1> QED BY <1>1, CheckedInitially, CheckedStep, CallInvariant, PTL DEF Spec
-----------------------------------------------------------------------------
(***************************************************************************)
(* How a call was answered.  What the caller gets, what the log says and   *)
(* what is left on the host are written by different steps; each of them   *)
(* is tied here to where the call is.                                      *)
(***************************************************************************)
Refusal == {"ValueError", "PermissionError"}
OfShred == {"shred", "shred raised"}

\* The Podman backend: one log for all calls of the object.  A call that has
\* not been answered passed the gates, has logged its start and nothing since.
PodmanAnswer(s) ==
  LET last == P!Last(trail[s])
      r == request[s]
  IN /\ pc[s] # "idle" => outcome[s] \in {"none", "shred"}
     /\ pc[s] # "idle" /\ outcome[s] = "none" => last = "start" /\ ~Refused(r)
     /\ released[s] # NoOutput => last = "complete"
     /\ outcome[s] \notin {"none"} \cup OfShred =>
          /\ ~r.valid => outcome[s] = "ValueError"
          /\ r.valid /\ ~r.authorized =>
               outcome[s] = "PermissionError" /\ last = "auth_failure"
          /\ r.valid /\ r.authorized /\ Blocked(r) =>
               outcome[s] = "ValueError" /\ last = "injection_blocked"
          /\ ~Refused(r) =>
               last = IF outcome[s] \notin {"COMPLETED", "FAILED"} THEN "start"
                      ELSE IF P!Withheld(s) THEN "exfil_blocked" ELSE "complete"
          /\ outcome[s] \notin {"COMPLETED", "FAILED"} => released[s] = NoOutput

\* The OpenShell backend: the log is that of the call.
OpenShellAnswer(s) ==
  LET r == request[s]
  IN /\ pc[s] \in {"idle", "policy", "create", "finish"}
     /\ pc[s] # "idle" => outcome[s] = "none" /\ ~Refused(r)
     /\ pc[s] = "policy" => trail[s] = <<>>
     /\ pc[s] \in {"create", "finish"} => trail[s] = <<"start">>
     /\ outcome[s] = "timeout" => trail[s] = <<"start", "timeout">> /\ ~Refused(r)
     /\ outcome[s] = "success" =>
          /\ trail[s] = <<"start", "finish">> /\ run[s].code = 0
          /\ ~O!Withheld(s) /\ ~Refused(r)
     /\ outcome[s] = "failure" =>
          /\ trail[s] = IF O!Withheld(s) THEN <<"start", "exfil_blocked", "finish">>
                        ELSE <<"start", "finish">>
          /\ O!Withheld(s) => released[s].stdout = "none"
          /\ ~Refused(r)
     /\ outcome[s] \notin {"none", "timeout", "success", "failure"} =>
          /\ released[s] = NoOutput
          /\ Refused(r) => outcome[s] \in Refusal
          /\ ~r.valid => trail[s] = <<>>
          /\ r.valid /\ ~r.authorized => trail[s] = <<"auth_failure">>
          /\ r.valid /\ r.authorized /\ Blocked(r) => trail[s] = <<"injection_blocked">>
          /\ ~Refused(r) => trail[s] \in {<<>>, <<"start">>}

\* The host: a stop that failed has been counted, and rm -f is still to come.
HostAnswer(s) ==
  LET gone(n) == container[s] = None \/ failures[s] >= n
  IN /\ pc[s] = "finish" /\ run[s].code = 0 => container[s] = None
     /\ pc[s] = "rm" => gone(1)
     /\ pc[s] = "volume" => gone(2)
     /\ pc[s] = "idle" /\ outcome[s] = "COMPLETED" => container[s] = None
     /\ pc[s] = "idle" /\ outcome[s] \in {"TIMEOUT", "shred"} => gone(2)

AnswerState(s) ==
  /\ backend[s] = None => released[s] = NoOutput
  /\ backend[s] = "podman" => PodmanAnswer(s)
  /\ backend[s] = "openshell" => OpenShellAnswer(s)
  /\ HostAnswer(s)

AnswerInv ==
  /\ failures \in [Sandboxes -> Nat]
  /\ \A s \in Sandboxes : AnswerState(s)

\* A step of one sandbox leaves what is known of the others.
OthersKept(s) ==
  \A t \in Sandboxes \ {s} :
    /\ backend'[t] = backend[t] /\ pc'[t] = pc[t] /\ request'[t] = request[t]
    /\ trail'[t] = trail[t] /\ run'[t] = run[t] /\ outcome'[t] = outcome[t]
    /\ released'[t] = released[t] /\ container'[t] = container[t]
    /\ failures'[t] = failures[t]

LEMMA OneAnswer ==
  ASSUME AnswerInv, NEW s \in Sandboxes, failures' \in [Sandboxes -> Nat],
         OthersKept(s), AnswerState(s)'
  PROVE  AnswerInv'
<1>1. ASSUME NEW t \in Sandboxes \ {s} PROVE AnswerState(t)'
  <2>1. AnswerState(t)
    BY DEF AnswerInv
  <2>2. PodmanAnswer(t) => PodmanAnswer(t)'
    BY DEF OthersKept, PodmanAnswer, P!Withheld
  <2>3. OpenShellAnswer(t) => OpenShellAnswer(t)'
    BY DEF OthersKept, OpenShellAnswer, O!Withheld
  <2>4. HostAnswer(t) => HostAnswer(t)'
    BY DEF OthersKept, HostAnswer
  <2> QED BY <2>1, <2>2, <2>3, <2>4 DEF OthersKept, AnswerState
<1> QED BY <1>1 DEF AnswerInv

\* The last event of a log is the last one that was logged.
LEMMA LastLogged ==
  ASSUME NEW old \in Seq(AllEvents), NEW a \in AllEvents, NEW b \in AllEvents
  PROVE  /\ P!Last(old \o <<a>>) = a
         /\ P!Last(old \o <<b, a>>) = a
<1>1. ASSUME NEW events \in Seq(AllEvents), events # <<>>
      PROVE  P!Last(old \o events) = events[Len(events)]
  <2>1. /\ Len(old \o events) = Len(old) + Len(events)
        /\ Len(old) \in Nat /\ Len(events) \in Nat /\ Len(events) > 0
    BY <1>1, ConcatProperties, LenProperties, EmptySeq
  <2>2. (old \o events)[Len(old) + Len(events)] = events[Len(events)]
    BY <2>1, ConcatProperties
  <2>3. old \o events # <<>>
    BY <2>1, EmptySeq
  <2> QED BY <2>1, <2>2, <2>3 DEF P!Last
<1>2. <<a>> \in Seq(AllEvents) /\ <<a>> # <<>> /\ <<a>>[Len(<<a>>)] = a
  OBVIOUS
<1>3. <<b, a>> \in Seq(AllEvents) /\ <<b, a>> # <<>> /\ <<b, a>>[Len(<<b, a>>)] = a
  OBVIOUS
<1>4. P!Last(old \o <<a>>) = a
  <2> DEFINE events == <<a>>
  <2>1. events \in Seq(AllEvents) /\ events # <<>> /\ events[Len(events)] = a
    BY <1>2
  <2> HIDE DEF events
  <2>2. P!Last(old \o events) = a
    BY <1>1, <2>1
  <2> QED BY <2>2 DEF events
<1>5. P!Last(old \o <<b, a>>) = a
  <2> DEFINE events == <<b, a>>
  <2>1. events \in Seq(AllEvents) /\ events # <<>> /\ events[Len(events)] = a
    BY <1>3
  <2> HIDE DEF events
  <2>2. P!Last(old \o events) = a
    BY <1>1, <2>1
  <2> QED BY <2>2 DEF events
<1> QED BY <1>4, <1>5

\* The three invariants together, from which each step keeps the last one.
Layer1Inv == AnswerInv /\ CallInv /\ CheckedInv

\* What holds of the sandbox that moves.
LEMMA OfOne ==
  ASSUME Layer1Inv, NEW s \in Sandboxes
  PROVE  /\ AnswerState(s) /\ CallState(s) /\ CheckedState(s)
         /\ backend \in [Sandboxes -> Backends \cup {None}]
         /\ pc \in [Sandboxes -> Steps]
         /\ request \in [Sandboxes -> Requests]
         /\ run \in [Sandboxes -> [code: Nat, output: Output]]
         /\ outcome \in [Sandboxes -> Outcomes]
         /\ released \in [Sandboxes -> Output]
         /\ trail \in [Sandboxes -> Seq(AllEvents)]
         /\ DOMAIN container = Sandboxes
         /\ failures \in [Sandboxes -> Nat]
BY DEF Layer1Inv, AnswerInv, CallInv, CheckedInv, CallType

LEMMA PodmanSubmitAnswer ==
  ASSUME Layer1Inv, NEW s \in Sandboxes, backend[s] = "podman", P!Submit(s),
         UNCHANGED backend
  PROVE  AnswerInv'
<1>0. backend[s] # None /\ backend[s] # "openshell"
  BY Layer1Assumption DEF Backends
<1>1. PICK r \in Requests : \/ P!RefuseArguments(s, r) \/ P!RefuseToken(s, r)
                            \/ P!BlockPayload(s, r) \/ P!Admit(s, r)
  BY DEF P!Submit
<1>2. /\ request' = [request EXCEPT ![s] = r] /\ pc[s] = "idle"
      /\ UNCHANGED <<container, failures, run>>
  BY <1>1 DEF P!RefuseArguments, P!RefuseToken, P!BlockPayload, P!Admit, P!Call, P!host
<1>3. PICK step \in {"idle", "profile"}, x \in {"none"} \cup Refusal :
         /\ pc' = [pc EXCEPT ![s] = step]
         /\ outcome' = [outcome EXCEPT ![s] = x]
         /\ released' = [released EXCEPT ![s] = NoOutput]
         /\ step = "idle" => x # "none" /\ Refused(r)
         /\ step = "profile" =>
              /\ x = "none" /\ ~Refused(r)
              /\ trail' = [trail EXCEPT ![s] = @ \o <<"start">>]
         /\ ~r.valid => x = "ValueError"
         /\ r.valid /\ ~r.authorized =>
              /\ x = "PermissionError"
              /\ trail' = [trail EXCEPT ![s] = @ \o <<"auth_failure">>]
         /\ r.valid /\ r.authorized /\ Blocked(r) =>
              /\ x = "ValueError"
              /\ trail' = [trail EXCEPT ![s] = @ \o <<"start", "injection_blocked">>]
  <2>1. CASE P!RefuseArguments(s, r)
    BY <2>1, SameOutput DEF P!RefuseArguments, P!Raise, P!Return, Refused, Refusal
  <2>2. CASE P!RefuseToken(s, r)
    BY <2>2, SameOutput DEF P!RefuseToken, P!Raise, P!Return, P!Log, Refused, Refusal
  <2>3. CASE P!BlockPayload(s, r)
    BY <2>3, SameOutput
    DEF P!BlockPayload, P!Raise, P!Return, P!Log, Refused, Refusal, P!Blocked, Blocked
  <2>4. CASE P!Admit(s, r)
    BY <2>4, SameOutput DEF P!Admit, P!Log, Refused, P!Blocked, Blocked
  <2> QED BY <1>1, <2>1, <2>2, <2>3, <2>4
<1>4. /\ pc'[s] = step /\ outcome'[s] = x /\ released'[s] = NoOutput
      /\ request'[s] = r /\ container'[s] = container[s]
      /\ step = "profile" => trail'[s] = trail[s] \o <<"start">>
      /\ r.valid /\ ~r.authorized => trail'[s] = trail[s] \o <<"auth_failure">>
      /\ r.valid /\ r.authorized /\ Blocked(r)
           => trail'[s] = trail[s] \o <<"start", "injection_blocked">>
  BY <1>2, <1>3, OfOne
<1>5. OthersKept(s)
  <2>1. /\ UNCHANGED <<backend, run, container, failures>>
        /\ \A t \in Sandboxes \ {s} :
             /\ pc'[t] = pc[t] /\ request'[t] = request[t]
             /\ outcome'[t] = outcome[t] /\ released'[t] = released[t]
    BY <1>2, <1>3, OfOne
  <2>2. \A t \in Sandboxes \ {s} : trail'[t] = trail[t]
    BY <1>1, OfOne DEF P!RefuseArguments, P!RefuseToken, P!BlockPayload, P!Admit, P!Log
  <2> QED BY <2>1, <2>2 DEF OthersKept
<1>6. PodmanAnswer(s)'
  <2>1. /\ step = "profile" => P!Last(trail'[s]) = "start"
        /\ r.valid /\ ~r.authorized => P!Last(trail'[s]) = "auth_failure"
        /\ r.valid /\ r.authorized /\ Blocked(r) => P!Last(trail'[s]) = "injection_blocked"
    <3>1. /\ {"auth_failure", "start", "injection_blocked"} \subseteq AllEvents
          /\ trail[s] \in Seq(AllEvents)
      BY OfOne DEF AllEvents, P!Events
    <3>2. /\ P!Last(trail[s] \o <<"start">>) = "start"
          /\ P!Last(trail[s] \o <<"auth_failure">>) = "auth_failure"
          /\ P!Last(trail[s] \o <<"start", "injection_blocked">>) = "injection_blocked"
      BY <3>1, LastLogged
    <3> QED BY <1>4, <3>2
  <2>2. x \in {"none", "ValueError", "PermissionError"}
    BY <1>3 DEF Refusal
  <2> QED BY <1>3, <1>4, <2>1, <2>2 DEF PodmanAnswer, OfShred
<1>7. HostAnswer(s)'
  <2>1. step \notin {"finish", "rm", "volume"} /\ x \notin {"COMPLETED", "TIMEOUT", "shred"}
    BY <1>3 DEF Refusal
  <2> QED BY <1>4, <2>1 DEF HostAnswer
<1>8. AnswerState(s)'
  BY <1>0, <1>6, <1>7 DEF AnswerState
<1>9. failures' \in [Sandboxes -> Nat]
  BY <1>2, OfOne
<1> QED BY <1>5, <1>8, <1>9, OneAnswer DEF Layer1Inv

LEMMA PodmanAdvanceAnswer ==
  ASSUME Layer1Inv, NEW s \in Sandboxes, backend[s] = "podman", P!Advance(s),
         UNCHANGED backend
  PROVE  AnswerInv'
<1>0. backend[s] # None /\ backend[s] # "openshell"
  BY Layer1Assumption DEF Backends
<1>1. PodmanAnswer(s) /\ HostAnswer(s) /\ CallState(s)
  BY OfOne DEF AnswerState
<1>2. UNCHANGED <<request, run>>
  BY DEF P!Advance, P!ReuseProfile, P!ProfileFails, P!OpenProfile, P!SaveProfile,
         P!SaveFails, P!ApplyEgressRules, P!RefuseEnvironment, P!Launch, P!EmbeddedNul,
         P!RunTimeout, P!Finish, P!Stop, P!ForceRemove, P!RemoveVolume, P!call
\* What the call writes but for the log, the host and the answer.
<1> DEFINE Moves(step, x, out) ==
             /\ pc' = [pc EXCEPT ![s] = step]
             /\ outcome' = [outcome EXCEPT ![s] = x]
             /\ released' = [released EXCEPT ![s] = out]
<1>3. ASSUME NEW step, NEW x, NEW out, Moves(step, x, out),
             PodmanAnswer(s)', HostAnswer(s)',
             \A t \in Sandboxes \ {s} : /\ trail'[t] = trail[t]
                                      /\ container'[t] = container[t]
                                      /\ failures'[t] = failures[t],
             failures' \in [Sandboxes -> Nat]
      PROVE  AnswerInv'
  <2>1. OthersKept(s)
    BY <1>2, <1>3, OfOne DEF OthersKept
  <2>2. AnswerState(s)'
    BY <1>0, <1>3 DEF AnswerState
  <2> QED BY <1>3, <2>1, <2>2, OneAnswer DEF Layer1Inv
\* The steps that do not touch the host and log nothing.
<1>4. ASSUME NEW step, NEW x, NEW out, Moves(step, x, out),
             UNCHANGED <<trail, container, failures>>,
             step \notin {"finish", "rm", "volume"},
             \/ step # "idle" /\ x = outcome[s] /\ out = released[s] /\ pc[s] # "idle"
             \/ /\ step = "idle" /\ out = NoOutput /\ x \in P!Exceptions
                /\ pc[s] \notin {"idle"} \cup Shredding
      PROVE  AnswerInv'
  <2>1. /\ pc'[s] = step /\ outcome'[s] = x /\ released'[s] = out
        /\ request'[s] = request[s] /\ trail'[s] = trail[s]
    BY <1>2, <1>4, OfOne
  <2>2. CASE step # "idle"
    <3>1. PodmanAnswer(s)'
      BY <1>1, <1>4, <2>1, <2>2 DEF PodmanAnswer
    <3>2. HostAnswer(s)'
      BY <1>4, <2>1, <2>2 DEF HostAnswer
    <3> QED BY <1>3, <1>4, <3>1, <3>2, OfOne
  <2>3. CASE step = "idle"
    <3>1. /\ outcome[s] = "none" /\ ~Refused(request[s])
          /\ P!Last(trail[s]) = "start" /\ out = NoOutput
      BY <1>1, <1>4, <2>3 DEF PodmanAnswer, CallState
    <3>2. x \notin {"none", "COMPLETED", "FAILED", "TIMEOUT"} \cup OfShred
      BY <1>4, <2>3 DEF P!Exceptions, OfShred
    <3>3. PodmanAnswer(s)'
      BY <2>1, <2>3, <3>1, <3>2 DEF PodmanAnswer, Refused
    <3>4. HostAnswer(s)'
      BY <2>1, <2>3, <3>2 DEF HostAnswer, OfShred
    <3> QED BY <1>3, <1>4, <3>3, <3>4, OfOne
  <2> QED BY <2>2, <2>3
<1>5. CASE \/ P!ReuseProfile(s) \/ P!OpenProfile(s) \/ P!SaveProfile(s)
           \/ P!Launch(s) \/ P!RunTimeout(s)
  <2>1. PICK step \in {"options", "saving", "podman", "stop"} :
          pc' = [pc EXCEPT ![s] = step]
    BY <1>5 DEF P!ReuseProfile, P!OpenProfile, P!SaveProfile, P!Launch, P!RunTimeout,
                P!Goto
  <2>2. UNCHANGED <<outcome, released, trail, container, failures>> /\ pc[s] # "idle"
    BY <1>5 DEF P!ReuseProfile, P!OpenProfile, P!SaveProfile, P!Launch, P!RunTimeout,
                P!Goto, P!host
  <2>3. Moves(step, outcome[s], released[s])
    BY <2>1, <2>2, OfOne
  <2> QED BY <1>4, <2>1, <2>2, <2>3
<1>6. CASE \/ P!ProfileFails(s) \/ P!SaveFails(s) \/ P!ApplyEgressRules(s)
           \/ P!RefuseEnvironment(s) \/ P!EmbeddedNul(s)
  <2>1. PICK x \in P!Exceptions : Moves("idle", x, NoOutput)
    BY <1>6, SameOutput
    DEF P!ProfileFails, P!SaveFails, P!ApplyEgressRules, P!RefuseEnvironment,
        P!EmbeddedNul, P!Raise, P!Return, P!Exceptions
  <2>2. UNCHANGED <<trail, container, failures>>
    BY <1>6 DEF P!ProfileFails, P!SaveFails, P!ApplyEgressRules,
                P!RefuseEnvironment, P!EmbeddedNul, P!host
  <2>3. pc[s] \notin {"idle"} \cup Shredding
    BY <1>6 DEF P!ProfileFails, P!SaveFails, P!ApplyEgressRules,
                P!RefuseEnvironment, P!EmbeddedNul, Shredding
  <2> QED BY <1>4, <2>1, <2>2, <2>3
<1>7. CASE P!Finish(s)
  <2>1. PICK x \in {"COMPLETED", "FAILED"}, out \in Output,
             event \in {"exfil_blocked", "complete"} :
          /\ Moves("idle", x, out)
          /\ trail' = [trail EXCEPT ![s] = @ \o <<event>>]
          /\ event = IF P!Withheld(s) THEN "exfil_blocked" ELSE "complete"
          /\ P!Withheld(s) => x = "FAILED" /\ out = NoOutput
          /\ x = "COMPLETED" => run[s].code = 0
    <3>1. run[s].output \in Output /\ NoOutput \in Output
      BY SameOutput, OfOne
    <3>2. CASE P!Withheld(s)
      <4>1. Moves("idle", "FAILED", NoOutput)
        BY <1>7, <3>2, SameOutput DEF P!Finish, P!Return
      <4>2. trail' = [trail EXCEPT ![s] = @ \o <<"exfil_blocked">>]
        BY <1>7, <3>2 DEF P!Finish, P!Log
      <4> HIDE DEF Moves
      <4> QED BY <3>1, <3>2, <4>1, <4>2
    <3>3. CASE ~P!Withheld(s)
      <4> DEFINE final == IF run[s].code = 0 THEN "COMPLETED" ELSE "FAILED"
      <4>1. Moves("idle", final, run[s].output)
        BY <1>7, <3>3 DEF P!Finish, P!Return
      <4>2. trail' = [trail EXCEPT ![s] = @ \o <<"complete">>]
        BY <1>7, <3>3 DEF P!Finish, P!Log
      <4>3. final \in {"COMPLETED", "FAILED"} /\ (final = "COMPLETED" => run[s].code = 0)
        OBVIOUS
      <4> HIDE DEF Moves, final
      <4> QED BY <3>1, <3>3, <4>1, <4>2, <4>3
    <3> QED BY <3>2, <3>3
  <2>2. pc[s] = "finish" /\ UNCHANGED <<container, failures>>
    BY <1>7 DEF P!Finish, P!host
  <2>3. /\ pc'[s] = "idle" /\ outcome'[s] = x /\ released'[s] = out
        /\ trail'[s] = trail[s] \o <<event>> /\ container'[s] = container[s]
        /\ \A t \in Sandboxes \ {s} : trail'[t] = trail[t]
    BY <2>1, <2>2, OfOne
  <2>4. P!Last(trail'[s]) = event
    <3>1. event \in AllEvents /\ trail[s] \in Seq(AllEvents)
      BY OfOne DEF AllEvents, P!Events
    <3> QED BY <2>3, <3>1, LastLogged
  <2>5. PodmanAnswer(s)'
    <3>1. ~Refused(request[s])
      BY <1>1, <2>2 DEF PodmanAnswer, CallState, Shredding
    <3>2. request'[s] = request[s] /\ P!Withheld(s)' = P!Withheld(s)
      BY <1>2 DEF P!Withheld
    <3> QED BY <2>1, <2>3, <2>4, <3>1, <3>2 DEF PodmanAnswer, Refused
  <2>6. HostAnswer(s)'
    BY <1>1, <2>1, <2>2, <2>3 DEF HostAnswer
  <2> QED BY <1>3, <2>1, <2>2, <2>3, <2>5, <2>6, OfOne
<1>8. CASE P!Stop(s) \/ P!ForceRemove(s)
  <2>1. PICK step \in {"rm", "volume"} :
          /\ pc' = [pc EXCEPT ![s] = step]
          /\ pc[s] = IF step = "rm" THEN "stop" ELSE "rm"
    BY <1>8 DEF P!Stop, P!ForceRemove, P!Goto
  <2>2. UNCHANGED <<outcome, released, trail>>
    BY <1>8 DEF P!Stop, P!ForceRemove, P!Goto
  <2>3. \/ container' = [container EXCEPT ![s] = None] /\ failures' = failures
        \/ failures' = [failures EXCEPT ![s] = @ + 1] /\ container' = container
    BY <1>8 DEF P!Stop, P!ForceRemove, P!PodmanEnds
  <2>4. /\ failures' \in [Sandboxes -> Nat] /\ failures[s] \in Nat
        /\ \A t \in Sandboxes \ {s} : /\ container'[t] = container[t]
                                      /\ failures'[t] = failures[t]
        /\ container'[s] = None \/ failures'[s] = failures[s] + 1
        /\ container'[s] = None \/ container'[s] = container[s]
    <3>1. CASE container' = [container EXCEPT ![s] = None] /\ failures' = failures
      BY <3>1, OfOne
    <3>2. CASE failures' = [failures EXCEPT ![s] = @ + 1] /\ container' = container
      BY <3>2, OfOne
    <3> QED BY <2>3, <3>1, <3>2
  <2>5. Moves(step, outcome[s], released[s]) /\ pc'[s] = step
    BY <2>1, <2>2, OfOne
  <2>6. PodmanAnswer(s)'
    BY <1>1, <1>2, <2>1, <2>2, <2>5 DEF PodmanAnswer
  <2>7. HostAnswer(s)'
    BY <1>1, <2>1, <2>4, <2>5 DEF HostAnswer
  <2> QED BY <1>3, <2>2, <2>4, <2>5, <2>6, <2>7
<1>9. CASE P!RemoveVolume(s)
  <2>1. /\ pc[s] = "volume" /\ pc' = [pc EXCEPT ![s] = "idle"]
        /\ UNCHANGED <<released, trail, container, failures>>
    BY <1>9 DEF P!RemoveVolume, P!host
  <2>2. PICK x \in {"shred", "TIMEOUT"} :
          /\ outcome' = [outcome EXCEPT ![s] = x]
          /\ x = IF outcome[s] = "shred" THEN "shred" ELSE "TIMEOUT"
    BY <1>9 DEF P!RemoveVolume
  <2>3. Moves("idle", x, released[s])
    BY <2>1, <2>2, OfOne
  <2>4. /\ pc'[s] = "idle" /\ outcome'[s] = x /\ released'[s] = released[s]
        /\ request'[s] = request[s] /\ trail'[s] = trail[s]
    BY <1>2, <2>1, <2>2, OfOne
  <2>5. PodmanAnswer(s)'
    BY <1>1, <2>1, <2>2, <2>4 DEF PodmanAnswer, CallState, OfShred, Refused
  <2>6. HostAnswer(s)'
    BY <1>1, <2>1, <2>2, <2>4 DEF HostAnswer
  <2> QED BY <1>3, <2>1, <2>3, <2>5, <2>6, OfOne
<1> QED BY <1>5, <1>6, <1>7, <1>8, <1>9 DEF P!Advance

LEMMA PodmanHostAnswer ==
  ASSUME Layer1Inv, NEW s \in Sandboxes, backend[s] = "podman",
         P!Podman(s) \/ P!Shred(s), UNCHANGED backend
  PROVE  AnswerInv'
<1>0. backend[s] # None /\ backend[s] # "openshell"
  BY Layer1Assumption DEF Backends
<1>1. PodmanAnswer(s) /\ HostAnswer(s) /\ CallState(s)
  BY OfOne DEF AnswerState
<1>2. /\ UNCHANGED <<request, trail, failures>>
      /\ request'[s] = request[s] /\ trail'[s] = trail[s] /\ failures'[s] = failures[s]
  BY DEF P!Podman, P!PodmanMissing, P!ContainerStarts, P!PodmanRefuses,
         P!ContainerExits, P!OutputUndecodable, P!ShredRaises, P!Shred, P!call, P!host
<1>3. ASSUME PodmanAnswer(s)', HostAnswer(s)',
             \A t \in Sandboxes \ {s} :
               /\ pc'[t] = pc[t] /\ run'[t] = run[t] /\ outcome'[t] = outcome[t]
               /\ released'[t] = released[t] /\ container'[t] = container[t]
      PROVE  AnswerInv'
  <2>1. OthersKept(s)
    BY <1>2, <1>3 DEF OthersKept
  <2>2. AnswerState(s)'
    BY <1>0, <1>3 DEF AnswerState
  <2>3. failures' \in [Sandboxes -> Nat]
    BY <1>2, OfOne
  <2> QED BY <2>1, <2>2, <2>3, OneAnswer DEF Layer1Inv
<1>4. CASE P!PodmanMissing(s) \/ P!OutputUndecodable(s)
  <2>1. PICK x \in P!Exceptions :
          /\ pc' = [pc EXCEPT ![s] = "idle"]
          /\ outcome' = [outcome EXCEPT ![s] = x]
          /\ released' = [released EXCEPT ![s] = NoOutput]
    BY <1>4, SameOutput
    DEF P!PodmanMissing, P!OutputUndecodable, P!Raise, P!Return, P!Exceptions
  <2>2. /\ UNCHANGED run /\ pc[s] \in {"podman", "attached"}
        /\ container' = container \/ container' = [container EXCEPT ![s] = None]
    BY <1>4 DEF P!PodmanMissing, P!OutputUndecodable, P!host
  <2>3. pc'[s] = "idle" /\ outcome'[s] = x /\ released'[s] = NoOutput
    BY <2>1, OfOne
  <2>4. ~Refused(request[s]) /\ P!Last(trail[s]) = "start"
    BY <1>1, <2>2 DEF PodmanAnswer, CallState, Shredding
  <2>5. x \notin {"none", "COMPLETED", "FAILED", "TIMEOUT"} \cup OfShred
    BY DEF P!Exceptions, OfShred
  <2>6. PodmanAnswer(s)'
    BY <1>2, <2>3, <2>4, <2>5 DEF PodmanAnswer, Refused
  <2>7. HostAnswer(s)'
    BY <2>3, <2>5 DEF HostAnswer, OfShred
  <2> QED BY <1>3, <2>1, <2>2, <2>6, <2>7, OfOne
<1>5. CASE P!ContainerStarts(s)
  <2>1. /\ pc[s] = "podman" /\ pc' = [pc EXCEPT ![s] = "attached"]
        /\ container' = [container EXCEPT ![s] = request[s]]
        /\ UNCHANGED <<run, outcome, released>>
    BY <1>5 DEF P!ContainerStarts, P!Goto
  <2>2. pc'[s] = "attached"
    BY <2>1, OfOne
  <2>3. PodmanAnswer(s)' /\ HostAnswer(s)'
    BY <1>1, <1>2, <2>1, <2>2 DEF PodmanAnswer, HostAnswer
  <2> QED BY <1>3, <2>1, <2>3, OfOne
<1>6. CASE P!PodmanRefuses(s)
  <2>1. /\ pc[s] = "podman" /\ pc' = [pc EXCEPT ![s] = "finish"]
        /\ run' = [run EXCEPT ![s] = [code |-> 125, output |-> NoOutput]]
        /\ UNCHANGED <<container, outcome, released>>
    BY <1>6, SameOutput DEF P!PodmanRefuses, P!Goto, P!host
  <2>2. pc'[s] = "finish" /\ run'[s].code = 125
    BY <2>1, OfOne
  <2>3. PodmanAnswer(s)' /\ HostAnswer(s)'
    BY <1>1, <1>2, <2>1, <2>2 DEF PodmanAnswer, HostAnswer
  <2> QED BY <1>3, <2>1, <2>3, OfOne
<1>7. ASSUME NEW code \in {0, 1}, NEW output \in P!Output,
             P!ContainerExits(s, code, output)
      PROVE  AnswerInv'
  <2>1. /\ container' = [container EXCEPT ![s] = None]
        /\ UNCHANGED <<outcome, released>> /\ container'[s] = None
    BY <1>7, OfOne DEF P!ContainerExits, P!Goto
  <2>2. \/ UNCHANGED <<pc, run>>
        \/ /\ pc[s] = "attached" /\ pc' = [pc EXCEPT ![s] = "finish"]
           /\ run' = [run EXCEPT ![s] = [code |-> code, output |-> output]]
    BY <1>7 DEF P!ContainerExits, P!Goto
  <2>3. \A t \in Sandboxes \ {s} : /\ pc'[t] = pc[t] /\ run'[t] = run[t]
                                  /\ container'[t] = container[t]
    BY <2>1, <2>2, OfOne
  <2>4. pc'[s] = pc[s] \/ (pc[s] = "attached" /\ pc'[s] = "finish")
    BY <2>2, OfOne
  <2>5. PodmanAnswer(s)'
    <3>1. CASE UNCHANGED <<pc, run>>
      BY <1>1, <1>2, <2>1, <3>1 DEF PodmanAnswer, P!Withheld
    <3>2. CASE pc[s] = "attached" /\ pc'[s] = "finish"
      BY <1>1, <1>2, <2>1, <3>2 DEF PodmanAnswer, CallState, Shredding
    <3> QED BY <2>2, <3>1, <3>2, OfOne
  <2>6. HostAnswer(s)'
    BY <2>1 DEF HostAnswer
  <2> QED BY <1>3, <2>1, <2>3, <2>5, <2>6
<1>8. CASE P!ShredRaises(s) \/ P!Shred(s)
  <2>1. PICK step \in {"idle", "stop"},
             x \in {"shred", "shred raised", "TimeoutExpired", "OSError",
                    "PermissionError"} :
          /\ pc' = [pc EXCEPT ![s] = step] /\ outcome' = [outcome EXCEPT ![s] = x]
          /\ (step = "stop") <=> (x = "shred")
          /\ step = "idle" => pc[s] # "idle" /\ (outcome[s] = "shred" => x = "shred raised")
    BY <1>8 DEF P!ShredRaises, P!Shred
  <2>2. UNCHANGED <<run, container, released>>
    BY <1>8 DEF P!ShredRaises, P!Shred, P!host
  <2>3. pc'[s] = step /\ outcome'[s] = x
    BY <2>1, OfOne
  <2>4. PodmanAnswer(s)'
    BY <1>1, <1>2, <2>1, <2>2, <2>3 DEF PodmanAnswer, CallState, OfShred, Refused
  <2>5. HostAnswer(s)'
    BY <1>1, <1>2, <2>1, <2>2, <2>3 DEF HostAnswer
  <2> QED BY <1>3, <2>1, <2>2, <2>4, <2>5, OfOne
<1> QED BY <1>4, <1>5, <1>6, <1>7, <1>8 DEF P!Podman

LEMMA OpenShellSubmitAnswer ==
  ASSUME Layer1Inv, NEW s \in Sandboxes, backend[s] = "openshell",
         O!Submit(s), UNCHANGED <<backend, podmanOnly>>
  PROVE  AnswerInv'
<1>0. backend[s] # None /\ backend[s] # "podman"
  BY Layer1Assumption DEF Backends
<1>1. PICK r \in Requests : \/ O!RefuseArguments(s, r) \/ O!RefuseToken(s, r)
                            \/ O!BlockPayload(s, r) \/ O!Admit(s, r)
  BY DEF O!Submit
<1>2. /\ request' = [request EXCEPT ![s] = r] /\ pc[s] = "idle"
      /\ UNCHANGED <<container, failures, run>>
  BY <1>1 DEF O!RefuseArguments, O!RefuseToken, O!BlockPayload, O!Admit, O!Call,
     podmanOnly
<1>3. PICK step \in {"idle", "policy"}, x \in {"none", "ValueError", "PermissionError"},
           events \in {<<>>, <<"auth_failure">>, <<"injection_blocked">>} :
         /\ pc' = [pc EXCEPT ![s] = step]
         /\ outcome' = [outcome EXCEPT ![s] = x]
         /\ released' = [released EXCEPT ![s] = NoOutput]
         /\ trail' = [trail EXCEPT ![s] = events]
         /\ step = "idle" => x \in Refusal /\ Refused(r)
         /\ step = "policy" => x = "none" /\ events = <<>> /\ ~Refused(r)
         /\ ~r.valid => events = <<>>
         /\ r.valid /\ ~r.authorized => events = <<"auth_failure">>
         /\ r.valid /\ r.authorized /\ Blocked(r) => events = <<"injection_blocked">>
  <2> USE DEF Refusal, Refused, O!Blocked, Blocked, O!Call
  <2>1. CASE O!RefuseArguments(s, r)
    BY <2>1, SameOutput DEF O!RefuseArguments, O!Raise, O!Return
  <2>2. CASE O!RefuseToken(s, r)
    BY <2>2, SameOutput DEF O!RefuseToken, O!Raise, O!Return
  <2>3. CASE O!BlockPayload(s, r)
    BY <2>3, SameOutput DEF O!BlockPayload, O!Raise, O!Return
  <2>4. CASE O!Admit(s, r)
    BY <2>4, SameOutput DEF O!Admit
  <2> QED BY <1>1, <2>1, <2>2, <2>3, <2>4
<1>4. /\ pc'[s] = step /\ outcome'[s] = x /\ released'[s] = NoOutput
      /\ request'[s] = r /\ trail'[s] = events
  BY <1>2, <1>3, SameOutput, OfOne
<1>5. OthersKept(s)
  BY <1>2, <1>3, OfOne DEF OthersKept
<1>6. OpenShellAnswer(s)'
  BY <1>3, <1>4 DEF OpenShellAnswer, Refusal
<1>7. HostAnswer(s)'
  BY <1>3, <1>4 DEF HostAnswer
<1>8. AnswerState(s)'
  BY <1>0, <1>6, <1>7 DEF AnswerState
<1>9. failures' \in [Sandboxes -> Nat]
  BY <1>2, OfOne
<1> QED BY <1>5, <1>8, <1>9, OneAnswer DEF Layer1Inv

\* The logs of a call with the OpenShell backend have at most three events.
LEMMA ShortLogs ==
  ASSUME NEW a, NEW b, NEW c
  PROVE  /\ <<>> \o <<a>> = <<a>>
         /\ <<a>> \o <<b>> = <<a, b>>
         /\ <<a>> \o <<b, c>> = <<a, b, c>>
<1> DEFINE S == {a, b, c}
<1>1. <<a>> \in Seq(S) /\ <<b>> \in Seq(S) /\ <<b, c>> \in Seq(S)
      /\ <<a, b>> \in Seq(S) /\ <<a, b, c>> \in Seq(S) /\ <<>> \in Seq(S)
  OBVIOUS
<1>2. <<>> \o <<a>> = <<a>>
  BY <1>1, ConcatEmptySeq
<1>3. <<a>> \o <<b>> = <<a, b>>
  <2>1. /\ <<a>> \o <<b>> \in Seq(S) /\ Len(<<a>> \o <<b>>) = 2
        /\ (<<a>> \o <<b>>)[1] = a /\ (<<a>> \o <<b>>)[2] = b
    BY <1>1, ConcatProperties
  <2>2. \A i \in 1..2 : (<<a>> \o <<b>>)[i] = <<a, b>>[i]
    BY <2>1
  <2> QED BY <1>1, <2>1, <2>2, SeqEqual
<1>4. <<a>> \o <<b, c>> = <<a, b, c>>
  <2>1. /\ <<a>> \o <<b, c>> \in Seq(S) /\ Len(<<a>> \o <<b, c>>) = 3
        /\ (<<a>> \o <<b, c>>)[1] = a /\ (<<a>> \o <<b, c>>)[2] = b
        /\ (<<a>> \o <<b, c>>)[3] = c
    BY <1>1, ConcatProperties
  <2>2. \A i \in 1..3 : (<<a>> \o <<b, c>>)[i] = <<a, b, c>>[i]
    BY <2>1
  <2> QED BY <1>1, <2>1, <2>2, SeqEqual
<1> QED BY <1>2, <1>3, <1>4

\* What is in them.
LEMMA InShortLog ==
  ASSUME NEW a, NEW b, NEW c, NEW e
  PROVE  /\ ~ \E i \in 1..Len(<<>>) : <<>>[i] = e
         /\ (\E i \in 1..Len(<<a>>) : <<a>>[i] = e) <=> e = a
         /\ (\E i \in 1..Len(<<a, b>>) : <<a, b>>[i] = e) <=> e \in {a, b}
         /\ (\E i \in 1..Len(<<a, b, c>>) : <<a, b, c>>[i] = e) <=> e \in {a, b, c}
<1>1. ~ \E i \in 1..Len(<<>>) : <<>>[i] = e
  OBVIOUS
<1>2. (\E i \in 1..Len(<<a>>) : <<a>>[i] = e) <=> e = a
  <2>1. Len(<<a>>) = 1 /\ 1..1 = {1} /\ <<a>>[1] = a
    OBVIOUS
  <2> QED BY <2>1
<1>3. (\E i \in 1..Len(<<a, b>>) : <<a, b>>[i] = e) <=> e \in {a, b}
  <2>1. Len(<<a, b>>) = 2 /\ 1..2 = {1, 2} /\ <<a, b>>[1] = a /\ <<a, b>>[2] = b
    OBVIOUS
  <2> QED BY <2>1
<1>4. (\E i \in 1..Len(<<a, b, c>>) : <<a, b, c>>[i] = e) <=> e \in {a, b, c}
  <2>1. /\ Len(<<a, b, c>>) = 3 /\ 1..3 = {1, 2, 3}
        /\ <<a, b, c>>[1] = a /\ <<a, b, c>>[2] = b /\ <<a, b, c>>[3] = c
    OBVIOUS
  <2> QED BY <2>1
<1> QED BY <1>1, <1>2, <1>3, <1>4

\* What ends a log of a call.
LEMMA LastOfShortLog ==
  ASSUME NEW a, NEW b, NEW c
  PROVE  /\ O!Last(<<>>) = "none"
         /\ O!Last(<<a>>) = a
         /\ O!Last(<<a, b>>) = b
         /\ O!Last(<<a, b, c>>) = c
  BY DEF O!Last

LEMMA OpenShellRunAnswer ==
  ASSUME Layer1Inv, NEW s \in Sandboxes, backend[s] = "openshell",
         O!Advance(s) \/ O!Gateway(s), UNCHANGED <<backend, podmanOnly>>
  PROVE  AnswerInv'
<1>0. backend[s] # None /\ backend[s] # "podman"
  BY Layer1Assumption DEF Backends
<1>1. OpenShellAnswer(s) /\ container[s] = None /\ CallState(s)
  BY <1>0, OfOne DEF AnswerState, CheckedState
<1>2. UNCHANGED <<request, container, failures>>
  BY DEF O!Advance, O!Gateway, O!BasePolicyMissing, O!PolicyUnwritable, O!WritePolicy,
         O!CreateTimeout, O!Finish, O!CommandMissing, O!CommandExits,
         O!OutputUndecodable, podmanOnly
<1> DEFINE withheld(result) == request[s].scan /\ result.output.stdout = "risky"
<1>3. ASSUME NEW step, NEW x, NEW events, NEW out,
             NEW result \in [code: Nat, output: Output],
             pc' = [pc EXCEPT ![s] = step], outcome' = [outcome EXCEPT ![s] = x],
             released' = [released EXCEPT ![s] = out],
             trail' = [trail EXCEPT ![s] = events],
             run' = [run EXCEPT ![s] = result],
             pc[s] # "idle",
             \/ /\ step \in {"create", "finish"} /\ x = "none" /\ events = <<"start">>
             \/ /\ step = "idle" /\ x \in O!Exceptions /\ out = NoOutput
                /\ events \in {<<>>, <<"start">>}
             \/ /\ step = "idle" /\ x = "timeout" /\ events = <<"start", "timeout">>
             \/ /\ step = "idle" /\ x = "success" /\ result.code = 0
                /\ ~withheld(result) /\ events = <<"start", "finish">>
             \/ /\ step = "idle" /\ x = "failure"
                /\ withheld(result) => out.stdout = "none"
                /\ events = IF withheld(result) THEN <<"start", "exfil_blocked", "finish">>
                            ELSE <<"start", "finish">>
      PROVE  AnswerInv'
  <2>1. OthersKept(s)
    BY <1>2, <1>3, OfOne DEF OthersKept
  <2>2. /\ pc'[s] = step /\ outcome'[s] = x /\ trail'[s] = events
        /\ released'[s] = out
        /\ run'[s] = result /\ container'[s] = None /\ request'[s] = request[s]
    BY <1>1, <1>2, <1>3, OfOne
  <2>3. ~Refused(request[s])
    BY <1>1, <1>3 DEF OpenShellAnswer
  <2>4. O!Withheld(s)' = withheld(result)
    BY <2>2 DEF O!Withheld
  <2>5. OpenShellAnswer(s)'
    <3> HIDE DEF withheld
    <3>1. CASE x \in O!Exceptions
      BY <1>3, <2>2, <2>3, <3>1 DEF OpenShellAnswer, O!Exceptions, Refused
    <3>2. CASE x \in {"none", "timeout"}
      BY <1>3, <2>2, <2>3, <3>2 DEF OpenShellAnswer, O!Exceptions
    <3>3. CASE x = "success"
      BY <1>3, <2>2, <2>3, <2>4, <3>3 DEF OpenShellAnswer, O!Exceptions
    <3>4. CASE x = "failure"
      BY <1>3, <2>2, <2>3, <2>4, <3>4 DEF OpenShellAnswer, O!Exceptions
    <3> QED BY <1>3, <3>1, <3>2, <3>3, <3>4
  <2>6. HostAnswer(s)'
    BY <2>2 DEF HostAnswer
  <2>7. failures' \in [Sandboxes -> Nat] /\ AnswerState(s)'
    BY <1>0, <1>2, <2>5, <2>6, OfOne DEF AnswerState
  <2> QED BY <2>1, <2>7, OneAnswer DEF Layer1Inv
<1>4. /\ pc[s] = "policy" => trail[s] = <<>>
      /\ pc[s] \in {"create", "finish"} => trail[s] = <<"start">>
      /\ pc[s] \in {"policy", "create", "finish"} => outcome[s] = "none"
      /\ run[s] \in [code: Nat, output: Output]
  BY <1>1, OfOne DEF OpenShellAnswer, CallState, Shredding
<1>5. withheld(run[s]) = O!Withheld(s)
  BY DEF O!Withheld
<1>6. /\ <<>> \o <<"start">> = <<"start">>
      /\ <<"start">> \o <<"timeout">> = <<"start", "timeout">>
      /\ <<"start">> \o <<"finish">> = <<"start", "finish">>
      /\ <<"start">> \o <<"exfil_blocked", "finish">>
           = <<"start", "exfil_blocked", "finish">>
  BY ShortLogs
<1> HIDE DEF withheld
<1>7. run' = run => run' = [run EXCEPT ![s] = run[s]]
  BY OfOne
<1>8. CASE \/ O!BasePolicyMissing(s) \/ O!PolicyUnwritable(s)
           \/ O!CommandMissing(s) \/ O!OutputUndecodable(s)
  <2>1. PICK x \in O!Exceptions :
          /\ pc' = [pc EXCEPT ![s] = "idle"]
          /\ outcome' = [outcome EXCEPT ![s] = x]
          /\ released' = [released EXCEPT ![s] = NoOutput]
    BY <1>8, SameOutput
    DEF O!BasePolicyMissing, O!PolicyUnwritable, O!CommandMissing, O!OutputUndecodable,
        O!Raise, O!Return, O!Exceptions
  <2>2. UNCHANGED <<trail, run>> /\ pc[s] \in {"policy", "create"}
    BY <1>8 DEF O!BasePolicyMissing, O!PolicyUnwritable, O!CommandMissing,
                O!OutputUndecodable
  <2>3. trail' = [trail EXCEPT ![s] = trail[s]] /\ trail[s] \in {<<>>, <<"start">>}
    BY <1>4, <2>2, OfOne
  <2> QED BY <1>3, <1>4, <1>7, <2>1, <2>2, <2>3
<1>9. CASE O!WritePolicy(s)
  <2>1. /\ pc[s] = "policy" /\ UNCHANGED <<outcome, released, run>>
        /\ pc' = [pc EXCEPT ![s] = "create"]
        /\ trail' = [trail EXCEPT ![s] = trail[s] \o <<"start">>]
    BY <1>9 DEF O!WritePolicy, O!Goto, O!Log
  <2>2. /\ trail' = [trail EXCEPT ![s] = <<"start">>]
        /\ outcome' = [outcome EXCEPT ![s] = "none"]
        /\ released' = [released EXCEPT ![s] = released[s]]
    <3>1. trail[s] \o <<"start">> = <<"start">> /\ outcome[s] = "none"
      BY <1>4, <1>6, <2>1
    <3> QED BY <2>1, <3>1, OfOne
  <2>3. /\ pc[s] # "idle" /\ run' = [run EXCEPT ![s] = run[s]]
        /\ pc' = [pc EXCEPT ![s] = "create"] /\ run[s] \in [code: Nat, output: Output]
    BY <1>4, <1>7, <2>1
  <2> QED BY <1>3, <2>2, <2>3
<1>10. CASE O!CreateTimeout(s)
  <2>1. /\ pc' = [pc EXCEPT ![s] = "idle"] /\ pc[s] = "create" /\ UNCHANGED run
        /\ outcome' = [outcome EXCEPT ![s] = "timeout"]
        /\ released' = [released EXCEPT ![s] = NoOutput]
        /\ trail' = [trail EXCEPT ![s] = trail[s] \o <<"timeout">>]
    BY <1>10, SameOutput DEF O!CreateTimeout, O!Return, O!Log
  <2>2. trail' = [trail EXCEPT ![s] = <<"start", "timeout">>]
    BY <1>4, <1>6, <2>1
  <2> QED BY <1>3, <1>4, <1>7, <2>1, <2>2
<1>11. CASE O!Finish(s)
  <2>1. pc' = [pc EXCEPT ![s] = "idle"] /\ pc[s] = "finish" /\ UNCHANGED run
    BY <1>11 DEF O!Finish, O!Return
  <2>r. /\ pc' = [pc EXCEPT ![s] = "idle"] /\ pc[s] # "idle"
        /\ run' = [run EXCEPT ![s] = run[s]] /\ run[s] \in [code: Nat, output: Output]
    BY <1>4, <1>7, <2>1
  <2>2. CASE O!Withheld(s)
    <3>1. /\ outcome' = [outcome EXCEPT ![s] = "failure"]
          /\ trail' = [trail EXCEPT ![s] = trail[s] \o <<"exfil_blocked", "finish">>]
          /\ released' = [released EXCEPT ![s] =
                            [run[s].output EXCEPT !.stdout = "none"]]
      BY <1>11, <2>2 DEF O!Finish, O!Return, O!Log
    <3>2. trail' = [trail EXCEPT ![s] = <<"start", "exfil_blocked", "finish">>]
      BY <1>4, <1>6, <2>1, <3>1
    <3>3. [run[s].output EXCEPT !.stdout = "none"].stdout = "none"
      BY <1>4 DEF Output
    <3> QED BY <1>3, <1>4, <1>5, <1>7, <2>1, <2>2, <3>1, <3>2, <3>3
  <2>3. CASE ~O!Withheld(s)
    <3>1. /\ outcome' = [outcome EXCEPT ![s] = IF run[s].code = 0 THEN "success"
                                               ELSE "failure"]
          /\ trail' = [trail EXCEPT ![s] = trail[s] \o <<"finish">>]
          /\ released' = [released EXCEPT ![s] = run[s].output]
      BY <1>11, <2>3 DEF O!Finish, O!Return, O!Log
    <3>2. trail' = [trail EXCEPT ![s] = <<"start", "finish">>]
      BY <1>4, <1>6, <2>1, <3>1
    <3>3. CASE run[s].code = 0
      <4>1. outcome' = [outcome EXCEPT ![s] = "success"]
        BY <3>1, <3>3
      <4> QED BY <1>3, <1>5, <2>r, <2>3, <3>1, <3>2, <3>3, <4>1
    <3>4. CASE run[s].code # 0
      <4>1. outcome' = [outcome EXCEPT ![s] = "failure"]
        BY <3>1, <3>4
      <4> QED BY <1>3, <1>5, <2>r, <2>3, <3>1, <3>2, <4>1
    <3> QED BY <3>3, <3>4
  <2> QED BY <2>2, <2>3
<1>12. ASSUME NEW code \in {0, 1}, NEW output \in Output, O!CommandExits(s, code, output)
       PROVE  AnswerInv'
  <2>1. pc[s] = "create" /\ UNCHANGED <<outcome, released, trail>>
    BY <1>12 DEF O!CommandExits, O!Goto
  <2>2. /\ trail' = [trail EXCEPT ![s] = <<"start">>]
        /\ outcome' = [outcome EXCEPT ![s] = "none"]
        /\ released' = [released EXCEPT ![s] = released[s]]
    BY <1>4, <2>1, OfOne
  <2> DEFINE result == [code |-> code, output |-> output]
  <2>3. result \in [code: Nat, output: Output]
    OBVIOUS
  <2>4. pc' = [pc EXCEPT ![s] = "finish"] /\ run' = [run EXCEPT ![s] = result]
    BY <1>12 DEF O!CommandExits, O!Goto
  <2> HIDE DEF result
  <2> QED BY <1>3, <2>1, <2>2, <2>3, <2>4
<1> QED BY <1>8, <1>9, <1>10, <1>11, <1>12, SameOutput DEF O!Advance, O!Gateway

LEMMA CreateAnswer ==
  ASSUME Layer1Inv, NEW s \in Sandboxes, CreateSandbox(s)
  PROVE  AnswerInv'
<1>1. /\ backend[s] = None
      /\ UNCHANGED <<pc, request, trail, run, released, container, failures>>
  BY DEF CreateSandbox, Create, CreateRefused, podmanOnly
<1>2. PICK x \in {"none", "ValueError"} :
         /\ outcome' = [outcome EXCEPT ![s] = x]
         /\ x = "ValueError" => backend' = backend
         /\ \A t \in Sandboxes \ {s} : backend'[t] = backend[t]
  BY OfOne DEF CreateSandbox, Create, CreateRefused
<1>3. /\ pc[s] = "idle" /\ released[s] = NoOutput /\ container[s] = None
      /\ outcome'[s] = x
  BY <1>1, <1>2, Layer1Assumption, OfOne
  DEF AnswerState, CallState, CheckedState, Backends
<1>4. OthersKept(s)
  BY <1>1, <1>2, OfOne DEF OthersKept
<1>5. HostAnswer(s)'
  BY <1>1, <1>3 DEF HostAnswer
<1>6. AnswerState(s)'
  <2>1. CASE x = "none"
    BY <1>1, <1>3, <1>5, <2>1 DEF AnswerState, PodmanAnswer, OpenShellAnswer, OfShred
  <2>2. CASE x = "ValueError"
    BY <1>1, <1>2, <1>3, <1>5, <2>2, Layer1Assumption DEF AnswerState, Backends
  <2> QED BY <2>1, <2>2
<1>7. failures' \in [Sandboxes -> Nat]
  BY <1>1, OfOne
<1> QED BY <1>4, <1>6, <1>7, OneAnswer DEF Layer1Inv

LEMMA AnswerInitially == Init => AnswerInv
<1> SUFFICES ASSUME Init PROVE AnswerInv
  OBVIOUS
<1>1. /\ pc = [s \in Sandboxes |-> "idle"]
      /\ outcome = [s \in Sandboxes |-> "none"]
      /\ released = [s \in Sandboxes |-> NoOutput]
      /\ container = [s \in Sandboxes |-> None]
      /\ backend = [s \in Sandboxes |-> None]
      /\ failures = [s \in Sandboxes |-> 0]
  BY SameOutput DEF Init, P!Init
<1>2. ASSUME NEW s \in Sandboxes PROVE AnswerState(s)
  BY <1>1, Layer1Assumption DEF AnswerState, HostAnswer, Backends
<1> QED BY <1>1, <1>2 DEF AnswerInv

LEMMA AnswerStep == Layer1Inv /\ [Next]_vars => AnswerInv'
<1> SUFFICES ASSUME Layer1Inv, [Next]_vars PROVE AnswerInv'
  OBVIOUS
<1>1. CASE UNCHANGED vars
  <2>1. UNCHANGED <<backend, pc, request, trail, run, outcome, released, container,
                    failures>>
    BY <1>1 DEF vars, callVars, podmanOnly
  <2>2. ASSUME NEW s \in Sandboxes PROVE AnswerState(s)'
    <3>1. AnswerState(s)
      BY OfOne
    <3>2. PodmanAnswer(s) => PodmanAnswer(s)'
      BY <2>1 DEF PodmanAnswer, P!Withheld
    <3>3. OpenShellAnswer(s) => OpenShellAnswer(s)'
      BY <2>1 DEF OpenShellAnswer, O!Withheld
    <3>4. HostAnswer(s) => HostAnswer(s)'
      BY <2>1 DEF HostAnswer
    <3> QED BY <2>1, <3>1, <3>2, <3>3, <3>4 DEF AnswerState
  <2> QED BY <2>1, <2>2 DEF Layer1Inv, AnswerInv
<1>2. ASSUME NEW s \in Sandboxes, CreateSandbox(s) PROVE AnswerInv'
  BY <1>2, CreateAnswer
<1>3. ASSUME NEW s \in Sandboxes, WithPodman(s) PROVE AnswerInv'
  BY <1>3, PodmanSubmitAnswer, PodmanAdvanceAnswer, PodmanHostAnswer DEF WithPodman
<1>4. ASSUME NEW s \in Sandboxes, WithOpenShell(s) PROVE AnswerInv'
  BY <1>4, OpenShellSubmitAnswer, OpenShellRunAnswer DEF WithOpenShell
<1> QED BY <1>1, <1>2, <1>3, <1>4 DEF Next

LEMMA AnswerHolds == Spec => []Layer1Inv
<1>1. Init => Layer1Inv
  BY CallInitially, CheckedInitially, AnswerInitially DEF Layer1Inv
<1>2. Layer1Inv /\ [Next]_vars => Layer1Inv'
  BY CallStep, CheckedStep, AnswerStep DEF Layer1Inv
<1> QED BY <1>1, <1>2, PTL DEF Spec

\* What the audit log tells of the end of the last call is what TrailTells of
\* the two modules says, the endings without a trace of their own included: for
\* any number of calls, shreds and timeouts of a sandbox object.
THEOREM TrailAlwaysTells == Spec => []TrailTellsOutcome
<1>1. Layer1Inv => TrailTellsOutcome
  <2> SUFFICES ASSUME Layer1Inv, NEW s \in Sandboxes
               PROVE  /\ backend[s] = "podman" => P!TrailTells(s)
                      /\ backend[s] = "openshell" => O!TrailTells(s)
    BY DEF TrailTellsOutcome
  <2>0. "podman" # "openshell"
    OBVIOUS
  <2>1. CASE backend[s] = "podman"
    <3>1. PodmanAnswer(s)
      BY <2>1, OfOne DEF AnswerState
    <3>2. P!TrailTells(s)
      BY <3>1 DEF PodmanAnswer, P!TrailTells, P!Answered, P!Blocked, Blocked, Refused,
                  OfShred, NoOutput, P!NoOutput
    <3> QED BY <2>0, <2>1, <3>2
  <2>2. CASE backend[s] = "openshell"
    <3>1. OpenShellAnswer(s)
      BY <2>2, OfOne DEF AnswerState
    <3> DEFINE last == O!Last(trail[s])
               r == request[s]
    <3>2. ASSUME outcome[s] = "timeout"
          PROVE  last = "timeout" /\ O!Logged(s, "start") /\ ~Refused(r)
      <4>1. trail[s] = <<"start", "timeout">> /\ ~Refused(r)
        BY <3>1, <3>2 DEF OpenShellAnswer
      <4>2. O!Last(<<"start", "timeout">>) = "timeout"
        BY LastOfShortLog
      <4>3. \E i \in 1..Len(<<"start", "timeout">>) : <<"start", "timeout">>[i] = "start"
        BY InShortLog
      <4> QED BY <4>1, <4>2, <4>3 DEF O!Logged
    <3>3. ASSUME outcome[s] \in {"success", "failure"}
          PROVE  /\ last = "finish" /\ O!Logged(s, "start") /\ ~Refused(r)
                 /\ O!Logged(s, "exfil_blocked") <=> O!Withheld(s)
                 /\ O!Withheld(s) => outcome[s] = "failure" /\ released[s].stdout = "none"
      <4>1. /\ trail[s] = IF O!Withheld(s) THEN <<"start", "exfil_blocked", "finish">>
                          ELSE <<"start", "finish">>
            /\ ~Refused(r)
            /\ O!Withheld(s) => outcome[s] = "failure" /\ released[s].stdout = "none"
        BY <3>1, <3>3 DEF OpenShellAnswer
      <4>2. CASE O!Withheld(s)
        <5>1. trail[s] = <<"start", "exfil_blocked", "finish">>
          BY <4>1, <4>2
        <5> DEFINE log == <<"start", "exfil_blocked", "finish">>
        <5>2. O!Last(log) = "finish"
          BY DEF O!Last
        <5>4. /\ \E i \in 1..Len(log) : log[i] = "start"
              /\ \E i \in 1..Len(log) : log[i] = "exfil_blocked"
          BY InShortLog
        <5> HIDE DEF log
        <5>3. trail[s] = log
          BY <5>1 DEF log
        <5> QED BY <4>1, <4>2, <5>2, <5>3, <5>4 DEF O!Logged
      <4>3. CASE ~O!Withheld(s)
        <5>1. trail[s] = <<"start", "finish">>
          BY <4>1, <4>3
        <5> DEFINE log == <<"start", "finish">>
        <5>2. O!Last(log) = "finish"
          BY LastOfShortLog
        <5>4. /\ \E i \in 1..Len(log) : log[i] = "start"
              /\ ~ \E i \in 1..Len(log) : log[i] = "exfil_blocked"
          BY InShortLog
        <5> HIDE DEF log
        <5>3. trail[s] = log
          BY <5>1 DEF log
        <5> QED BY <4>1, <4>3, <5>2, <5>3, <5>4 DEF O!Logged
      <4> QED BY <4>2, <4>3
    <3>4. ASSUME outcome[s] \notin {"none", "timeout", "success", "failure"}
          PROVE  /\ last \in {"none", "auth_failure", "injection_blocked", "start"}
                 /\ ~r.valid => last = "none"
                 /\ r.valid /\ ~r.authorized => last = "auth_failure"
                 /\ r.valid /\ r.authorized /\ Blocked(r) => last = "injection_blocked"
                 /\ ~Refused(r) => last \in {"none", "start"}
      <4>1. /\ ~r.valid => trail[s] = <<>>
            /\ r.valid /\ ~r.authorized => trail[s] = <<"auth_failure">>
            /\ r.valid /\ r.authorized /\ Blocked(r) => trail[s] = <<"injection_blocked">>
            /\ ~Refused(r) => trail[s] \in {<<>>, <<"start">>}
        BY <3>1, <3>4 DEF OpenShellAnswer
      <4> QED BY <4>1, LastOfShortLog DEF Refused
    <3> HIDE DEF last, r
    <3>5. O!Answered(s) =>
            /\ last = "finish" <=> outcome[s] \in {"success", "failure"}
            /\ last = "timeout" <=> outcome[s] = "timeout"
            /\ last = "auth_failure" <=> r.valid /\ ~r.authorized
            /\ last = "injection_blocked" <=> r.valid /\ r.authorized /\ Blocked(r)
            /\ outcome[s] \in O!Results => O!Logged(s, "start")
            /\ last = "finish" =>
                 /\ O!Logged(s, "exfil_blocked") <=> O!Withheld(s)
                 /\ O!Withheld(s) =>
                      outcome[s] = "failure" /\ released[s].stdout = "none"
      <4> SUFFICES ASSUME O!Answered(s) PROVE <3>5!2
        OBVIOUS
      <4>1. CASE outcome[s] = "timeout"
        BY <3>2, <4>1 DEF Refused, O!Results
      <4>2. CASE outcome[s] \in {"success", "failure"}
        BY <3>3, <4>2 DEF Refused, O!Results
      <4>3. CASE outcome[s] \notin {"none", "timeout", "success", "failure"}
        BY <3>4, <4>3 DEF Refused, O!Results
      <4> QED BY <4>1, <4>2, <4>3 DEF O!Answered
    <3>6. O!Blocked(r) = Blocked(r)
      BY DEF O!Blocked, Blocked
    <3>7. O!TrailTells(s)
      BY <3>5, <3>6 DEF O!TrailTells, last, r
    <3> QED BY <2>0, <2>2, <3>7
  <2> QED BY <2>1, <2>2
<1> QED BY <1>1, AnswerHolds, PTL

\* No container is left behind a result of the Podman backend or a shred of the
\* owner, unless podman stop and podman rm -f both failed: for any number of
\* sandboxes, and of failures of podman in calls before.
THEOREM ResultAlwaysMeansGone == Spec => []ResultMeansGone
<1>1. Layer1Inv => ResultMeansGone
  <2> SUFFICES ASSUME Layer1Inv, NEW s \in Sandboxes
               PROVE  /\ pc[s] = "idle" /\ outcome[s] = "COMPLETED" => container[s] = None
                      /\ pc[s] = "idle" /\ outcome[s] \in {"TIMEOUT", "shred"}
                            /\ failures[s] <= 1 => container[s] = None
    BY DEF ResultMeansGone, P!ResultMeansGone
  <2>1. HostAnswer(s) /\ failures[s] \in Nat
    BY OfOne DEF AnswerState
  <2> QED BY <2>1 DEF HostAnswer
<1> QED BY <1>1, AnswerHolds, PTL

\* The runner ends with 0 only for a task that ended with 0 and had no stdout
\* withheld, with 2 for everything a gate refuses, and with 2 never beside
\* output of a task or a closing event.
THEOREM RunnerAlwaysFaithful == Spec => []RunnerExitFaithful
<1>1. Layer1Inv => RunnerExitFaithful
  <2> SUFFICES ASSUME Layer1Inv, NEW s \in Sandboxes, Answered(s), backend[s] # None
               PROVE  /\ ExitCode(s) = 0 =>
                           /\ run[s].code = 0 /\ O!Logged(s, "finish")
                           /\ ~O!Logged(s, "exfil_blocked")
                      /\ Refused(request[s]) /\ outcome[s] \notin OfShred
                           => ExitCode(s) = 2
                      /\ ExitCode(s) = 2 =>
                           /\ released[s] = NoOutput
                           /\ request[s].valid => O!Last(trail[s]) \notin
                                {"complete", "exfil_blocked", "finish", "timeout"}
    BY DEF RunnerExitFaithful, OfShred
  <2>0. Backends = {"podman", "openshell"} /\ None \notin Backends
    BY Layer1Assumption DEF Backends
  <2>1. CASE backend[s] = "podman"
    <3>1. ExitCode(s) = P!RunnerExit(outcome[s])
      BY <2>0, <2>1 DEF ExitCode
    <3>2. outcome[s] \in P!Results => P!StateValue(outcome[s]) # "COMPLETED"
      BY DEF P!Results, P!StateValue
    <3>3. /\ P!RunnerExit(outcome[s]) # 0
          /\ P!RunnerExit(outcome[s]) = 2 <=> outcome[s] \in Refusal
      BY <3>2 DEF P!RunnerExit, Refusal
    <3>4. PodmanAnswer(s) /\ O!Last(trail[s]) = P!Last(trail[s])
      BY <2>1, OfOne DEF AnswerState, O!Last, P!Last
    <3>5. Refused(request[s]) /\ outcome[s] \notin OfShred => outcome[s] \in Refusal
      BY <3>4 DEF PodmanAnswer, Answered, Refused, Refusal
    <3>6. ASSUME outcome[s] \in Refusal
          PROVE  /\ released[s] = NoOutput
                 /\ request[s].valid => P!Last(trail[s]) \notin
                      {"complete", "exfil_blocked", "finish", "timeout"}
      BY <3>4, <3>6 DEF PodmanAnswer, Refused, Refusal, OfShred
    <3> QED BY <3>1, <3>3, <3>4, <3>5, <3>6
  <2>2. CASE backend[s] = "openshell"
    <3>1. ExitCode(s) = O!RunnerExit(outcome[s])
      BY <2>0, <2>2 DEF ExitCode
    <3>2. /\ O!RunnerExit(outcome[s]) = 0 => outcome[s] = "success"
          /\ O!RunnerExit(outcome[s]) = 2 <=> outcome[s] \in Refusal
      BY DEF O!RunnerExit, Refusal
    <3>3. OpenShellAnswer(s)
      BY <2>2, OfOne DEF AnswerState
    <3>4. ASSUME outcome[s] = "success"
          PROVE  run[s].code = 0 /\ O!Logged(s, "finish") /\ ~O!Logged(s, "exfil_blocked")
      <4>1. trail[s] = <<"start", "finish">> /\ run[s].code = 0
        BY <3>3, <3>4 DEF OpenShellAnswer
      <4> QED BY <4>1, InShortLog DEF O!Logged
    <3>5. Refused(request[s]) => outcome[s] \in Refusal
      BY <3>3 DEF OpenShellAnswer, Answered
    <3>6. ASSUME outcome[s] \in Refusal
          PROVE  /\ released[s] = NoOutput
                 /\ O!Last(trail[s]) \notin
                      {"complete", "exfil_blocked", "finish", "timeout"}
      <4>1. /\ released[s] = NoOutput
            /\ trail[s] \in {<<>>, <<"auth_failure">>, <<"injection_blocked">>, <<"start">>}
        BY <3>3, <3>6 DEF OpenShellAnswer, Refusal, Refused
      <4> QED BY <4>1, LastOfShortLog
    <3> QED BY <3>1, <3>2, <3>4, <3>5, <3>6
  <2> QED BY <2>0, <2>1, <2>2, OfOne
<1> QED BY <1>1, AnswerHolds, PTL
=============================================================================
