# VibeShield in TLA+

This directory is a verification development of VibeShield, a runner for
confidential agent tasks written in Python: TLA+ modules translated from the
source under `src/`, TLC configurations that check them on small instances, and
theorems proved with TLAPS. `PROJECT.json` is its index: it names, for every
definition, the lines of the source it stands for, and for every property the
run that checks it.

## 1. The system

VibeShield has three layers and a set of security modules. Nothing is a server
with threads of its own: each class is a library object, called in any order by
whoever holds it. What is concurrent is what surrounds the objects: containers,
subprocesses, other processes of the same user, the clock, files that outlive
the process, tags of images that move, tasks that write to a workspace at any
time, and programs that are not there, fail or outlast a timeout.

| component | state it keeps | operations | hard behaviour | what makes it correct |
|---|---|---|---|---|
| Escrow engine, `core/layer3_escrow.py` | dictionaries of bounties and reputations | create, claim, submit, approve, dispute | each method checks a different part of the state; any caller, any order | a lifecycle whose fields agree, credit for one's own work only, a ledger |
| Audit log, `core/security/audit.py` | list of hash-chained entries, exported file, tracker file | record, verify, three exports, import, query, Merkle root and proof | crashes between writes, torn lines, imports refused half way, damage, a clock that is set back, odd trees | an intact chain verifies, a damaged one does not; exports can be imported; queries and proofs mean what they say |
| Podman sandbox, `core/layer1_sandbox.py` | state, audit log; on the host a container and a seccomp file | deploy_agent, cryptographic_shred, verify_isolation | the container outlives its killed client; podman fails or hangs; a file shared by processes | only checked requests run, a risky stdout stays inside, a result means the container is gone |
| OpenShell sandbox, `core/layer1_openshell.py` | a policy file on the host; the log is local to a call | execute_task, deploy_agent_compat | timeout, exit codes | the same gates; the log and the exit code say how a result came about |
| Backend factory, `core/layer1_factory.py` | none | get_backend, create_sandbox | a flag, a variable of the environment and a default, of which only the variable is checked | a caller is kept the same promise whatever it chooses |
| Task runner, `scripts/sandbox_task.py` | none | one task | exceptions and results of two backends become exit codes | success and refusal have exit codes that nothing contrary comes with |
| Egress proxy, `core/security/egress.py` | allowlist, request history, buffer of events | add, remove, evaluate, log_connection | counting before checking, windows, a trimmed buffer | no minute holds more than the rate; nobody is denied for the requests of others or for old ones |
| Rate limiter, `core/security/ratelimit.py` | token buckets by scope; a sliding window | check one or all scopes, reset, cleanup, allow | refills, buckets dropped and made again, rounding, rates and bursts too small for a token, a wall clock that is set | burst and rate bound what is granted; who is told to retry is served |
| Orchestrator, `core/layer2_orchestrator.py` | time of the last acknowledged heartbeat | send_heartbeat, batch_heartbeat, check_agent_health | a server that refuses, garbles, or is silent; a wall clock that is set | health only fades without an acknowledgement; a batch ends |
| Workspaces, `core/security/workspace.py` | dictionary of workspaces, directories and mounts | create, wipe, cleanup_stale | mount, umount, overwriting and removal fail, hang or are not there; tasks write meanwhile | data from before a wipe is left only if two protections failed; stale workspaces are wiped |
| Scanners, `core/security/injection.py`, `exfil.py` | none beyond a scan | scan, should_block | families of patterns replace each other's scores; a sample of a set whose order is arbitrary | no evidence lowers a score; a block and a clearance have their reasons |
| Seccomp profiles, `core/security/seccomp.py` | allowlist, explicit blocks, mode | add, allow_network, block, to_dict, save | rules from several lists, the first one decides; one file for all processes of a user, which die and fail over it | what is blocked is refused; a file that was closed is whole |
| Image verification, `core/security/image_verify.py` | trusted manifests | add, remove, verify | podman resolves a tag in the local store, cosign in the registry | a verified image is the pinned one, and its signature is by the pinned key |
| Command router, utilities, deployment files | see section 8 | | | |

How they interact. `scripts/sandbox_task.py` asks the factory for a sandbox and
turns its result into an exit code. Both sandboxes call the injection scanner on
the payload and the exfiltration scanner on the output, and record to an
`AuditLog`; the Podman sandbox writes a seccomp profile for podman. The escrow
engine, the orchestrator, the egress proxy, the rate limiter, the workspace
manager and the image verifier are not called by the sandboxes of this
repository: each is used by its own caller, which is why their modules have no
shared variables. The compositions that exist are the runner, the factory and
the two sandboxes behind them (`Layer1`), each sandbox with its host (inside
`Sandbox` and `OpenShell`, through the file system and podman), the processes
that share a seccomp file (`SeccompFile`) and the audit log with its files
(inside `AuditLog`). The verdicts of the scanners are inputs of the sandboxes:
a request that is malicious is one for which `Injection` ends in MALICIOUS.

The hazards, each at its line, are listed in `PROJECT.json` under `hazards`.

## 2. Modules

| module | models | abstract specification | instances | theorems |
|---|---|---|---|---|
| `Escrow` | the escrow engine | `BountyLedger` | `MCEscrow` | `EscrowProofs` |
| `AuditLog` | chain, exports, imports, crashes, damage | | `MCAuditLog` | `AuditProofs` |
| `AuditReader` | query, pages, Merkle tree | the reference definition `Meaning` | `MCAuditReader` | `AuditReaderProofs` |
| `Tasks` | what both backends are given | | | `Layer1Proofs` |
| `Sandbox` | the Podman sandbox and its host | `GatedTask` | `MCSandbox` | `Layer1Proofs` |
| `OpenShell` | the OpenShell sandbox | `GatedTask` | | `Layer1Proofs` |
| `Layer1` | factory, runner and the two sandboxes | `GatedTask` | `MCLayer1` | `Layer1Proofs` |
| `Egress` | the egress proxy | | `MCEgress` | `EgressProofs` |
| `RateLimit` | the token buckets | | `MCRateLimit` | `RateLimitProofs` |
| `SlidingWindow` | the sliding window | | `MCRateLimit` | `RateLimitProofs` |
| `Heartbeat` | the orchestrator and the server | | `MCTimed` | `TimedProofs` |
| `Workspace` | the workspace manager and the mounts | | `MCTimed` | `TimedProofs` |
| `Injection` | the scan of a payload | | `MCGuards` | `GuardProofs` |
| `Exfiltration` | the scan of an output | | `MCGuards` | `GuardProofs` |
| `SeccompProfile` | a profile, its documents and what they permit | | `MCGuards` | `GuardProofs` |
| `SeccompFile` | the file that processes share | | `MCGuards` | `GuardProofs` |
| `ImageVerify` | the verification of an image | | `MCGuards` | `GuardProofs` |

`MCGuards`, `MCTimed` and `MCRateLimit` each look at components that
share nothing; a behaviour is one of one of them, chosen in the initial state,
and the others stand still. In the same way `GuardProofs` holds the theorems of what
guards a task, and `TimedProofs` those of the workspaces and the heartbeats. All
but one of the modules that are brought together in this way have prefixed names
(`WindowNext`, `HeartbeatNext`).

State and actions correspond to the code as follows.

**Escrow.** `bounties` and `reputations` are the two dictionaries; `known` is the
set of keys of the second, because `get_agent_reputation` creates what it does
not find. One action per public method; a call that returns False writes nothing
and is a stuttering step. `settled` counts how often `settled_at` was written
and is a history variable. Money is only logged by the code, so a payment is
the settlement it belongs to. `Settle` is shared by approval and by the three
resolutions. The panel of the code votes in the agent's favour as a placeholder;
`PanelDecisions` lets it vote for anything, and the tally keeps `max`'s choice
of the first decision among equals, and its `ValueError` for an empty panel.
Scores are halves and decay is a rational number; the final `round(rs, 4)`
becomes integer rounding in units of 1/10000.

**AuditLog.** `entries` is the list, `file` and `tracker` are on disk and
survive `Crash`. `modes` is the way of exporting a deployment has chosen, fixed
in the initial state: the code takes any mode at any call, but what a file holds
depends on which of them meet in it. Each write of a line is a step, so a crash or
a full disk (`ExportFails`) can come between any two, and may leave the line torn;
what is then appended spoils it. `import_jsonl` is `ImportRefused` for each number
of lines it accepts before one is refused, or `ImportComplete`. SHA-256 is assumed
injective: a hash is the sequence of contents it commits to. `Modify` and
`Remove` are other code of the process that changes the mutable entries. The
callback `on_critical` runs after the entry was stored, with its exceptions
caught; one that records again is a `Record` that follows a `Record`.

**AuditReader.** The same list seen by its readers: the loop of `query`, entry by
entry (`Visit`), with its early exits, offset and limit; `get_recent`; the levels of
the tree, padding, siblings and indices of proof and root; a clock that moves both
ways. `ReadPage` is a client outside of the program, in either order, that takes the
number of entries it has as its next offset; an anchor is kept outside too. `Picked`, `Page` and `Meaning` say what a query means without a loop and are no
part of the code.

**Tasks.** The arguments of a call as far as a gate or `subprocess.run` looks at
them, and what the scanner of outputs says of stdout, or would say of stderr if it
were asked. Both sandboxes extend it.

**Sandbox.** One `pc` per sandbox walks through `deploy_agent`: gates (`Submit`),
seccomp file, options, podman, the end of the run with the exfiltration gate, or
timeout and shred. `container` is on the host: it starts after podman was called,
exits when it likes, survives the client, and is met again by a later call of the
same object, whose container name it occupies. `podman stop` and `podman rm -f`
may each fail or hang, the seccomp file may fail to be opened or written, and Podman's
own may be missing or not what it should be. `subprocess.run` refuses an argument with
a NUL, and cannot decode what is not UTF-8, after the task has run. What the scanners
find is an input, and only stdout is scanned: `Finish` returns stderr as it is, with
the OpenShell backend also beside a blocked stdout. `Exceptions` are the classes that
leave `deploy_agent`, a subclass counting as the class the runner catches. The branch for `CalledProcessError` is unreachable and left out.

**OpenShell.** The same shape with the policy file, which may fail to be opened or
written to its end, and one command; a timeout of the command is one step.

**Layer1.** `backend` is the class of a sandbox object once `create_sandbox` has
chosen it, from the flag, the environment or the default. A name of no backend in the
environment raises and leaves no object; one given as an argument is Podman. From then on a step of the object is a step of
the module of its backend: `P` and `O` are instances of `Sandbox` and `OpenShell`
that share the variables of a call, and what only one of them has stays as it is
for the other. `ExitCode` is what `main()` of the runner makes of the outcome.

**Egress.** `evaluate` is one action with the checks in order; the request is
counted before the checks, and only the check of the rate forgets old requests, those
of the agent that asks. `log` keeps every event for the properties. The clock of this
module does not step back; it is `time.time()` in the code, and where it is set back the
minute of the rate limit is not one of real time.

**RateLimit.** Tokens are counted in parts (`Unit` parts per token) so that a
refill per tick is a whole number; `Check` folds `consume` over the scopes of a
check, those of `check_all` being as many as its caller names and the global one. Rates
of 0, which wait for the cooldown, and bursts below one token are among the
configurations; negative ones are not. `promise` and `granted` are history variables.

**SlidingWindow.** `timestamps` is the list, in the order of the calls; `wall` is
`time.time()`, which `SetBack` may turn back and `PutForward` put forward, and
`forward` how far it has run forward over all, kept for the properties only.

**Heartbeat.** A batch sends one request after the other; the server answers,
refuses, garbles (`Raised`) or is silent (`Unanswered`). `HeartbeatTick` sets the wall
clock to any other time: time passes, or somebody sets it.

**Workspace.** mount, the overwriting, umount and the removal are steps; `Faults` says
which may fail, outlast their timeout or not be there. A mount may come about after its
timeout; an overwrite may miss files and `rmtree` leave them, as both pass over errors;
an `umount` that cannot be started ends `wipe`, and the loop of `cleanup_stale`, with
an exception. Tasks write at any time, also while their workspace is wiped and after.
`went` and `exposed` are history variables: what went wrong with a workspace, and
whether its data was deleted without being overwritten.

**Injection.** A pattern is a member of one of three families; which of them
match, in the original text or in a decoded variant, is left open, up to what the
texts exclude: a text that is one base64 string holds no character that the other
obfuscation patterns ask for, except what stripping takes away. `Score` is the
arithmetic at the end of `scan`. Scores are whole hundredths; the sums of floats
in the code that are compared with a threshold come out on the side where the
hundredths do, which was computed for every number of matches.

**Exfiltration.** Eight checks in a fixed order, each of which may add to the
score. The check of the fingerprint goes through a Python set, whose order is
arbitrary, and stops after `SampleLimit` shingles: `Sample` takes a leaked or a
clean one while there are any. Sizes are in units of 0.15 of the expected one.

**SeccompProfile.** The object and its calls, with any default action; `Document` is what `to_dict` makes
of it in its two modes, as a default action and a list of rules. libseccomp is
external: `Effective` lets the first rule that names a call decide, which the
comments of `_to_dict_harden` rely on.

**SeccompFile.** Each process writes its document piece by piece at an offset of
its own, after a truncation that does not move the offsets of the others, and
remembers the path when it has closed the file. Podman may be upgraded in between,
writes fail (`SaveFails`) and leave what they wrote, processes die, and the temporary
directory may be cleaned. `opener` is a history variable: whose truncation was the last.

**ImageVerify.** One action per question the verifier asks of the outside: the
manifest, `podman image inspect`, cosign. podman looks into the local store and cosign
asks the registry, which may differ from the beginning; `MoveTag` is another program
that changes either, at any time. `Stripped` is the name under which a manifest is
looked up, the part before the first colon.

`GatedTask` is what both sandboxes promise: a task starts only through the gates,
every submission is answered once, and a risky stdout is returned only if scanning
was off; of stderr it promises nothing, as no backend scans it. `BountyLedger` is what the escrow engine promises about credit: a bounty
gets a worker at most once and never after it was settled, and each settlement
credits one task to the worker it has at that moment.

## 3. Runs

| run | module | what happens | distinct states | result |
| --- | --- | --- | ---: | --- |
| `escrow_panel` | `MCEscrow` | two bounties through every order of calls, any votes | 72 402 | holds |
| `escrow_final` | `MCEscrow` | the flow of the docstring ends in SETTLED |  | violated |
| `audit_exports` | `MCAuditLog` | three deployments: overwriting, incremental, all modes mixed; crashes, imports, damage, details too large to import | 1 285 801 | holds |
| `audit_reader` | `MCAuditReader` | queries, paging in both orders, Merkle anchors | 70 778 | holds |
| `layer1_tasks` | `MCLayer1` | three calls of a sandbox of either backend, failing podman, gateway and disk | 226 724 | holds |
| `sandbox_log` | `MCSandbox` | a deployment times out |  | violated |
| `sandbox_output` | `MCSandbox` | a task writes to stderr |  | violated |
| `sandbox_egress` | `MCSandbox` | a deployment with egress rules |  | violated |
| `egress_rate` | `MCEgress` | connections of two agents against changing rules and rates | 508 408 | holds |
| `ratelimit_scopes` | `MCRateLimit` | agent, address and global buckets; the sliding window | 704 879 | holds |
| `timed_faults` | `MCTimed` | batches to an unreliable server; create, use, wipe and collect under every fault; a clock that is set | 501 652 | holds |
| `guards` | `MCGuards` | every set of matches, every order of the sample; profiles, their shared file, images whose tag differs | 659 459 | holds |

The configuration of a run is `<module>_<second word>.cfg`; for those whose name
does not tell: `audit_reader` is `MCAuditReader_all.cfg` and `guards` is
`MCGuards_all.cfg`.

What they check:

* *escrow_panel*: `LifecycleInv` (state, claimant, snapshot and
  settlements agree), `CreditsMatchSettlements` (tasks credited to an agent equal
  the settlements of the bounties it holds), `RecentTasksWeighMore` (the score is a
  score and prefers recent work), `ClaimIsPermanent`, `RecoveryNeedsOwnBounty` (an
  agent below the threshold gets no further bounty and recovers only through one it
  holds), and the refinement `ImplementsLedger`.
* *escrow_final*, *sandbox_log*, *sandbox_output*, *sandbox_egress*: refute
  `SettledIsFinal`, `EveryResultIsLogged`, `OutputsAreScanned` and `EgressRulesApply`;
  see section 7.
* *audit_exports*: `ChainIntact`, `FaultsAreDetected` and `LogIsAppendOnly` for
  every deployment: exports into one file, a crash or a failed export, imports of
  whatever is left, damage in memory. `IncrementalIsExact` for a deployment that
  exports incrementally, as long as nothing was cut short. `ExportsAreImportable`: an
  export that runs to its end leaves a file that can be imported, exactly if no entry
  of the log is too large to (one of the two contents of the run is); for a deployment that only
  overwrites, whatever crashed exports had left in the file, and for one that only
  exports incrementally, as long as nothing was cut short. Appending is not covered,
  nor are modes that are mixed.
* *audit_reader*: `QueryIsFilter` compares `query` with its meaning for every
  combination of filters, bounds, limits and orders, over logs in the order of time;
  `PagesAreExact` for a reader paging oldest first while the log grows, and
  `PagesLeaveNoGap` for one in the default order, which may be given an entry again;
  `ProofsVerify` for every leaf of trees of up to nine leaves; `RootCommits` for an
  anchored root against later damage.
* *layer1_tasks*: `ResultMeansGone`, `OnlyCheckedRequestsRun`, the refinement
  `ImplementsGatedTask` and, with fairness, `DeployReturns`. `TrailTellsOutcome` says
  which end of a call has which last event in the log: the refusal of a gate, a
  result that is delivered, one whose stdout is withheld, with OpenShell also a timeout. A
  timeout with Podman, and with both the exceptions after the gates (a missing program,
  a full disk, a NUL in an argument, output that is not UTF-8, the timeouts of a shred), leave no
  trace of their own: the log ends as that of a call under way. `RunnerExitFaithful`
  says what exit codes come with: 0 only with a task that ended with 0 and had nothing
  withheld, 2 with every request that a gate refused, and never with output of a task or
  beside an event that closes a call. An exit code of 2 does not mean a refusal: the runner
  makes it of every `ValueError` and `PermissionError`.
* *egress_rate*: `TypeOK`, with the bound of the buffer; `AllowedWithinRate`;
  `DeniedForOwnRequests`: who is denied for the rate has asked as often as the rule
  permits within the minute, counting its denied and twice logged requests, and nobody
  else's. That an agent that keeps asking keeps being denied, and that a rate of one
  serves nobody, is how the code is.
* *ratelimit_scopes*: `RateBound` of the buckets; `RetryIsServed`, for a key whose rate
  is not 0 and whose burst holds a token; `WindowBound` of the sliding window, in the time the
  clock has run forward, which is at least the time that has passed.
* *timed_faults*: `HealthOnlyFades` (only an acknowledgement, or setting the clock back,
  makes the health of an agent better) and, with fairness, `BatchEnds`.
  `NoSecretAfterWipe`: what was written before a wipe is left behind only where two
  protections failed, in a tmpfs that could not be unmounted and was not overwritten or came
  too late to be, or in a directory that never had a tmpfs and could not be removed.
  With fairness, `StaleIsWiped`: what `cleanup_stale` has picked is wiped, or it raises.
* *guards*: `EvidenceCounts` (no match lowers a score), `BlockNeedsEvidence`,
  `FingerprintIsFair` (whatever the order of the set, small contexts are measured
  exactly and large leaks leave a trace) and `ClearHasNoFinding` of the scanners;
  `BlockedIsRefused` and `NothingElsePermitted` of the seccomp documents;
  `ClosedFileIsWhole` of their file (once the write that truncated it last is closed, it
  is whole, whoever died, failed or is still writing, as long as all write the same
  document); `VerifiedMeansPinned` of images (the local image is the pinned one, and
  what cosign accepted is signed by the key of the manifest; that this is the same
  image holds for a reference with a digest only).

Every module states the types of its variables (`TypeOK`, in six modules with a
prefix). The egress proxy checks its own in a run, because a buffer could leave its bound.
The types of `Escrow`, `AuditLog`,
`AuditReader`, `Egress`, `RateLimit`, `Workspace` and `Heartbeat` are proved, and the invariants of section 6
carry what they need of the types of the other modules; the remaining type invariants document the variables and hold
under the configurations of their modules, without being listed in a run.

Every property has a mutant in the module, an operator marked `Mutant:` that
changes one definition the way a bug would; `PROJECT.json` names it, and the
property fails when it takes the place of the original.

## 4. Bounds, and why they are enough

* Escrow: two agents, two bounties, one client, three settlements per reputation
  (`MaxTasks`). Two of each is the least that lets a bounty be confused with
  another or an agent with another; three settlements reach a fall below the threshold, a recovery
  and a second settlement. For more, the theorems of section 6 hold for all values.
  `MinReputation` 0.3, decay 0.95 and a panel of three are the defaults of the code.
* AuditLog: three entries, three lines, two contents and one crash. A chain error
  shows between neighbours, so three entries are a first, a middle and a last one.
  One of the two contents is too large for an import.
* AuditReader: four entries, pages of one, two categories and two times give every pattern of
  filters and early exits; the tree is checked for the log of every state and
  apart, for one to nine leaves, which pads at every level up to the fourth.
* Layer 1: one sandbox object of either backend called three times, nine kinds of
  requests, two failures of stop and rm. One abandoned container needs two failures
  in one shred, and a third call meets what the second left. The proof of the
  refinement holds for any number of all of these.
* Egress: two agents, a window of three ticks, rates of two and three, three events, a
  buffer of two that is cut to one: a request can leave the window, a rule can change
  between two requests, an agent can be denied for its own requests, and would be for
  those of the other if they counted; the buffer is cut.
* RateLimit: a clock of seven ticks, tokens that take three and a half ticks for the
  agent and never come for the address. A tick stands for 0.01 seconds, a stale time of
  three ticks for 300 seconds and two buckets for 10000. What matters is kept: retry times that are rounded, three
  keys that cannot all keep their buckets, and a burst that is refilled when a
  bucket is dropped (see section 7 for keys of which it is not).
* SlidingWindow: five requests, two of them allowed in a window of three ticks, and
  a clock set back by two and put forward by as much, again and again:
  timestamps out of order on both sides of the cut.
* Heartbeat: two agents, batches of two, interval one and threshold three, so that
  all three states of health are reached, by any setting of the clock as well.
* Workspace: two workspaces, so that one is collected while a task uses the other,
  and all eight faults, any two of which can meet.
* Injection: four malicious, four suspicious and nine obfuscation patterns, which
  reach every cap, every threshold and the seven kinds of obfuscation that block;
  the theorems hold for families of any size.
* Exfiltration: one pattern of each weight, a ratio on each side of the limit, three
  shingles and a sample of two, so that a sample can miss a leak.
* Seccomp and images: six system calls, one for each combination of lists they can be
  in, four calls on a profile with any default action; three processes, of which one may have
  died, another truncate and a third still write, a document of three pieces and
  one upgrade; two names, one of them of a registry with a port, two digests, one key,
  and every tag moved at will. The theorems hold
  for any number.

## 5. Fairness

Safety is checked without it. The runs of three modules assume weak fairness, and only
of steps that are up to the program or to a timeout it has set:

* `Layer1`: `AdvancePodman` and `AdvanceOpenShell` for each sandbox, the code of a
  call under way. `subprocess.run` raises after its timeout, so `RunTimeout` and
  `CreateTimeout` are among them. Nothing is assumed of podman, the container or
  the gateway. `Sandbox` and `OpenShell` state the same of themselves.
* `Heartbeat`: sending the next request, returning, and `Unanswered`, the timeout
  of `urlopen`. That timeout bounds each wait for data, so a server that sends its
  response byte by byte for ever is outside of the assumption.
* `Workspace`: the steps of a call of the manager, each a subprocess with a timeout
  or code of its own, and the loop of `cleanup_stale`. Nothing is assumed of which of
  the outcomes a subprocess has.

## 6. Theorems

For every value of the constants that satisfies the named assumption of the module
(`EscrowAssumption`, `AuditAssumption`, `ReaderAssumption`, `TasksAssumption` and `Layer1Assumption`,
`EgressAssumption`, `RateLimitAssumption`, `WorkspaceAssumption`,
`HeartbeatAssumption`,
`InjectionAssumption`, `ExfiltrationAssumption`, and those the proof modules
define and name as a hypothesis of their theorems: `WindowAssumption`,
`ProfileAssumption`, `FileAssumption`, `ImageAssumption`), TLAPS proves:

| module | theorem | property | also assumed |
|---|---|---|---|
| `EscrowProofs` | `TypeCorrect` | `TypeOK` | |
| | `EscrowCorrect` | the inductive invariant `EscrowInv` | |
| | `EscrowSafety` | `LifecycleInv`, `DisputesAreDecided`, `ReputationInv`, `CreditBacked` | |
| | `ClaimIsPermanentTheorem` | `ClaimIsPermanent` | |
| | `RecoveryNeedsOwnBountyTheorem` | `RecoveryNeedsOwnBounty` | |
| | `CreditsAlwaysMatch` | `CreditsMatchSettlements` | finitely many bounties |
| | `RecentAlwaysWeighMore` | `RecentTasksWeighMore` | `DecayNum <= DecayDen` |
| | `ImplementsLedgerTheorem` | the refinement `ImplementsLedger` | |
| `AuditProofs` | `ChainAlwaysIntact` | `ChainIntact`, `TypeOK` | |
| | `FaultsAlwaysDetected` | `FaultsAreDetected` | the last entry is not lost |
| | `LogOnlyGrows` | `LogIsAppendOnly` | |
| | `IncrementalAlwaysExact` | `IncrementalIsExact` | |
| | `ExportsAlwaysImportable` | `ExportsAreImportable` | |
| | `LastHashCommits` | what the last hash of a log says of it | |
| `AuditReaderProofs` | `ReaderTypes` | `TypeOK` | |
| | `QueriesFilter` | `QueryIsFilter` | |
| | `PagesExact` | `PagesAreExact` | |
| | `ProofsLead` | `ProofsVerify` | |
| | `RootsCommit` | `RootCommits` | no entry is stored twice |
| | `RootInjective` | what a Merkle root says of its leaves | |
| `Layer1Proofs` | `CallInvariant` | the inductive invariant `CallInv` | |
| | `OnlyCheckedEverRun` | `OnlyCheckedRequestsRun` | |
| | `TrailAlwaysTells` | `TrailTellsOutcome` | |
| | `ResultAlwaysMeansGone` | `ResultMeansGone` | |
| | `RunnerAlwaysFaithful` | `RunnerExitFaithful` | |
| | `Layer1ImplementsGatedTask` | the refinement `ImplementsGatedTask` | |
| `EgressProofs` | `EventsStayBounded` | `TypeOK`, with the bound of the buffer | |
| | `RateNeverExceeded` | `AllowedWithinRate` | |
| | `DeniedOnlyForOwn` | `DeniedForOwnRequests` | |
| `RateLimitProofs` | `RetryAlwaysServed` | `RetryIsServed`, `TypeOK` | |
| | `RateAlwaysBound` | `RateBound` | |
| | `WindowAlwaysBounds` | `WindowBound` | |
| `TimedProofs` | `NoSecretEverLeft` | `NoSecretAfterWipe` | |
| | `WorkspaceTypes` | `TypeOK` of `Workspace` | |
| | `HeartbeatTypes` | `HeartbeatTypeOK` | |
| | `HealthAlwaysFades` | `HealthOnlyFades` | |
| `GuardProofs` | `ScoreGrows`, `EvidenceAlwaysCounts` | `EvidenceCounts` | |
| | `BlockAlwaysNeedsEvidence` | `BlockNeedsEvidence` | |
| | `FingerprintAlwaysFair` | `FingerprintIsFair` | |
| | `ClearNeverHasFinding` | `ClearHasNoFinding` | |
| | `BlockedAlwaysRefused` | `BlockedIsRefused` | |
| | `NothingElseEverPermitted` | `NothingElsePermitted` | |
| | `ClosedFileAlwaysWhole` | `ClosedFileIsWhole` | |
| | `VerifiedAlwaysPinned` | `VerifiedMeansPinned` | |

The last column is what a theorem needs beyond the assumption of its module, and
none of it is there for the proof alone.

* A bounty is a key of a dictionary, so there are finitely many. The decay is 0.95
  by default; above 1 the oldest task would weigh most, and the property is false.
* `FaultsAreDetected` and `RootCommits` are false without their hypotheses, see
  section 7.

Two properties have conditions of their own. `RateBound` is about the keys with
`StaleIsFull`, whose rate fills a bucket in the time after which it is dropped as stale: the code's
defaults satisfy it by far, 300 seconds at 5 to 50 tokens per second for bursts of 10 to
100, but nothing keeps a deployment to it, and section 7 says what happens to the other keys.
`RetryIsServed` is about the keys with `Refills`, as a key of rate 0 or of a burst below
a token never gets one by waiting.

The argument for the engine. What a run checks is seldom inductive by itself.
`CreditBacked` (an agent with a recorded task holds a settled bounty) could be lost
by a claim, which gives a bounty to another holder, unless an open bounty was never
settled, and that is a part of `LifecycleInv`. `DisputesAreDecided` depends on the
tally: `ConsensusDecides` proves that the votes with the most support form a
non-empty set of positions, which has a least one, and that the vote there is one the
panel may cast. `EscrowInv` is the conjunction of these parts with the types.
`DisputeCases` splits a dispute into the three settlements and the exception,
`LifecycleStep` shows once that a call which leaves the one bounty it writes legal
keeps the lifecycle, and `SettleInv` shows once that settling keeps every part.
Recovery then needs a bounty of one's own because only `Settle` extends a history,
and it extends that of the claimant, while a claim changes no score; the refinement
because `claimed_by` is written only by a claim of an open bounty, which is not
closed in the ledger, and `total_tasks` only by `Settle`.

The argument for credits. `CreditsMatchSettlements` sums settlements over the set of
bounties an agent holds, with a fold. `SumFacts` unfolds it: of a finite set any
element may be taken out first, whichever the fold chooses. A settlement then adds
one to one summand of one agent, and one to its `total_tasks`; a claim moves a
bounty, but one that was never settled.

The argument for the score. `Score` divides two sums along a history: the weighted
scores and the weights. With the weights they are three linear recursions, each of
which `LinearExists` shows to exist and to be what it is step by step. Exchange the
newest task with an older, worse one: from the older place on the weighted sum is
ahead of that of the true history, by what the two tasks differ in. Each later step
decays this lead, and a decay of at most one never enlarges it; at the newest place,
at full weight, the true history gains all of the difference (`ScoredSwap`). Rounding keeps the order.

The argument for the log. `AuditInv` adds to the types and to `ChainIntact` only
that an incremental export in progress has something to export, which the last step
relies on. The work is in lemmas on sequences: a prefix of a chain is a chain
(`PrefixOfChain`), a chain and an entry that follows it are one (`ExtendedChain`),
so are a chain and the lines an import accepts (`ImportedChain`); changing an entry
(`ModifiedChain`) or taking one out before the last (`GappedChain`) breaks the chain,
and what is appended later does not mend it. `FaultsAlwaysDetected` assumes that the
last entry is not lost, and section 7 shows why. `LastHashCommits` says what closes
this gap: two logs of one length that verify and end in one hash are the same.

The argument for the exports. `FileInv` follows an export line by line. What is in
the file and what is still to be written are together what the export set out to
write; each hash of a log is longer than the one it is chained to, also in a log
that was damaged, so no entry is chained to a later one; and while an incremental file is empty, the
tracker says that nothing was exported. The delicate case is an import in
between: `import_jsonl` repairs a damaged log by emptying it, which would leave the
file ahead of the log. It comes as far as that only with an empty file, because the
first line of any other is chained to a hash the damaged log still has. What an
overwriting export leaves does not depend on what the file held before; that it can
be imported follows from `ImportedChain` and from the contents: the file holds exactly
those of the log, so it can be imported if and only if none of them is too large.

The argument for queries. The loop of `query` is a recursion over the entries in the
order asked for; `QueryUnfold` gives its equations and `QueryLoop` its invariant: what
was found so far is the page, in the sense of offset and limit, of the selected
entries among those visited, what was skipped is their number up to the offset, and
the loop has ended only where the page is full or where nothing that follows is
selected. That last part is the early exit: an entry past a bound of the time is
followed, in that order, by none within it. It needs a log in the order of time, and
section 7 shows what a clock set back does to it. For the pages of a reader that goes
oldest first no order of time is needed: such a query has no bound, so no entry ends its
scan early (`UnboundedLoop`). A page continues where the one before
ended, and what is appended to the log is appended to what is selected
(`PickedAppend`), so the pages put together stay a prefix of it. Of a reader in the
default order the theorem says nothing; `PagesLeaveNoGap` is left to TLC. The types need that a
log never outgrows `MaxEntries`, which bounds the sequence numbers.

The argument for the Merkle tree. Every level with more than one node is shorter than
the one below it and none is empty, so the top is one node (`LevelsShrink`). Two lists
of leaves with the same root are taken apart from there: equal parents have equal
children (`ParentsInjective`), because a node tells its left and right. Three things
could spoil this, and are excluded one by one. A node is not a leaf, so the two trees
have the same height; the root of the empty log is neither; and a level of odd
length is padded with its last node, so that it has the parents of the level in which
this node is really there twice. The last is impossible where all nodes of
a level differ, which holds of the leaves when no entry is stored twice and goes up
with the levels (`ParentsDistinct`). `RootInjective` is the result, and the hypothesis of
`RootsCommit` is there for its last part: the code does accept the log with its last
entry repeated. Leaves tell entries because each hash ends in what its entry says and
is as long as its number (`Chained`, in the inductive invariant `Anchored`), also
after an entry was rewritten or lost. For proofs, `HeightFacts` and `IndexFacts` bound the index of an
ancestor at each level; `ProofClimbs` says that folding the first siblings of a proof
yields the ancestor at that level exactly if it started from the right leaf.

The argument for Layer 1. A caller sees of a sandbox whether a call is under way, its
request, its outcome and what it released. Each step changes this view in one of a
few ways (`HiddenStep`, `RefusedStep`, `AdmittedStep`, `AnsweredStep`,
`ShreddedStep`), and each of these is a stutter, a refusal, a start or an answer of
the gated task; one lemma for each group of steps of the two backends says which. That
an answer of risky output is one the gated task allows needs `CallInv`: a call that
is under way has no outcome and has released nothing until it ends, except that one
that timed out has its outcome while it destroys its container. `CheckedInv` is about
the container, which outlives its call and the next request of the same object: along
a call it accumulates which gates the request has passed and that its start was
logged, at the call of podman it hands this to the container, and the log only grows.

The argument for trail, result and exit code. `AnswerInv` says of each sandbox what
the last event of its log is along a call and after it, for each outcome and
exception, the exceptions that leave the log open included; how the outcome, the code of the command and what was released belong
together; and which container its host may still have. Together with the two
invariants before, every step of either backend keeps it: a step that ends a call
records its last event itself, a shred removes the container unless both of its
commands failed, and the runner sees nothing but the outcome. A `ValueError` can come from a gate or from
much later, so what is proved of exit code 2 is what both have in common: nothing was
returned and no event has closed the call.

The argument for the egress proxy. `CountInv` says that at each time within the
window the history of an agent holds exactly as many requests as the log says it made
since, denied ones included, and none of another agent. The filter of the rate check (a
recursion, unfolded in `RecentCounts`) drops only what is older, and the other
operations drop nothing. From this count both properties follow: a request that is allowed
is counted itself and finds fewer than its rate, of which those that were allowed are a
part (`GrantedIsAsked`); one that is denied for the rate finds as many as its rate, all
of its own agent (`DenyStep`). Cutting the buffer of events does
not touch the history.

The argument for the buckets. What counts is not what is stored in a bucket but what
a request would find in it (`Holds`): a refill changes nothing, a tick adds the rate
up to the burst, a bucket that is not there is full. Dropping a stale bucket can only
give to its key, and gives nothing where `StaleIsFull` (`NoLess`). A check of
several scopes is a fold over the scopes; `ScopesInOrder` shows that each scope loses
its own token and no other. `KeyInv` is the invariant of one key: the token it was
promised will have come by the time it was told, where tokens come at all and one fits;
and what it was granted since any
of its requests, plus what it still holds, is at most its burst and the rate
since then. The plus is what makes it inductive: the grant of a token is paid with
what is held.

The argument for the workspaces. `MountIsKnown` says that a tmpfs which is there
belongs to a workspace registered as mounted, unless its mount was given up after the
timeout: so `wipe` knows what it has to overwrite. `OverwrittenIsClean` says that from
then on it holds data only if the overwrite missed some or a task wrote since, which is
what lets an umount fail; `UnmountedIsEmpty` and `FallbackIsKnown` that a directory with
older data in it never had a tmpfs, which is what lets the removal of the others fail.
Together with `LeftIsExcused`, the property itself, they are the invariant `OneInv` of
one workspace; `MoveOne` shows that a step which touches one workspace need only be
looked at there.

The argument for the heartbeats. An age is an integer: after the clock was set back a
heartbeat may be of the future, and such an agent is live. `TimeFades` is the step of
a clock that is not set back, from any such state, for any interval and any threshold, also where two intervals
exceed the threshold and an agent goes from LIVE to OFFLINE at once. Of the other steps only an acknowledgement writes a time, and
it leaves LIVE or STALE as the status last returned.

The argument for the scanner. The score is not a sum: a malicious match replaces what
the other families have scored. `TotalGrows` shows that what a family replaces is never
above what replaces it, and `ScoreGrows` carries this to sets of patterns.
`BlockAlwaysNeedsEvidence` then is about the few numbers that reach 0.7. For outputs,
`SampleInv` bounds what was found by what leaked, and what was checked and not found
by what did not leak, at every point of the loop, in whichever order the set is gone
through; `PointsInv` says that every finding but a weak fingerprint adds ten points at
least, so that a score which is rated clear has no other.

The argument for the window. The timestamps are not in order once the clock was set
back. `WindowInv` pairs each of them with one of the last requests that were allowed:
the clock has run forward since by no less than it shows, so a timestamp looks no older by
the clock than its request is by what the clock has run, whatever was dropped is older
than the window, and all that was allowed before it is older still. Of what is kept there are at most `MaxRequests`.

The argument for the file. Who truncated the file last has all of it still to write, and
`FileInv` says that up to its offset the file is right. Other writers put the same piece
in the same place, if they were given the same document (`OneDocument`), and one that
fails or dies takes nothing away; only another truncation does, and then that process is
the one to look at. When its write is closed, every piece is right.

The argument for profiles. `FirstRuleDecides` says that a call is refused if the first
rule that names it refuses it, and the proofs give that rule for each mode. In the
from-scratch mode explicit blocks come before an allowlist that leaves them out.
For images, `Compared` says that a verification which has come to the signature has
compared the digest it will report with the manifest it holds; what a digest in the
reference adds is that cosign is asked about the same one, and with a tag it is not.

Out of the prover's reach, and left to TLC: liveness under fairness and `ENABLED`, which
are `DeployReturns`, `BatchEnds` and `StaleIsWiped`; and modules that reach a RECURSIVE
operator. No definition of a module with theorems is a RECURSIVE operator: recursion
is written as functions and folds. The induction theorems of the library take an
operator as a parameter, which the provers cannot instantiate, so the proofs do
without them: a recursive function is shown to exist, and to be what its equations
say, by the lemma that a set of naturals with 0 and all successors is all of them
(`AllNaturals`), applied to the set of lengths, or of sizes, for which it does.

## 7. Where the code and its documentation part

Four runs end in the violation they expect.

* *escrow_final*. `submit_work` (`layer3_escrow.py:214`) and `dispute_bounty` (261)
  do not look at the state. A settled bounty is submitted or disputed again, and
  settled and credited once more. The flow at line 142 ends in SETTLED.
* *sandbox_log*. A deployment that times out returns a result (`layer1_sandbox.py:305`)
  and records nothing, so its log ends with the start, as if it were still under way.
  The docstring at line 121 says that every stage is recorded to the audit log.
* *sandbox_output*. Only stdout is scanned (253), and stderr is returned (296), with the OpenShell
  backend also where stdout was blocked (`layer1_openshell.py:256`). README.md:308 says
  that all outputs are scanned before delivery.
* *sandbox_egress*. `_apply_egress_rules` (`layer1_sandbox.py:379`) uses names that
  are imported only inside `deploy_agent`, so a deployment with egress rules ends in
  a NameError, or before that (375) in an AttributeError if its rules are dicts.
  README.md:289 says the rules are applied and audit-logged.

The modules state more of what comments and documents say and the code does not do.
These definitions stand at the end of each module and in no run; TLC refutes each
with the configuration of the run named, changed as noted.

| property | says | source | configuration |
|---|---|---|---|
| `OneActiveBountyPerAgent` | an agent works on one bounty at a time | `layer3_escrow.py:179`, not checked in 182-199 | escrow_panel |
| `PaidOnlyForDeliverable` | settled only with a snapshot | `README.md:200`; a dispute of a bounty without one settles it | escrow_panel |
| `EveryExportIsImportable` | a finished export can be imported | "a" writes only the last entry (`audit.py:393`) | audit_exports, `Deployments = {{"a"}}`, `LargeContents = {}`, no faults or crashes |
| | | a crash before the tracker is written repeats entries (445) | audit_exports, `Deployments = {{"incremental"}}`, `LargeContents = {}`, no faults |
| | | record accepts details that import refuses (480) | audit_exports, `Deployments = {{"w"}}`, no faults or crashes |
| `CaughtUpMeansExported` | only new entries are appended | what follows a torn line lands on the same line, and the tracker counts it as exported; after a restart the tracker is ahead of the new log (422, 433) | audit_exports, `Deployments = {{"incremental"}}`, no faults |
| `CleanMeansExported` | `_dirty` tracks whether an export is needed | an overwriting export of a clean log that fails leaves it clean beside an empty file (121, 399) | audit_exports, `Deployments = {{"w"}}`, no faults |
| `FaultsAreDetected` | any removal breaks the chain | the loss of the last entry does not (`audit.py:5`) | audit_exports, `Faults = {"truncate"}` |
| `RecentIsComplete` | get_recent returns the last N seconds | a clock set back ends the scan early (356, 375) | audit_reader, `MaxTime = 3`, no faults |
| `RootCommits` | the root commits to the entire log | the last leaf stored twice gives the same root (235, 310) | audit_reader, `Faults = {"repeat"}` |
| `EphemeralAfterDeploy` | all data destroyed after completion | stop and rm may both fail, and their timeouts escape (`layer1_sandbox.py:87`, 416) | sandbox_egress |
| `ProfileReady` | the profile is saved once | two processes save one file in place (329, 345) | sandbox_egress, two sandboxes, `OwnProcesses`, `PlainRequests`, one call |
| `RanIsNoUsageError` | exit code 2 is for usage errors and blocked payloads | a task whose output is not UTF-8 has run, and ends with 2 (`layer1_sandbox.py:239`, `sandbox_task.py:19`, 121) | sandbox_egress |
| `PagesNeverRepeat` | pagination | newest first, what is recorded between two pages pushes entries into the next one (`audit.py:362`) | audit_reader |
| `RunnerReportsSuccess` | exit code 0 for success | `"completed"` is compared with `"COMPLETED"` (`sandbox_task.py:114`) | sandbox_egress |
| `IsolationIsVerified` | a dict of security checks | json is not imported (457) | sandbox_egress |
| `HostIsClean` | nothing to clean up on the host | the policy file stays (`layer1_openshell.py:225`, 117) | layer1_tasks |
| `CompatReportsTimeout` | TIMEOUT is one of the states | a timeout is FAILED (280, 292) | layer1_tasks |
| `EgressIsTranslated` | egress rules become policies | the argument is not read (`README.md:140`, 129) | layer1_tasks |
| `UnknownBackendIsUsageError` | exit code 2 for an unknown backend | a name from the environment raises outside of the try statement and ends with 1 (`sandbox_task.py:19`, 88) | layer1_tasks |
| `DeniedMeansOverRate` | as many requests per minute as the rule says | one fewer, the request counts itself (`egress.py:181`, 230) | egress_rate |
| `EveryConnectionIsLogged` | every connection is logged | the buffer is cut (`egress.py:9`, 256) | egress_rate |
| `RetryAfterIsEnough` | seconds to wait before retrying | rounded down (`ratelimit.py:109`, 247), and a rate of 0 is told a cooldown after which nothing has come (236) | ratelimit_scopes |
| `MostRestrictive` | the most restrictive result | the first that blocks (190, 201) | ratelimit_scopes |
| `QuietIsServed` | a sustained limit: a quiet caller is served | after the clock was set back the old timestamps stay for longer than the window (72, 94) | ratelimit_scopes |
| `BatchAnswersAll` | a result for each agent in order | a body that is not JSON raises (`layer2_orchestrator.py:267`, 144) | timed_faults |
| `OfflineBeyondThreshold` | OFFLINE beyond the threshold | with 2 × interval above the threshold it is LIVE (234, 241) | timed_faults, `Interval = 3`, `MaxClock = 5` |
| `OfflineUntilHeard` | an agent found offline stays so until it is heard of | not if the clock is set back (`layer2_orchestrator.py:240`) | timed_faults |
| `UnknownAgentNotLive` | offline agents are detected | a 404 does not touch the last heartbeat (80, 189) | timed_faults |
| `EveryStaleIsWiped` | workspaces older than the limit are wiped | an `umount` that cannot be started ends the loop (`workspace.py:217`, 304) | timed_faults |
| `WipedMeansGone` | the directory is removed | not if umount or the removal fails, which ignores errors (198, 239) | timed_faults |
| `WipeSurvivesFaults` | data is overwritten or gone | not where two protections fail, nor what a task writes from the wipe on (74, 168, 264) | timed_faults |
| `FallbackIsOverwritten` | secure wipe when unprivileged | only MOUNTED is overwritten (86, 208) | timed_faults, `Root = FALSE` |
| `AlwaysBlocked` | always blocked, regardless of profile | a hardened profile kills a list of its own; a dangerous call that is not in it and that Podman allows is permitted (`seccomp.py:99`, 360) | guards |
| `CachedFileIsWhole` | the profile is saved once and then used | a process that died or failed while writing, or still writes, leaves a torn file to those that remember the path (`layer1_sandbox.py:329`, 345, `seccomp.py:407`) | guards |
| `SignatureIsOfPinned` | the pinned image is the signed one | podman resolves the tag in the local store, cosign in the registry (`image_verify.py:130`, 152, 176, 192) | guards |

Read, and not stated as properties:

* In the hardened mode `to_dict` takes over neither the allowlist nor blocks with an
  action other than KILL and ERRNO (`seccomp.py:349`); `HardenedDocument` models it so.
* `score_threshold` of the injection detector (`injection.py:260`) is stored and never
  read; the thresholds are literals.
* An output in which less than a quarter of the sampled context was found is reported
  with the finding and with "CLEAR: No exfiltration indicators detected"
  (`exfil.py:388`); `ClearHasNoFinding` says exactly how far this goes.
* The docstring of `create_sandbox` promises a ValueError for an unknown backend
  (`layer1_factory.py:57`); only the name in the environment is checked, and one given as
  an argument falls through to Podman.
* The name of an image is cut at its first colon (`image_verify.py:105`), so all images
  of a registry with a port share one manifest, that of the registry's host.
* A burst that takes more than 300 seconds to refill comes back with a new bucket when
  its own is dropped as stale (`ratelimit.py:266`), so "bursts of up to burst_size" (40)
  does not hold of such a key; `RateBound` is stated for the others.
* Where cosign is not installed the log says that the signature is skipped
  (`image_verify.py:206`), and the verification fails.

## 8. What is not modelled

* `api/commands.py`: a dispatch table for which the repository registers no handler,
  a list that every dispatch appends to, and client functions that build requests.
* `utils.py`: string functions without a state. The modules take what they let pass.
* Deployment files, the compose file and the shell script: configuration.
* The text side of the scanners: what a regular expression matches, decoding and
  normalising, the entropy, the shape of lines. `Injection` and `Exfiltration` begin
  where a pattern has matched.
* `audit_diff`, `validate` and the counts of a seccomp profile, which only read it;
  its presets, which are sequences of the modelled calls; the arguments of rules.
* In modelled files: `export_json`, `statistics` and `critical_rate`;
  `get_container_stats` and `_audit_network_activity`; the nonce cache of the
  orchestrator, which is written and cleaned but never consulted, which is why that
  component is only partly modelled; queries that only read a field; the bounty board
  of the command line.
* One process holds each object. The classes take no locks; the repository never
  shares an object between threads, and the modules do not either.

## 9. Plan

Done: the modules of section 2, and the proofs of section 6. Every safety property and
every refinement that a passing run checks is stated by a theorem, except
`PagesLeaveNoGap`; it and the three liveness properties are left to TLC. Of the components with a state of their own only the
command router is left out, for the reason above. What would be next is to compose
components that the repository does not compose yet: a sandbox whose egress rules are
those of the proxy, and an escrow engine that records to the audit log.
