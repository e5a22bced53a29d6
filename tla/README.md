# agent-work-governor in TLA+

agent-work-governor plans the checks a repository declares, runs them in a
bounded harness, verifies the receipt the harness leaves, and publishes on
GitHub whether a pull request is authorized. The specifications here model the
parts of it where several actors, failures or early returns meet, check them
with TLC on small instances and prove the central ones with TLAPS.

Paths are relative to the repository (`src/` in `PROJECT.json`, whose `map`
names the lines behind every definition).

## The system

| part | code | state | operations |
|---|---|---|---|
| execution planning | `rust/src/planning.rs`, `governance_ir*` | none: a repository and a recipe catalog become a plan | resolve checks, close the recipe graph, order topologically, bind, digest |
| bounded harness | `scripts/bounded_harness.py` | asyncio tasks, events, one semaphore, phases, process groups, evidence files, receipt and fault file | prepare, load plan, network preflight, run checks under `--workers`, write the receipt or one fault |
| network preflight | `scripts/bounded_harness.py` (`_verify_network_sandbox`, the probe entries, the seccomp program) | a probe process, its pipes, host canaries, the stage a fault is charged to | select a sandbox, prove it twice (candidate and trusted), locate the fault |
| receipt verification | `rust/src/verification.rs` | none | binding, coverage, evidence, outcome checks, in order; first reason wins |
| cross-runner job | `.github/workflows/governor-shadow.yml` | exit statuses of its stages, `shadow.json` | plan, harness, verify, classify; then compare two runners |
| authority validator | `scripts/validate_pr_authority.py` | none; reads GitHub | paginated listing of open pull requests, two snapshots, evidence of the commit, the body, the Issue |
| authority publisher | `scripts/publish_app_authority.py`, `governor-authority.yml` | the App's check runs on a commit (at GitHub) | list, demote, start, conclude, read back |
| proof-slow lane | `.github/workflows/proof-slow.yml` | runs, their jobs' outputs, the check `governor / validate` of a head (at GitHub) | select by paths, inherit a prior success or run the proof, require |
| owner scope | `rust/src/owner_scope.rs` | none | changed paths against declared scopes |
| runtime dispatch | `scripts/rust_dispatch.py` | packaged runtime files | resolve, resolve again, execute by path |
| canonical validators | `scripts/validate_canonical.py`, `canonical_runtime_runner.py` | two locks, a YAML payload, two validators | load, resolve or fetch, execute a private copy |
| audit | `scripts/doctor.py` | findings, and what earlier ones read | one finding after the other, exit with the worst |
| typed CI | `scripts/run_typed_ci.py`, a step of `proof-slow.yml` | none; reads the network | run a command, probe services when it fails, type the result |
| toolchain projection | `scripts/project_toolchain_digest.py` | files that repeat the catalog's digest | check, write, roll back |
| the rest | policy, OKF, contracts, bootstrap, template, workflows | none | parse a document and report |

Interactions: the *job* runs the planner, hands the plan to the *harness* and
the harness's receipt and evidence to the *verifier*; only exit statuses and
files pass between them. Inside the harness one event loop runs a task per
check; tasks meet through events and a semaphore; `main()` meets them through
`asyncio.gather` and cancellation; the operating system runs the process groups
and delivers SIGINT. The *publisher* uses the *validator* and shares GitHub's
check runs with the publishers of every other pull request of the same commit.
Before its first check the harness has the *preflight* prove the sandbox. The
*audit* calls the dispatch and the canonical validators as procedures and
carries what one of them read into later findings; the *typed step* runs the
canonical validators too; all of them read an installed plugin that an update
may be replacing, and the *projection* writes files that a person may be editing.

What is hard, and makes the correctness properties below:

* cancellation reaches a task at whichever await it happens to be suspended on,
  and each of those places has its own handler (harness);
* kill can be refused, descendants can outlive the leader of their group, a
  launcher can exit before asyncio notices (harness);
* the report is put together while tasks end, and SIGINT may come anywhere,
  the last lines of `execute()` included (harness);
* some thirty early returns must add up to one definition of a valid receipt
  (verifier);
* files and exit statuses of a stage that did not run must not count as success
  (job);
* a probe may hang, die, answer early or print anything before it is ready; its
  launcher may speak first; kill may be refused; a SIGINT may come at each await;
  and each of these has its own place where the fault is typed (preflight);
* a metadata edit inherits what an earlier run proved, while the concurrency
  group cancels and replaces runs (proof-slow lane);
* files are replaced between two reads of one tool, and between the last read
  and the execution (dispatch, canonical validators, audit);
* an outage is looked for after the command failed, when it may be over (typed
  CI);
* a write of several files fails, is killed or is edited into half-way
  (projection);
* every API call may be lost, applied late, or be the last one of a killed
  runner, and publishers of one commit are not serialized (publisher).

## Modules

**`HarnessRun`**: one invocation of `bounded_harness.py`. `task[c]` is the
await at which `_execute_check(c)` is suspended; what the code does between two
awaits is one action. `phase`, `event`, `outcome` are `state`, `events` and the
results with their evidence files; `group`, `exit` are the operating system's;
`main` is where `main()`/`execute()` is; `cancel` and `interrupted` are
cancellation requests not yet met; `report` is the HarnessError on its way to
`_fault`; `receipt`, `fault`, `status` are what the caller sees.

| code | actions |
|---|---|
| `_execute_check` | `AwaitDependencies`, `AcquireSlot`, `StartFault`, `Finish`, `TimeOut`, `Overflow`, `Reap` |
| `_spawn` | `Launch`, `Ready`, `LaunchFault`, `CancelLaunching` |
| its CancelledError handlers | `CancelIdle`, `CancelRunning` |
| `_kill` | `Kill`, `KillRefused` inside those actions |
| `main`, `execute` | `PrepareRuntime`, `PrepareFault`, `LoadPlan`, `Preflight`, `GatherReturns`, `GatherRaises`, `Drained`, `WriteReceipt`, `Return`, `CloseLoop`, `WriteFault` |
| asyncio.run's SIGINT handler | `SigintOutside`, `SigintFirst`, `SigintSecond` |
| the candidate | `Exit` |

**`AggregateRun`**: what a run promises: outcomes recorded in dependency order,
then one verdict. `HarnessRun!Run` is the refinement mapping.

**`GovernedRunProofs`**: the TLAPS proofs about `HarnessRun`, and about the job of
`GovernedRun` around it.

**`ReceiptVerification`**: `verify_receipt` as an operator, `Decision`: one
named reason operator per function of `verification.rs`, combined by `OrElse`
in the order of the early returns.

**`ReceiptTransport`**: an honest receipt with its evidence, altered step by
step on its way to the verifier, and `VerdictExact`, the order-free definition
the ordered checks must agree with.

**`GovernedRun`**: one job: it EXTENDS `HarnessRun`, instantiates
`ReceiptVerification`, and couples them by exit statuses and files.

**`AppAuthority`**: the authority jobs of all pull requests with one head
commit. `runs` are GitHub's check runs; a job is at the API call it makes next
(`job`); a write whose answer is lost was applied, or waits in `late`.
`AppAuthorityProofs` holds the TLAPS proofs.

`MCHarnessRun`, `MCReceiptTransport`, `MCGovernedRun` hold the constants that
are functions.

**`NetworkPreflight`**: `_verify_network_sandbox` and the probe process it
starts twice. A host is a constant record with a set of flaws: what it fails to
refuse, reach or set up; the harness knows none of them and has to find out.

| code | actions and operators |
|---|---|
| `_isolation_identity`, `_network_sandbox` | `Select` |
| host canaries | `Canaries` |
| `_linux_seccomp_fd`, `_sandboxed_argv`, `create_subprocess_exec` | `Spawn` |
| launcher, `_drop_candidate_identity`, `_fixed_probe_arguments` | `LauncherSpeaks`, `ProbeReady`, `ProbeRefuses` |
| the write canary of `_network_probe` | `ProbeWrites` |
| `_candidate_ip_policy_once`, `_network_probe`, `_egress_blocked` | `ProbeProves` with `PolicyExit`, `NetworkExit`, `Blocked` |
| `_spawn`'s wait for READY | `AwaitReady`, `ReadyTimeout`, `ReadyEnds`, `ReadyOutput` |
| `communicate()` and what follows | `ResultTimeout`, then `KillTimedOut`; `CandidateResult`, `TrustedResult` |
| SIGINT | `Cancel` |

`SeccompFilter` is the program `_linux_seccomp_program` assembles and the
kernel's interpreter; the probes' socket calls go through it. `Contract` is what
the comment at `bounded_harness.py:634-637` promises, `Departs` the calls the
program answers otherwise: x32 calls, which the comment says are killed and the
program refuses with EPERM, as `tests/test_bounded_harness.py:675` demands;
`FilterExact` states both. A result that is late unwinds the `ExitStack` first
(`ResultTimeout`, step "unwound") and is killed by the outer handler afterwards
(`KillTimedOut`): in between the trusted probe may still write its canary, which
then nobody unlinks; `NothingLeft` names this and the two ways a probe is left
running as the only exceptions. HarnessRun's
`Preflight` is this module's outcome: a sandbox, a network fault, a refused kill
(a containment fault that lists no check) or an untyped error of the first unlink.

**`ExecutionPlan`**: one request to `build_plan`, loop iteration by iteration,
and the harness's `load_plan` on the result.

| code | actions |
|---|---|
| `build_plan`, `adapt_project`, `GovernanceIr::from_checks` | `Request`, `Resolve` |
| `PlanEmitter::emit`, `closed_recipes` | `Emit` |
| `validate_recipe_graph`, `dependency_reaches` | `EmitRecipe`, `TakeDemand`, `Search` |
| `topological_checks`, `bind` | `EmitCheck`, `Bind` |
| `load_plan`, `_check` | `Load` |

`emitted` is the loop's set of that name (`done` in `load_plan`), `pending` and
`visited` those of `dependency_reaches`; `demands` are the inputs still to be
verified. The catalog is a variable: the emitter validates it at every request
although the bundled one is fixed, and so do its unit tests. `ExecutionPlanProofs`
holds the TLAPS proofs. A plan that `Load` accepts is the acyclic, closed graph
that `HarnessRun` takes as a constant (`PlanAssumption`).

The emitter enforces none of the limits of `load_plan` and `_check`: a report of
at most 1 MiB (`bounded_harness.py:345`, `large`), at most 128 checks (`:372`,
`MaxChecks`), at most 3600 s for a check (`:411`; `execution_recipe.rs:117` rejects
only 0) and names of at most 128 characters (`:41`), the last two of which are the
recipe's `fits`. `HarnessAccepts` says that these are the only reasons for which an
emitted plan is refused, and that each of them is one. The catalogs the build
bundles stay far below (twelve checks of at most ten minutes).

**`PullSnapshot`**: one run of `validate_pr_authority` against a repository that
changes between its requests: the pull request, the pages of the open ones with
the relations of their Link headers (`Links`, `Contradicts`), the commit, the
second snapshot, the body and the Issue. `AppAuthority` takes the outcome of two
such snapshots as one read each. `PullSnapshotProofs` holds the TLAPS proofs.

**`GovernorTools`** puts four tools in one world that others change while the
tool runs. Each tool is a module; `PluginBundle` is what they share: `files`
(every name holds what release v1 or v2 ships, something else, bytes whose error
its reader does not catch, or is missing or odd), `call` (the procedure that runs and how far it is), `ran` (what was
executed, and from which bytes it had been verified).

| module | code | actions |
|---|---|---|
| `RustDispatch` | `rust_dispatch.py`: `resolve_binary`, `invoke`, `run_rust`, `main` | `ReadRuntime`, `Execute`, `DispatchStart`, `DispatchInvoke`, `DispatchEnd` |
| `ValidateCanonical` | `validate_canonical.py`: `load_lock`, `load_runtime`, `run_validator`; `canonical_runtime_runner.py` | `LoadRuntime`, `ReadValidator`, `RunSnapshot` |
| `Doctor` | `doctor.py`: `audit`, `main` | one action per finding or group of findings, in `audit`'s order, and `Procedure` for the two modules above |
| `TypedCommand` | `run_typed_ci.py` around the policy step of `proof-slow.yml`, with `validate_canonical.py --fetch-missing` | `StartCommand`, `LockLoaded`, `Resolve`, `ListTargets`, `PluginAccepted`, `SkillAccepted`, `Classify`, `Probe` |
| `ToolchainProjection` | `project_toolchain_digest.py`: `synchronize` | `ReadCatalog` to `RestoreFails`, one read or write each; `Killed`, `Edit` |

`witnessed`, `hashed`, `silent`, `seen`, `entry` and `edited` are history
variables for the properties. A digest is the content it digests; the source
tree, and the locks of the runtime, are one file each.

What the run shows of the double verification: with three replacements a
dispatch that exits with zero had every file of one release at one instant of
its run. With four it need not: files that are replaced forth and back behind
the reads (the binary forward and the source back in the first pass, the manifest
forward and the binary back in the second) satisfy both passes without ever
having been consistent. An update of a bundle, which goes one way, does not do
that. For an audit the number is one; with a second replacement a file that was
read in order can be spoiled and one that was not yet read be repaired, and no
instant has both.

What the code does at its edges and the modules do too. The audit ends in a
traceback with exit 1 (`Uncaught`, `RustUnsupported`) where no except clause names
what is raised: `rust_check` does not catch the `UnsupportedHostError` of a
manifest that loses the host's artifact during the audit; plugin.json, the
catalog, the Rust manifest, the ask-matt lock and adapter, the policy, the receipt
of the setup and the owner's lock are decoded under clauses that name `OSError`
and the parsers' errors, so bytes that are no UTF-8 pass them (the receipt of the
setup is only read when the documents beside it exist); and `build_receipt` raises
on a regular file it may not open. A policy that is no regular file (a directory,
a FIFO, a dangling link) is no policy: two WARNs, and the audit may exit with
zero. So it may with an empty skills directory, where the loop of
doctor.py:193 has no turn and no Skill validator runs; `validate_canonical.py`
refuses the same directory. `ExitTruthful` and `SuccessWitnessed` say "in order" of
what the code calls so (`CanonicalInOrder`, `RepositoryInOrder`): an empty skills
directory and a policy that is no file count as in order, an undecodable receipt
next to the documents of the setup does not. A git that does not answer is a WARN.
A Rust OKF report that is only partial exits 1 and is a FAIL where the Python
half says INCONCLUSIVE. The host the validators are fetched from,
raw.githubusercontent.com, is not among the services that are probed, so its
outage is CODE_FAIL. A catalog that is not UTF-8 ends a projection with a
traceback and without the rollback.

`ProofLane` models the workflow `proof-slow.yml` on pull requests. `runs` is
GitHub's list of its runs in the order of their events; a run carries the
results and outputs its jobs have left (`select`, `nix`, `preserved`,
`required`), so `Verdict` is the script of the required job on them. An event
(`Code`, `Retarget`, `EditMetadata`) appends a run and applies the concurrency
group to the earlier ones (`Superseded`): the pending one is replaced, the
running one is interrupted unless the event is a metadata edit. `Interrupt`
cancels the job the run is in; the required job runs all the same. `Reconcile`
is the readback, which may lag behind GitHub's runs (`unseen`) and gives up on
more than `PageSize` of them. `<<base, head>> \in Relevant` stands for the path
filter over the diff of the two.

## Abstractions

* Data is compared, never computed: digests are the values they digest, which
  assumes no collisions; a candidate's output is one of a few contents.
* Plans are acyclic graphs with their dependencies inside the plan, which is
  what `load_plan` lets through (`PlanAssumption`).
* The order in which the semaphore wakes tasks is left open: `AcquireSlot` may
  take any queued task. Every schedule of the code is among those.
* `process.wait()` may suspend a task even if the process is already reaped;
  `returncode` may lag behind the exit, never precede it.
* A task inside `create_subprocess_exec` is at `starting`; a cancellation there
  is met before the process exists. Cancelling in the window where the
  subprocess exists and the coroutine has not returned is asyncio's own clean-up.
* SIGINT: the first under `asyncio.run` cancels the main task, the second raises
  KeyboardInterrupt from the loop while it is idle. A third adds nothing:
  `MaxSignals <= 2`.
* Isolated mode with its identity set up; in `HarnessRun`, `_prepare_runtime`,
  `load_plan` and the preflight each succeed or fail as a whole; the preflight's
  stages are `NetworkPreflight`'s, and its failures here are a network fault, the
  containment fault of a refused kill, which lists no check since none has a task,
  and an untyped error without any fault file.
* In `NetworkPreflight` a host has a set of flaws, and a flaw makes exactly the
  attempts succeed (or the set-up fail) that the code tries it with. Addresses,
  ports, nonces and command lines are left out; a line the probe prints is
  genuine, another stage's, too long or not UTF-8.
* In `GovernorTools` a file has a whole content: a replacement is atomic
  (a rename), and each read sees one content. The tools read with
  `O_NOFOLLOW`, sizes and types are the content "odd".
* In `GovernedRun` the Python line that lists the evidence's names for Verify
  (`governor-shadow.yml:314-317`) succeeds. It runs in a process substitution, whose
  failure the shell does not see; Verify would then miss the evidence and reject.
* GitHub: one snapshot of the open pull requests is read atomically, the App is
  configured, late writes keep no order among themselves.

## Runs

| run | question | instance |
|---|---|---|
| `harness_macos` | dependencies; exit status and fault file tell the truth; implements `AggregateRun`, termination included | 3 checks (a chain and one beside it), 2 workers, 2 SIGINTs, lingering descendants, refused kills |
| `receipt_transport` | the ordered checks equal the order-free definition | 2 planned checks, 3 paths, 3 contents, 2 alterations |
| `governed_run` | worker bound, survivors, starts after abandonment; parity is genuine, honest receipts are decided, the job ends classified or stopped | 3 checks (a chain and one beside it), 2 workers, 3 contents, 1 SIGINT, namespaced |
| `app_authority` | admission needs a validation, one per identity, reports witnessed, jobs end | 2 pull requests, 3 events, 1 failure |
| `harness_late_interrupt`, `authority_two_admitted` | statements of the documentation that the code does not keep (Findings) | the smallest instance that shows it |
| `network_preflight` | a sandbox is only returned where nothing leaks; faults are located; nothing is left but a late probe's canary; the filter answers as its contract, x32 apart; it ends | 5 platforms, 31 flaws one at a time, refused kills |
| `execution_plan` | the right requests become plans, ordered, with artifacts ready, and the harness takes them up to its own limits | 3 identifiers, 1 artifact: every catalog, every single deviation of a project; 4 checks where the harness takes 3 |
| `pull_snapshot` | two snapshots witness a unique head; quiet repositories are decided exactly | 5 pull requests, pages of 2, 2 changes, 1 failure |
| `governor_tools` | exit 0 was earned at one instant; only verified bytes run; audits and outages are reported as they are; projections are complete or undone | audit: every file wrong in each way its reader tells apart, pairs, 1 replacement; dispatch: 3 files, 2 releases, 3 replacements; policy step: 5 services, 2 changes; projection: 2 fixtures, 2 runs, 1 edit |
| `proof_lane` | a pass rests on controls and, where it must, a proof of the same head; metadata edits repeat nothing; the newest run decides | 2 pull requests, 2 heads, 2 bases, 3 events, a page of 1 |
| `proof_retargeted` | violated: a success from before a change of base is inherited after it | 1 pull request, 3 events |

Bounds. Three checks give a dependent, its dependency and an independent check
that is running while the others fail; two workers make the semaphore matter
(two checks ready at once, the third when a slot frees). Two alterations of a receipt are what it takes for
one defect to mask another. Two pull requests and three events are the least
that let a closed pull request's run meet a second publisher, and a re-run of
the first. One failure gives each of the duplicates, lost writes and killed jobs. A host
with one flaw is enough for a stage to be blamed wrongly, as every flaw is met
by the attempts of one stage; a refused kill comes on top because it may hit any
clean-up. The tools meet as many replacements as their reads can be fooled with:
three for the dispatch (a fourth refutes `SuccessWitnessed`, see above), one for
the audit (of a file that was in order, or that then is; a second refutes it), two for the typed step, where an outage may end and another begin
between two probes. The projection has two fixtures (one written, one to fail
at), one edit, and two runs, the second over what the first left. In the lane three
events let a success, the run that should replace it and a metadata edit meet, in
one pull request or across two; a page of one run stands for the hundred.

Fairness. `HarnessRun`: weak fairness of each task and of `main`: the event loop
resumes every task whose await is over; time limits make `Ready`, `TimeOut` or
`LaunchFault` available, and the kernel reaps what was killed. No fairness for
`Exit`: a candidate may hang for ever, and no fairness for signals. `GovernedRun`
adds for plan, Verify and the classification, which have no limit of their own,
that they return or the job ends: by its `timeout-minutes` of 30, which are less
than the 3600 seconds one check may take, by a newer job of its group
(`cancel-in-progress`), or by `set -e` (`Interrupted`, `ShellExits`). A job so
ended writes no shadow.json, and `JobEnds` says so: what it excludes is a job that
waits for ever, and of the harness it asks this without the job's limit. `AppAuthority`: a runner takes a waiting job
and its requests have time limits; nothing makes a late write arrive.
`NetworkPreflight`: weak fairness of the harness's own steps, time limits among
them: the event loop runs the coroutine and its timers. The probe, the launcher
and whoever sends SIGINT owe nothing, so `PreflightEnds` holds for a probe that
never says a word. `ProofLane`: GitHub starts a run that waits alone and ends a
job that exceeds its `timeout-minutes`; nobody owes an answer or a success. The tools are specified without fairness: all that is stated
of them is safety.

`ReceiptTransport` stops after `MaxEdits` and a tool of `GovernorTools` when it
has exited, so their cfgs turn deadlock off; the other modules have an explicit stuttering action for the end of the run.

## Findings

* `harness_late_interrupt`: `execute()` has no await after the gather, so a
  SIGINT in its last lines is met when the task returns: a receipt and a
  HARNESS_INTERRUPTED fault both exist.
* `authority_two_admitted`: two publishers of one commit both end neutral.
* `proof_retargeted`: the inherited success is bound to the head but not to the
  base it was compared with; a metadata edit after a change of base passes a head
  that no proof has seen.

Two limits of the code that no run repeats. A refused job skips the publisher
(`governor-authority.yml:141`), so a neutral run that an earlier job left on the
same head stays neutral. And `UniqueWitnessed` holds for two changes of the
repository during one validation, not for three: closing an old pull request
between the same two pages of both snapshots (`validate_pr_authority.py:483`)
hides another one with the same head from both.

## Proofs

Type correctness is a conjunct of every `IInv` below or a theorem beside it, so
no run spends a property on it; every `IInv` was an invariant TLC agreed with
before it was proved.

`GovernedRunProofs` proves for every plan, worker count and signal bound
(`PlanAssumption`, `BoundsAssumption`):

* `RunTypeOK`, and `RunInvariant`: `IInv` is an invariant. `IInv` says of every
  check that task, phase, event, outcome and group agree (`CheckConsistent`) and
  of `main()` what it may rely on at each place (`MainConsistent`). None of the
  properties is inductive alone: that a fault is truthful, for instance, needs
  that every task has ended when it is written, which needs that a task that
  ended has left its phase for good.
* `StartedAfterDependencies`, `ExitZeroAttests`, `FaultsAreTruthful` follow from
  `IInv`; `WorkersBoundGroups` and `NothingSurvives` from it and an invariant
  about live groups, for `Lingers = FALSE` (a group whose kill was refused is
  `escaped`, no longer `live`).
* `RunRefinesAggregate`: every step is a step of `AggregateRun` or a stutter.

`AppAuthorityProofs` proves for every set of pull requests and any number of
events and failures that `IInv` is invariant, and from it `TypeCorrect`,
`OnlyVouchedAreNeutral`, `OneNeutralRun` and `ReportsAreWitnessed`.
`OneNeutralPerIdentity` is not inductive: a late write may make another run
neutral. `Nominees(p)` are the runs that admit p or will when a late write
lands; `IInv` says there is at most one (`OneNominee`), that a publisher about
to conclude owns it if it exists (`JobOK`), and that late writes keep the
identity of their run and admit only the vouched (`WriteOK`). The list that
`_existing` reads establishes `JobOK` (`ExistingRight`, where the cardinality
test rules out a second run), and every write is one of `WriteStep`.

`ExecutionPlanProofs` proves for every catalog, project and identifier set
(`InputsAssumption`: they are finite, identifiers are ordered like numbers) that
`IInv` is invariant and from it `TypeCorrect`, `PlansAreOrdered`,
`ArtifactsAreReady`, `CyclesAreExact`, `CatalogsAreExact` and
`HarnessAcceptsPlans`. The argument avoids induction along the order: a set in
which everything depends on a member of the set (`Knotted`) never has a member
emitted (`KnotStays`), and if nothing is ready the rest is such a set
(`StuckIsKnotted`); so a loop ends early exactly if there is a knot, and since a
plan has the checks of the project, the harness's loop cannot stop early
either (`LoadedPlan`): what is left to `Load` are its limits. Reachability (`DependsOn`) is stated as membership in every set closed
under dependencies; the checks before k in a plan are such a set, which gives
`ArtifactsReady`. `LeastExists` is the only use of well-foundedness.

`ReceiptTransportProofs` proves `DecisionExact`: for every plan, receipt and
evidence of the right types, `Decision` (some thirty early returns, counts and
folds) agrees with `Faithful` and the recorded outcomes, lemma by lemma in the
order of `verification.rs`: binding, coverage, the reports one by one, evidence,
outcomes. The work is in coverage and
evidence, which the code decides by counting and the reference by quantifying:
as many reports as checks, all distinct and all planned, is a bijection. What is
left for the machine is that alterations keep the types (`Alterations`).

For the job around the harness, `JobRunsHarness` gives everything that is proved
of the harness, and `WrittenDecision` says what
`Decision` makes of the receipt a harness writes. `JobInv` adds that nothing rewrites outcomes and logs
once the harness has returned, and which stages can have exited how.

`NetworkPreflightProofs` proves for every host, with any set of flaws at once
(TLC takes them one at a time), `SandboxSound`, `NothingOutlives` and
`FaultsPlaced`. The first invariant says what a stage that was passed has
established: that a candidate probe which reported success stood behind a
boundary without the flaws its attempts would have met (`PolicyExit` = 0 excludes
them), and that a probe that is not killed is the one the harness still waits
for. `Located` adds, stage by stage, which flaws can be why a line was not the
one expected. `FilterFaithful` is about the BPF program itself: its offsets
(`Layout`, `Listed`), that control only goes forward (`Forward`, so the
interpreter's recursion is well-founded, `RunExists`), and for each test of the
contract where it leads; `Held` of `NothingLeft` is the one action property here,
told from the invariant's `unwound` part: what the probe can still have written.

`GovernorToolsProofs` is about all tools at once, for every installation and any
number of replacements. `Verified` relates two moments: if nothing was replaced
since `invoke` hashed the binary then `files` still holds the bytes that were
hashed, and a validator's private copy holds what the lock demands; `Outages`
what the typed step may say after which procedure; `Audited` the findings an
audit has made so far, what it remembers of the lock, and how a procedure it
called will end, as long as nothing was replaced. `ExitTruthful` claims no more:
an audit that files are replaced under may mix two states.

The projection is one of the tools (`Projects`). For every tuple of fixtures, any
number of runs and of edits between and within them (`ProjectionAssumption`: the
path list is not empty, markers of damage are not contents) `IInv` is invariant,
and from it follow `PassTruthful` and `RunsPreserve`. The two properties are not
inductive: that a rollback restores needs that `local.original` holds what was
there at the entry for every fixture the loop has passed (`Holding`), that a PASS
is complete needs that the rendered bodies still carry the digest that was read
(`Known`) and that everything before the loop's position was compared or written
(`Looped`). All three are claimed only of runs nobody edits into, which is what
`edited` is for. The loop visits the paths in an order with gaps (fixtures that
need no change), so `NextOf` is characterized once (`NextOfStep`, from the least
element of a set of numbers).

Besides finiteness and types the constants are assumed to keep apart what the
code's types keep apart: a malformed digest and a missing log are those of no
content (`VerifierAssumption`, `JobAssumption`), an expected binding has just the plan's
fields (`TransportAssumption`), contents have names, every file that is read
is among the files, and the two labels of a policy label no knowledge
(`ToolsAssumption`).

`PullSnapshotProofs` is about one validation, for any pull requests, page size and
number of pages. Undisturbed, the pages read are a prefix of one enumeration of
the open pull requests (`Place` numbers them, `Prefix` says how far the listing
is), so what the loop stops at is all of them (`DecidesExactly`). Disturbed, the
argument runs backwards from the refusal. `Split` says of a Target that was at no
instant alone with its head what will end each snapshot, or the comparison of the
two: the pages read and those to come show another one (`Steady`), the next page
repeats a number (`Doubled`), a snapshot shows one that is closed by now
(`Gone`), the second cannot show one the first has (`Missed`). To get past one of
those costs a change, and two do not pay for both snapshots. The hypothesis
`MaxChanges <= 2` is the limit of the code, not of the proof: three changes refute
`UniqueWitnessed` (see Findings).

The argument for `UpdatesWitnessed` is of the same kind. `Priced` is what a pass
over the files has cost while no instant had everything in order: a file that was
read of the release must go stale, and one that was stale be put right before it
is read. The two passes, of `resolve_binary` and of `invoke`, cost two
replacements each, and `Updating` grants three.

For the audit (`AuditsWitnessed`) the hypothesis `Auditing` grants one replacement,
of any file by nearly anything. The files at the start and those there are now then differ in
one place, so that what the audit saw of each file, at whatever moment, was so of
all of them before or of all of them after (`OneSide`); two replacements, one that
spoils what was read and one that repairs what was not, refute it. `Once` carries what was seen of
which file (`Was`, `Had`) from the statement that read it to the exit. Both
runtimes' locks were of one release because they share two files
(`OneReleaseOnce`). The receipt of the setup counts together with the documents
beside it, two files: either the replacement was of one of them, then nothing else
differs, or of neither (`LegibleOnce`, `SeenInOrder`). The policy is the one file that three readers go by: what a
second read turned into no policy at all (`Unlabelled`, `Turned`) still has to
pass the Rust binary, which is genuine, as the one replacement is spent
(`Rejecting`). `Auditing` leaves out two cases: a binary that crashes, which a
substitute that reports success would hide, and the label of a policy on the
knowledge bundle, which is no content of one.

Four models changed for a proof. TLA+ leaves open which of several true arms a
CASE takes, TLC takes the first: `Verdict` of the lane, `ReadFault` and
`LockFault` relied on that and were about no program for a prover; they are IF
chains now, in the order of the code's tests. And the filter's interpreter was a
recursive operator; as a function of the instruction (`Answer`) it can be proved
about. `Ordered` is the listing by the place of each number in it, where it was
sorted by a library operator no lemma is known of.

Of the harness, `BlameIsNamed` and `NothingStartsLate` have invariants of
their own: from the first error of a check on, some check is in phase FAILED,
and stays there (`Blamed`); once the gather has raised, a task that has started
nothing has a cancellation on its way, and a process that is up belongs to a
task that still knows it (`Revoked`).

`ProofLaneProofs` proves `PassControlled` for any number of pull requests, heads,
bases and events. `Rooted` strengthens `ControlsPassed` to whatever may become a
success: an output `preserved` that is true already rests on a nix job, since the
run it was read from was a success and `Rooted` itself; and a run that can still
succeed by its own nix job knows what that job has to prove. `PassProved` follows
where relevance does not depend on the base; without that hypothesis it is false
(`proof_retargeted`). `EditsInherit` needs `Edits`, an invariant of its own: the
runs of one pull request are numbered in the order of its events, the concurrency
group starts them in that order (`Ordered`), and a metadata edit that nothing
else disturbs has a success before it that its readback is going to find (`Told`).

Only model-checked: termination and every other liveness property (`Decides`,
`JobEnds`, `JobsEnd`, the liveness half of the refinement): TLAPS proves none
here; every safety property a passing run checks is a theorem,
`SuccessWitnessed` up to the number of replacements that refutes it.

## Not modelled

* Pure functions of one document, which unit tests reach and no order of events
  changes: the OKF and policy rules in Rust and Python (to the audit they are one
  read and one verdict), contracts, references, value types, adapters, the
  bootstrap, the repository template `validate.py`, the catalog's and the flake
  locks' rules (`Valid` in `ToolchainProjection`), `validate_kani_assurance.py`.
* How visible lines of a pull request's body are told from hidden ones (GFM
  blocks): one Boolean in `PullSnapshot`.
* Packaging (`build_manifest`, `package_*.py`): linear copying.
* `_prepare_rust_inputs` and the rest of `_prepare_runtime`: one action that
  succeeds or fails.
* `owner_scope.rs`: a comparison of path lists.
* `proof-slow.yml` outside of pull requests (main, merge queue, schedule), where
  nothing is inherited; the nix job's steps other than the policy step
  (`TypedCommand`), which are one result in `ProofLane`.
* The recycling of process ids between a reap and `killpg`.

`PROJECT.json` lists every component with its reason.

## Plan

1. Done: planner, harness, preflight, verifier, job, validator, publisher, tools,
   proof lane; proofs of every safety property the passing runs check.
2. Next module: `OwnerScope`.
3. Next proofs: what the liveness properties rest on and a step can show, a variant
   that each of the harness's and the preflight's own steps decreases.
