----------------------------- MODULE HarnessRun -----------------------------
(***************************************************************************)
(* One invocation of scripts/bounded_harness.py: main(), execute() and the *)
(* asyncio task _execute_check() of every planned check.                   *)
(*                                                                         *)
(* Tasks interleave only where the code awaits; what runs between two      *)
(* awaits is one action.  Cancellation is a request (task.cancel()) that   *)
(* the task meets at the await it is suspended on, so a task with a        *)
(* request pending takes no ordinary step.  The operating system runs and  *)
(* ends process groups between any two steps.                              *)
(***************************************************************************)
EXTENDS Naturals, FiniteSets

CONSTANTS
  Checks,       \* identifiers of the plan, in load_plan's `checks`
  Dependencies, \* the plan's `dependencies` of every check
  Workers,      \* --workers
  MaxSignals,   \* bound on the SIGINTs delivered to the harness
  KillMayFail,  \* whether killpg may be refused by the operating system
  Lingers       \* whether descendants outlive the leader in its group: FALSE
                \* under Bubblewrap's PID namespace (Linux), TRUE on macOS

\* load_plan accepts 1..128 checks whose known dependencies have no cycle, and
\* execute accepts 1..8 workers.  Every nonempty set of checks then holds one
\* that depends on no member of it.
ASSUME PlanAssumption ==
  /\ IsFiniteSet(Checks)
  /\ Checks # {}
  /\ Dependencies \in [Checks -> SUBSET Checks]
  /\ \A S \in SUBSET Checks :
       S # {} => \E c \in S : Dependencies[c] \cap S = {}

ASSUME BoundsAssumption ==
  /\ Workers \in 1..8
  /\ MaxSignals \in 0..2
  /\ KillMayFail \in BOOLEAN
  /\ Lingers \in BOOLEAN

None == "none"
Outcomes == {"exit_zero", "exit_nonzero", "timed_out"}

\* Where a check's task is suspended, or how it ended.
TaskStates ==
  {"uncreated", "waiting", "queued", "starting", "launching", "running",
   "reaping", "returned", "raised", "cancelled"}

Phases == {"not_started", "running", "completed", "failed"}

\* HarnessError codes, grouped by what raises them and by exit status: "network"
\* stands for NETWORK_FAULTS, from the preflight or from _spawn for a check;
\* "check" for every other code of a check (artifact, path, output, evidence);
\* "setup" for the codes before the sandbox is probed that exit with 1.
Codes ==
  {"plan", "setup", "network", "check", "containment", "interrupted",
   "receipt"}

\* main()'s exit status for a fault.
StatusOf(code) ==
  CASE code = "interrupted" -> "130"
    [] code = "network" -> "70"
    [] code = "plan" -> "2"
    [] OTHER -> "1"

MainStates ==
  {"preparing", "planning", "preflight", "gather", "draining", "tail",
   "written", "closing", "faulting", "ended"}

VARIABLES
  main,        \* where main()/execute() is
  task,        \* [Checks -> TaskStates]
  phase,       \* execute's `state` dictionary
  event,       \* checks whose asyncio.Event is set
  cancel,      \* tasks with a cancellation request they have not met yet
  why,         \* why a "reaping" task killed its process
  group,       \* the process group: none, live, dead, or escaped (kill refused)
  exit,        \* how the group's leader exited by itself
  outcome,     \* outcome returned by the task; its evidence file is written
  outer,       \* exception of execute's gather: None or a code
  interrupted, \* main task has a cancellation request it has not met yet
  signals,     \* SIGINTs delivered so far
  report,      \* the HarnessError being carried to _fault
  receipt,     \* receipt file: outcome of every check, or all None if absent
  fault,       \* fault file: a report, NoReport if absent
  status       \* exit status of the harness, None while it runs

taskVars == <<task, phase, event, cancel, why, group, exit, outcome, outer>>
mainVars == <<main, interrupted, signals, report, receipt, fault, status>>
vars == <<task, phase, event, cancel, why, group, exit, outcome, outer,
          main, interrupted, signals, report, receipt, fault, status>>

Nothing == [c \in Checks |-> None]

\* A HarnessError as main sees it: its code and the four phase lists.
Report(code, completed, running, notStarted, failed) ==
  [code |-> code, completed |-> completed, running |-> running,
   not_started |-> notStarted, failed |-> failed]

Reports ==
  [code : Codes \cup {None}, completed : SUBSET Checks,
   running : SUBSET Checks, not_started : SUBSET Checks,
   failed : SUBSET Checks]

NoReport == Report(None, {}, {}, {}, {})
Bare(code) == Report(code, {}, {}, {}, {})

InPhase(p) == {c \in Checks : phase[c] = p}
PhaseReport(code) ==
  Report(code, InPhase("completed"), InPhase("running"),
         InPhase("not_started"), InPhase("failed"))

Finished == {"returned", "raised", "cancelled"}
Live == {c \in Checks : task[c] \notin Finished \cup {"uncreated"}}
AllFinished == \A c \in Checks : task[c] \in Finished

\* Tasks inside `async with semaphore`.
Holders ==
  {c \in Checks : task[c] \in {"starting", "launching", "running", "reaping"}}

Init ==
  /\ main = "preparing"
  /\ task = [c \in Checks |-> "uncreated"]
  /\ phase = [c \in Checks |-> "not_started"]
  /\ event = {}
  /\ cancel = {}
  /\ why = Nothing
  /\ group = Nothing
  /\ exit = Nothing
  /\ outcome = Nothing
  /\ outer = None
  /\ interrupted = FALSE
  /\ signals = 0
  /\ report = NoReport
  /\ receipt = Nothing
  /\ fault = NoReport
  /\ status = None

-----------------------------------------------------------------------------
(* The task of one check: _execute_check and _spawn *)

\* Task c is suspended at s and has no cancellation to meet.
Turn(c, s) == task[c] = s /\ c \notin cancel

Goto(c, s) == task' = [task EXCEPT ![c] = s] /\ UNCHANGED outer

\* The task ends with an exception; gather keeps the first one.
Ends(c, how, code) ==
  /\ task' = [task EXCEPT ![c] = how]
  /\ outer' = IF outer = None THEN code ELSE outer

Raises(c, code) == Ends(c, "raised", code)
SetPhase(c, p) == phase' = [phase EXCEPT ![c] = p]

\* _kill: the whole group is signalled, or killpg is refused (OSError), which
\* some systems do even for a group that holds nothing but zombies.
Kill(c) == group' = [group EXCEPT ![c] = "dead"]
KillRefused(c) ==
  /\ KillMayFail
  /\ group' = [group EXCEPT ![c] = IF @ = "live" THEN "escaped" ELSE @]

\* The task kills its process and awaits process.wait() because of w.
KillAndReap(c, w) ==
  /\ Kill(c)
  /\ why' = [why EXCEPT ![c] = w]
  /\ Goto(c, "reaping")
  /\ UNCHANGED phase

\* The refused kill raises HARNESS_CONTAINMENT_FAILED out of the handler, which
\* leaves the phase as it is.
KillEscapes(c) ==
  /\ KillRefused(c)
  /\ Raises(c, "containment")
  /\ UNCHANGED <<phase, why>>

\* Mutant of DependenciesDone: goes on after the first completed dependency.
DependenciesDone_First(c) ==
  Dependencies[c] # {} => Cardinality(event) >= 1

DependenciesDone(c) == Dependencies[c] \subseteq event

\* await gather(events of the dependencies)
AwaitDependencies(c) ==
  /\ Turn(c, "waiting")
  /\ DependenciesDone(c)
  /\ Goto(c, "queued")
  /\ UNCHANGED <<phase, event, cancel, why, group, exit, outcome, mainVars>>

SlotFree == Cardinality(Holders) < Workers

\* async with semaphore: the check is RUNNING from here on.
AcquireSlot(c) ==
  /\ Turn(c, "queued")
  /\ SlotFree
  /\ Goto(c, "starting")
  /\ SetPhase(c, "running")
  /\ UNCHANGED <<event, cancel, why, group, exit, outcome, mainVars>>

\* Mutant of StartFault: the handler raises without marking the check FAILED.
StartFault_Unmarked(c) ==
  /\ Turn(c, "starting")
  /\ Raises(c, "check")
  /\ UNCHANGED <<phase, event, cancel, why, group, exit, outcome, mainVars>>

\* _artifact or _inside fails, or _spawn cannot create the process
\* (HARNESS_NETWORK_SANDBOX_SETUP_FAILED): nothing was started.
StartFault(c) ==
  /\ Turn(c, "starting")
  /\ SetPhase(c, "failed")
  /\ Raises(c, "check") \/ Raises(c, "network")
  /\ UNCHANGED <<event, cancel, why, group, exit, outcome, mainVars>>

\* create_subprocess_exec returns; _spawn reads the READY byte.
Launch(c) ==
  /\ Turn(c, "starting")
  /\ group' = [group EXCEPT ![c] = "live"]
  /\ Goto(c, "launching")
  /\ UNCHANGED <<phase, event, cancel, why, exit, outcome, mainVars>>

Ready(c) ==
  /\ Turn(c, "launching")
  /\ Goto(c, "running")
  /\ UNCHANGED <<phase, event, cancel, why, group, exit, outcome, mainVars>>

\* No READY byte in two seconds, or another byte.  _spawn kills the launcher
\* only while its return code is unknown to asyncio: a launcher that exited may
\* be taken for a running one, never the reverse.
LaunchFault(c) ==
  /\ Turn(c, "launching")
  /\ \/ KillAndReap(c, "launch")
     \/ KillRefused(c) /\ SetPhase(c, "failed")
          /\ Raises(c, "containment") /\ UNCHANGED why
     \/ exit[c] # None /\ SetPhase(c, "failed") /\ Raises(c, "network")
          /\ UNCHANGED <<why, group>>
  /\ UNCHANGED <<event, cancel, exit, outcome, mainVars>>

\* Mutant of RecordEvidence: a completed check does not set its event.
RecordEvidence_NoEvent(c, o) ==
  /\ outcome' = [outcome EXCEPT ![c] = o]
  /\ SetPhase(c, "completed")
  /\ Goto(c, "returned")
  /\ UNCHANGED event

\* _atomic writes the evidence file, the check is COMPLETED, its event is set
\* and the task returns; or the write fails and the check is FAILED.
RecordEvidence(c, o) ==
  \/ /\ outcome' = [outcome EXCEPT ![c] = o]
     /\ SetPhase(c, "completed")
     /\ event' = event \cup {c}
     /\ Goto(c, "returned")
  \/ /\ SetPhase(c, "failed")
     /\ Raises(c, "check")
     /\ UNCHANGED <<outcome, event>>

\* Output drained and the leader exited within the timeout: what is left of the
\* group is killed and the evidence written without another suspension.  A
\* refused kill is retried once by the HarnessError handler.
Finish(c) ==
  /\ Turn(c, "running")
  /\ exit[c] # None
  /\ \/ Kill(c) /\ RecordEvidence(c, exit[c])
     \/ KillRefused(c) /\ Raises(c, "containment")
          /\ UNCHANGED <<phase, event, outcome>>
     \/ KillMayFail /\ Kill(c) /\ SetPhase(c, "failed")
          /\ Raises(c, "containment") /\ UNCHANGED <<event, outcome>>
  /\ UNCHANGED <<cancel, why, exit, mainVars>>

\* Mutant of TimeOut: the slot is given back while the process still runs.
TimeOut_Unkilled(c) ==
  /\ Turn(c, "running")
  /\ RecordEvidence(c, "timed_out")
  /\ UNCHANGED <<cancel, why, group, exit, mainVars>>

\* wait_for gives up after timeout_seconds.
TimeOut(c) ==
  /\ Turn(c, "running")
  /\ KillAndReap(c, "timeout") \/ KillEscapes(c)
  /\ UNCHANGED <<event, cancel, exit, outcome, mainVars>>

\* drain() has read more than MAX_OUTPUT bytes.
Overflow(c) ==
  /\ Turn(c, "running")
  /\ KillAndReap(c, "overflow") \/ KillEscapes(c)
  /\ UNCHANGED <<event, cancel, exit, outcome, mainVars>>

\* process.wait() returns in the handler that killed the process.
Reap(c) ==
  /\ Turn(c, "reaping")
  /\ \/ why[c] = "timeout" /\ RecordEvidence(c, "timed_out")
     \/ why[c] = "overflow" /\ SetPhase(c, "failed") /\ Raises(c, "check")
          /\ UNCHANGED <<event, outcome>>
     \/ why[c] = "launch" /\ SetPhase(c, "failed") /\ Raises(c, "network")
          /\ UNCHANGED <<event, outcome>>
     \/ why[c] = "cancel" /\ Ends(c, "cancelled", "interrupted")
          /\ UNCHANGED <<phase, event, outcome>>
  /\ UNCHANGED <<cancel, why, group, exit, mainVars>>

-----------------------------------------------------------------------------
(* Cancellation meets a task at the await it is suspended on *)

Meets(c, states) ==
  /\ c \in cancel
  /\ task[c] \in states
  /\ cancel' = cancel \ {c}

\* Nothing to kill: no process yet, or already killed and being reaped.
CancelIdle(c) ==
  /\ Meets(c, {"waiting", "queued", "starting", "reaping"})
  /\ Ends(c, "cancelled", "interrupted")
  /\ UNCHANGED <<phase, event, why, group, exit, outcome, mainVars>>

\* _spawn's CancelledError handler, which kills only a launcher that has not
\* exited.  A refused kill leaves _spawn as a HarnessError: FAILED.
CancelLaunching(c) ==
  /\ Meets(c, {"launching"})
  /\ \/ KillAndReap(c, "cancel")
     \/ KillRefused(c) /\ SetPhase(c, "failed")
          /\ Raises(c, "containment") /\ UNCHANGED why
     \/ exit[c] # None /\ Ends(c, "cancelled", "interrupted")
          /\ UNCHANGED <<phase, why, group>>
  /\ UNCHANGED <<event, exit, outcome, mainVars>>

\* Mutant of CancelRunning: cancellation leaves the process running.
CancelRunning_NoKill(c) ==
  /\ Meets(c, {"running"})
  /\ Ends(c, "cancelled", "interrupted")
  /\ UNCHANGED <<phase, event, why, group, exit, outcome, mainVars>>

CancelRunning(c) ==
  /\ Meets(c, {"running"})
  /\ KillAndReap(c, "cancel") \/ KillEscapes(c)
  /\ UNCHANGED <<event, exit, outcome, mainVars>>

TaskStep(c) ==
  \/ AwaitDependencies(c) \/ AcquireSlot(c)
  \/ StartFault(c) \/ Launch(c) \/ Ready(c) \/ LaunchFault(c)
  \/ Finish(c) \/ TimeOut(c) \/ Overflow(c) \/ Reap(c)
  \/ CancelIdle(c) \/ CancelLaunching(c) \/ CancelRunning(c)

\* The leader of the group exits by itself; descendants may stay in the group.
Exit(c) ==
  /\ group[c] = "live"
  /\ exit[c] = None
  /\ exit' \in {[exit EXCEPT ![c] = e] : e \in {"exit_zero", "exit_nonzero"}}
  /\ \/ group' = [group EXCEPT ![c] = "dead"]
     \/ Lingers /\ UNCHANGED group
  /\ UNCHANGED <<task, phase, event, cancel, why, outcome, outer, mainVars>>

-----------------------------------------------------------------------------
(* main() and execute() *)

\* main carries error e to _fault.
Faulting(e) == main' = "faulting" /\ report' = e

PrepareRuntime ==
  /\ main = "preparing"
  /\ main' = "planning"
  /\ UNCHANGED <<taskVars, interrupted, signals, report, receipt, fault, status>>

\* No runtime directory, so no place for a fault file.
PrepareFault ==
  /\ main = "preparing"
  /\ main' = "ended"
  /\ status' = "1"
  /\ UNCHANGED <<taskVars, interrupted, signals, report, receipt, fault>>

\* load_plan, _prepare_rust_inputs and execute's own argument check.
LoadPlan ==
  /\ main = "planning"
  /\ \/ main' = "preflight" /\ UNCHANGED report
     \/ \E code \in {"plan", "setup"} : Faulting(Bare(code))
  /\ UNCHANGED <<taskVars, interrupted, signals, receipt, fault, status>>

\* _verify_network_sandbox passes and every check gets its task, or it raises a
\* network fault, or HARNESS_CONTAINMENT_FAILED where its probe cannot be killed;
\* an OSError of the unlink before its try leaves main without a fault.
Preflight ==
  /\ main = "preflight"
  /\ \/ /\ main' = "gather"
        /\ task' = [c \in Checks |-> "waiting"]
        /\ UNCHANGED <<report, status>>
     \/ Faulting(Bare("network")) /\ UNCHANGED <<task, status>>
     \/ /\ KillMayFail
        /\ Faulting(Bare("containment"))
        /\ UNCHANGED <<task, status>>
     \/ main' = "ended" /\ status' = "1" /\ UNCHANGED <<task, report>>
  /\ UNCHANGED <<phase, event, cancel, why, group, exit, outcome, outer,
                 interrupted, signals, receipt, fault>>

\* Mutant of GatherReturns: gather collects exceptions as results.
GatherReturns_Exceptions ==
  /\ main = "gather"
  /\ AllFinished
  /\ main' = "tail"
  /\ UNCHANGED <<taskVars, interrupted, signals, report, receipt, fault, status>>

\* await gather(*tasks) returns the outcomes of all checks.
GatherReturns ==
  /\ main = "gather"
  /\ \A c \in Checks : task[c] = "returned"
  /\ ~interrupted
  /\ main' = "tail"
  /\ UNCHANGED <<taskVars, interrupted, signals, report, receipt, fault, status>>

\* Mutant of GatherRaises: the remaining tasks are not cancelled.
GatherRaises_NoCancel ==
  /\ main = "gather"
  /\ outer # None \/ interrupted
  /\ main' = "draining"
  /\ report' = Bare(IF interrupted THEN "interrupted" ELSE outer)
  /\ interrupted' = FALSE
  /\ UNCHANGED <<taskVars, signals, receipt, fault, status>>

\* It raises: every task is cancelled and execute awaits them all.
GatherRaises ==
  /\ main = "gather"
  /\ outer # None \/ interrupted
  /\ main' = "draining"
  /\ report' = Bare(IF interrupted THEN "interrupted" ELSE outer)
  /\ cancel' = Live
  /\ interrupted' = FALSE
  /\ UNCHANGED <<task, phase, event, why, group, exit, outcome, outer, signals,
                 receipt, fault, status>>

\* Mutant of Drained: the phases are read before the tasks have ended.
Drained_NoAwait ==
  /\ main = "draining"
  /\ Faulting(PhaseReport(report.code))
  /\ UNCHANGED <<taskVars, interrupted, signals, receipt, fault, status>>

\* Every task has ended: the phases are read into the fault.  A cancellation
\* met here replaces that fault by main's bare HARNESS_INTERRUPTED.
Drained ==
  /\ main = "draining"
  /\ AllFinished
  /\ Faulting(IF interrupted THEN Bare("interrupted")
                             ELSE PhaseReport(report.code))
  /\ UNCHANGED <<taskVars, interrupted, signals, receipt, fault, status>>

\* The end of execute has no await.  Reading the harness's own bytes is outside
\* the try: an OSError leaves main without a fault.
WriteReceipt ==
  /\ main = "tail"
  /\ \/ main' = "written" /\ receipt' = outcome /\ UNCHANGED <<report, status>>
     \/ Faulting(Report("receipt", Checks, {}, {}, {}))
          /\ UNCHANGED <<receipt, status>>
     \/ main' = "ended" /\ status' = "1" /\ UNCHANGED <<receipt, report>>
  /\ UNCHANGED <<taskVars, interrupted, signals, fault>>

\* A task that returns with a cancellation pending ends cancelled, which
\* asyncio.run turns into KeyboardInterrupt.
Return ==
  /\ main = "written"
  /\ \/ interrupted /\ Faulting(Bare("interrupted")) /\ UNCHANGED status
     \/ ~interrupted /\ main' = "ended" /\ status' = "0" /\ UNCHANGED report
  /\ UNCHANGED <<taskVars, interrupted, signals, receipt, fault>>

\* asyncio.run has cancelled and awaited everything after KeyboardInterrupt.
CloseLoop ==
  /\ main = "closing"
  /\ AllFinished
  /\ Faulting(Bare("interrupted"))
  /\ UNCHANGED <<taskVars, interrupted, signals, receipt, fault, status>>

\* _fault swallows an OSError.
WriteFault ==
  /\ main = "faulting"
  /\ fault' \in {report, fault}
  /\ main' = "ended"
  /\ status' = StatusOf(report.code)
  /\ UNCHANGED <<taskVars, interrupted, signals, report, receipt>>

MainStep ==
  \/ PrepareRuntime \/ PrepareFault \/ LoadPlan \/ Preflight
  \/ GatherReturns \/ GatherRaises \/ Drained \/ WriteReceipt
  \/ Return \/ CloseLoop \/ WriteFault

-----------------------------------------------------------------------------
(* SIGINT *)

Signal == signals < MaxSignals /\ signals' = signals + 1

\* Outside the tasks: KeyboardInterrupt reaches main's handler, which writes a
\* fault once there is a runtime; during that write it ends the program.  In the
\* preflight a cancellation whose kill is refused leaves as a HarnessError.
SigintOutside ==
  /\ Signal
  /\ \/ main \in {"planning", "preflight"} /\ Faulting(Bare("interrupted"))
          /\ UNCHANGED status
     \/ main = "preflight" /\ KillMayFail /\ Faulting(Bare("containment"))
          /\ UNCHANGED status
     \/ main \in {"preparing", "faulting"} /\ main' = "ended"
          /\ status' = "130" /\ UNCHANGED report
  /\ UNCHANGED <<taskVars, interrupted, receipt, fault>>

\* The first SIGINT under asyncio.run cancels the main task, which passes it to
\* the gather it awaits; it stays pending if that gather is already done or if
\* the main task is not suspended.
SigintFirst ==
  /\ Signal
  /\ signals = 0
  /\ \/ main = "gather" /\ outer = None /\ Live # {}
          /\ cancel' = Live /\ UNCHANGED interrupted
     \/ main = "gather" /\ (outer # None \/ Live = {})
          /\ interrupted' = TRUE /\ UNCHANGED cancel
     \/ main = "draining" /\ cancel' = Live /\ interrupted' = TRUE
     \/ main \in {"tail", "written"} /\ interrupted' = TRUE /\ UNCHANGED cancel
  /\ UNCHANGED <<task, phase, event, why, group, exit, outcome, outer,
                 main, report, receipt, fault, status>>

\* The second one raises KeyboardInterrupt out of the loop, whose closing
\* cancels every task.
SigintSecond ==
  /\ Signal
  /\ signals = 1
  /\ \/ main \in {"gather", "draining"} /\ main' = "closing"
          /\ cancel' = Live /\ UNCHANGED report
     \/ main \in {"tail", "written"} /\ Faulting(Bare("interrupted"))
          /\ UNCHANGED cancel
  /\ UNCHANGED <<task, phase, event, why, group, exit, outcome, outer,
                 interrupted, receipt, fault, status>>

Sigint == SigintOutside \/ SigintFirst \/ SigintSecond

\* The run is over: only stuttering is left.
Terminated == main = "ended" /\ UNCHANGED vars

Next ==
  \/ \E c \in Checks : TaskStep(c) \/ Exit(c)
  \/ MainStep
  \/ Sigint
  \/ Terminated

\* The event loop resumes every task whose await is over, timers included, and
\* the kernel reaps what was killed.  Nothing makes a candidate exit by itself.
Fairness ==
  /\ \A c \in Checks : WF_vars(TaskStep(c))
  /\ WF_vars(MainStep)

Safety == Init /\ [][Next]_vars
Spec == Safety /\ Fairness

-----------------------------------------------------------------------------
(* Properties *)

TypeOK ==
  /\ main \in MainStates
  /\ task \in [Checks -> TaskStates]
  /\ phase \in [Checks -> Phases]
  /\ event \subseteq Checks
  /\ cancel \subseteq Checks
  /\ why \in [Checks -> {None, "timeout", "overflow", "launch", "cancel"}]
  /\ group \in [Checks -> {None, "live", "dead", "escaped"}]
  /\ exit \in [Checks -> {None, "exit_zero", "exit_nonzero"}]
  /\ outcome \in [Checks -> Outcomes \cup {None}]
  /\ outer \in Codes \cup {None}
  /\ interrupted \in BOOLEAN
  /\ signals \in 0..MaxSignals
  /\ report \in Reports
  /\ receipt \in [Checks -> Outcomes \cup {None}]
  /\ fault \in Reports
  /\ status \in {None, "0", "1", "2", "70", "130"}

\* Exit status 0 means: the receipt holds the outcome of every check, no fault
\* file contradicts it, and no process group of the run is left (execute, main).
AttestedExactly ==
  status = "0" =>
    /\ receipt = outcome
    /\ fault = NoReport
    /\ \A c \in Checks : outcome[c] # None /\ group[c] = "dead"

\* A check that left NOT_STARTED, whatever then became of it, was preceded by
\* the completion and the evidence of all its dependencies (_execute_check).
DependenciesFirst ==
  \A c \in Checks : phase[c] # "not_started" =>
    \A d \in Dependencies[c] : phase[d] = "completed" /\ outcome[d] # None

\* However tasks fail, time out or are cancelled, no more than `workers`
\* process groups run at once (the semaphore of execute).
WithinWorkers == Cardinality({c \in Checks : group[c] = "live"}) <= Workers

Uncreated == \A c \in Checks : task[c] = "uncreated"

\* A report that main may write: the phases of tasks that have all ended, or
\* nothing for a fault of before any check had a task, or main's own bare
\* interruption.
Truthful(r) ==
  \/ r = PhaseReport(r.code) /\ AllFinished
  \/ /\ Uncreated
     /\ r \in {Bare(code) : code \in {"plan", "setup", "network", "containment"}}
  \/ r = Bare("interrupted")

\* Once a check has a task every fault but main's bare interruption partitions
\* the plan by what really became of each check: "completed" are exactly those
\* with evidence on disk, and none whose group could not be killed is among
\* them (execute's lists, _kill's refusal).
FaultTruthful ==
  fault # NoReport =>
    /\ Truthful(fault)
    /\ fault = PhaseReport(fault.code) =>
         /\ fault.completed = {c \in Checks : outcome[c] # None}
         /\ \A c \in fault.completed : group[c] = "dead"

\* A fault whose code blames a check names at least one failed check (the
\* handlers of _execute_check set FAILED before they raise); a network fault
\* that names none comes from the preflight.
FailureNamed ==
  /\ fault.code = "check" => fault.failed # {}
  /\ fault.code = "network" => fault.failed # {} \/ fault = Bare("network")

\* Once execute is abandoning the run no further process group is started
\* (cancellation reaches a task before it can go on).
Abandoned == main \in {"draining", "closing", "faulting", "ended"}

NoStartWhenStopping ==
  [][\A c \in Checks : Abandoned /\ group[c] = None => group'[c] = None]_vars

\* When the harness is gone so is every process group it could kill.
NoSurvivor == main = "ended" => \A c \in Checks : group[c] # "live"

\* Contract of bounded_harness.py and its tests: a run ends with the aggregate
\* receipt or with a fault, never with both.
ReceiptOrFault == receipt = Nothing \/ fault = NoReport

\* What task, phase, event, outcome and group say of one check agree: the part
\* of the inductive invariant about _execute_check.
CheckConsistent(c) ==
  /\ task[c] \in {"uncreated", "waiting", "queued"} => phase[c] = "not_started"
  /\ task[c] \in {"starting", "launching", "running", "reaping"} =>
       phase[c] = "running"
  /\ task[c] = "returned" <=> phase[c] = "completed"
  /\ c \in event <=> phase[c] = "completed"
  /\ outcome[c] # None <=> phase[c] = "completed"
  /\ task[c] \in {"returned", "reaping"} => group[c] = "dead"
  /\ task[c] \in {"uncreated", "waiting", "queued", "starting"} =>
       group[c] = None
  /\ phase[c] # "not_started" \/ task[c] = "queued" =>
       Dependencies[c] \subseteq event

\* The part of the inductive invariant about main() and execute().
MainConsistent ==
  /\ main \in {"preparing", "planning", "preflight"} => Uncreated
  /\ main \in {"tail", "written"} => \A c \in Checks : task[c] = "returned"
  /\ main \in {"faulting", "ended"} => AllFinished \/ Uncreated
  /\ main = "written" => receipt = outcome
  /\ main = "faulting" => Truthful(report)
  /\ fault # NoReport => main = "ended" /\ Truthful(fault) /\ status # "0"
  /\ status # None => main = "ended"
  /\ status = "0" => /\ receipt = outcome
                     /\ \A c \in Checks : task[c] = "returned"

\* The inductive invariant of a run.
IInv == (\A c \in Checks : CheckConsistent(c)) /\ MainConsistent

\* The run implements the abstract one: outcomes are recorded in dependency
\* order, exit status 0 publishes them all, and the run always ends.
Run == INSTANCE AggregateRun WITH
  results <- outcome,
  published <- IF status = "0" THEN receipt ELSE Nothing,
  verdict <- IF main # "ended" THEN "open"
             ELSE IF status = "0" THEN "attested" ELSE "refused"

ImplementsAggregateRun == Run!Spec
=============================================================================
