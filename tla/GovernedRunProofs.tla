------------------------- MODULE GovernedRunProofs -------------------------
(***************************************************************************)
(* The harness for every plan, every number of workers and every value of  *)
(* the other constants; and the cross-runner job around it for every       *)
(* output of its checks: what its classification is worth.                 *)
(***************************************************************************)
EXTENDS GovernedRun, FiniteSetTheorems, WellFoundedInduction, TLAPS

\* A report built from a code and sets of checks is a report.
LEMMA ReportType ==
  ASSUME NEW code \in Codes \cup {None}, NEW A \in SUBSET Checks,
         NEW B \in SUBSET Checks, NEW C \in SUBSET Checks,
         NEW D \in SUBSET Checks
  PROVE  /\ Report(code, A, B, C, D) \in Reports
         /\ Bare(code) \in Reports
         /\ PhaseReport(code) \in Reports
         /\ NoReport \in Reports
  BY DEF Report, Reports, Bare, PhaseReport, NoReport, InPhase

LEMMA InitType == Init => TypeOK
  <1> SUFFICES ASSUME Init PROVE TypeOK
    OBVIOUS
  <1>1. NoReport \in Reports
    BY ReportType DEF Codes
  <1>2. /\ signals \in 0..MaxSignals
        /\ interrupted \in BOOLEAN
    <2>1. signals = 0 /\ interrupted = FALSE
      BY DEF Init
    <2>2. 0 \in 0..MaxSignals
      BY BoundsAssumption
    <2> QED
      BY <2>1, <2>2, Zenon
  <1>3. /\ main \in MainStates
        /\ task \in [Checks -> TaskStates]
        /\ phase \in [Checks -> Phases]
        /\ event \subseteq Checks /\ cancel \subseteq Checks
    BY DEF Init, MainStates, TaskStates, Phases
  <1>4. /\ why \in [Checks -> {None, "timeout", "overflow", "launch", "cancel"}]
        /\ group \in [Checks -> {None, "live", "dead", "escaped"}]
        /\ exit \in [Checks -> {None, "exit_zero", "exit_nonzero"}]
        /\ outcome \in [Checks -> Outcomes \cup {None}]
        /\ receipt \in [Checks -> Outcomes \cup {None}]
    BY DEF Init, Nothing
  <1>5. /\ outer \in Codes \cup {None}
        /\ report \in Reports /\ fault \in Reports
        /\ status \in {None, "0", "1", "2", "70", "130"}
    BY <1>1 DEF Init
  <1> QED
    BY <1>2, <1>3, <1>4, <1>5 DEF TypeOK

\* The steps of a check's task and of its process keep every type.
LEMMA TaskType ==
  ASSUME TypeOK, NEW c \in Checks, TaskStep(c) \/ Exit(c)
  PROVE  TypeOK'
  <1> USE DEF TypeOK, mainVars, TaskStates, Phases, Codes, Outcomes, None,
              Turn, Goto, Ends, Raises, SetPhase, Kill, KillRefused,
              KillAndReap, KillEscapes, RecordEvidence, Meets
  <1>1. CASE AwaitDependencies(c) BY <1>1 DEF AwaitDependencies
  <1>2. CASE AcquireSlot(c) BY <1>2 DEF AcquireSlot
  <1>3. CASE StartFault(c) BY <1>3 DEF StartFault
  <1>4. CASE Launch(c) BY <1>4 DEF Launch
  <1>5. CASE Ready(c) BY <1>5 DEF Ready
  <1>6. CASE LaunchFault(c) BY <1>6 DEF LaunchFault
  <1>7. CASE Finish(c) BY <1>7 DEF Finish
  <1>8. CASE TimeOut(c) BY <1>8 DEF TimeOut
  <1>9. CASE Overflow(c) BY <1>9 DEF Overflow
  <1>10. CASE Reap(c) BY <1>10 DEF Reap
  <1>11. CASE CancelIdle(c) BY <1>11 DEF CancelIdle
  <1>12. CASE CancelLaunching(c) BY <1>12 DEF CancelLaunching
  <1>13. CASE CancelRunning(c) BY <1>13 DEF CancelRunning
  <1>14. CASE Exit(c) BY <1>14 DEF Exit
  <1> QED
    BY <1>1, <1>2, <1>3, <1>4, <1>5, <1>6, <1>7, <1>8, <1>9, <1>10, <1>11,
       <1>12, <1>13, <1>14 DEF TaskStep

\* So do the steps of main and of the signals.
LEMMA MainType ==
  ASSUME TypeOK, MainStep \/ Sigint
  PROVE  TypeOK'
  <1> USE DEF TypeOK, taskVars, MainStates, TaskStates, Faulting
  <1>1. \A code \in Codes : Bare(code) \in Reports
    BY ReportType
  <1>2. CASE PrepareRuntime BY <1>2 DEF PrepareRuntime
  <1>3. CASE PrepareFault BY <1>3 DEF PrepareFault
  <1>4. CASE LoadPlan BY <1>1, <1>4 DEF LoadPlan, Codes
  <1>5. CASE Preflight BY <1>1, <1>5 DEF Preflight, Codes
  <1>6. CASE GatherReturns BY <1>6 DEF GatherReturns
  <1>7. CASE GatherRaises
    <2>1. Bare(IF interrupted THEN "interrupted" ELSE outer) \in Reports
      BY ReportType DEF Codes
    <2>2. Live \subseteq Checks
      BY DEF Live
    <2> QED
      BY <1>7, <2>1, <2>2 DEF GatherRaises
  <1>8. CASE Drained
    <2>1. report.code \in Codes \cup {None}
      BY DEF Reports
    <2>2. PhaseReport(report.code) \in Reports
      BY <2>1, ReportType
    <2> QED
      BY <1>1, <1>8, <2>2 DEF Drained, Codes
  <1>9. CASE WriteReceipt
    <2>1. Report("receipt", Checks, {}, {}, {}) \in Reports
      BY ReportType DEF Codes
    <2> QED
      BY <1>9, <2>1 DEF WriteReceipt
  <1>10. CASE Return BY <1>1, <1>10 DEF Return, Codes
  <1>11. CASE CloseLoop BY <1>1, <1>11 DEF CloseLoop, Codes
  <1>12. CASE WriteFault
    <2>1. StatusOf(report.code) \in {"1", "2", "70", "130"}
      BY DEF StatusOf
    <2> QED
      BY <1>12, <2>1 DEF WriteFault
  <1>13. Live \subseteq Checks
    BY DEF Live
  <1>14. Signal => signals' \in 0..MaxSignals
    BY BoundsAssumption DEF Signal
  <1>15. CASE SigintOutside BY <1>1, <1>14, <1>15 DEF SigintOutside, Codes
  <1>16. CASE SigintFirst BY <1>13, <1>14, <1>16 DEF SigintFirst
  <1>17. CASE SigintSecond
    BY <1>1, <1>13, <1>14, <1>17 DEF SigintSecond, Codes
  <1> QED
    BY <1>2, <1>3, <1>4, <1>5, <1>6, <1>7, <1>8, <1>9, <1>10, <1>11, <1>12,
       <1>15, <1>16, <1>17 DEF MainStep, Sigint

\* Every variable of a run keeps its type.
THEOREM RunTypeOK == Safety => []TypeOK
  <1>1. TypeOK /\ [Next]_vars => TypeOK'
    <2> SUFFICES ASSUME TypeOK, [Next]_vars PROVE TypeOK'
      OBVIOUS
    <2>1. CASE \E c \in Checks : TaskStep(c) \/ Exit(c)
      BY <2>1, TaskType
    <2>2. CASE MainStep \/ Sigint
      BY <2>2, MainType
    <2>3. CASE UNCHANGED vars
      BY <2>3 DEF TypeOK, vars
    <2> QED
      BY <2>1, <2>2, <2>3 DEF Next, Terminated
  <1> QED
    BY InitType, <1>1, PTL DEF Safety

-----------------------------------------------------------------------------
(* The inductive invariant *)

LEMMA InitInv == Init => IInv
  BY DEF Init, IInv, CheckConsistent, MainConsistent, Uncreated, Nothing, None

\* Only a task that is still alive moves, and while it does main waits for it.
LEMMA TaskFrame ==
  ASSUME TypeOK, IInv, NEW c \in Checks, TaskStep(c)
  PROVE  /\ task[c] \notin Finished \cup {"uncreated"}
         /\ main \in {"gather", "draining", "closing"}
         /\ UNCHANGED mainVars
  <1>1. /\ task[c] \notin Finished \cup {"uncreated"}
        /\ UNCHANGED mainVars
    BY DEF TaskStep, Turn, Meets, Finished, AwaitDependencies, AcquireSlot,
           StartFault, Launch, Ready, LaunchFault, Finish, TimeOut, Overflow,
           Reap, CancelIdle, CancelLaunching, CancelRunning
  <1>2. main \in {"gather", "draining", "closing"}
    BY <1>1 DEF TypeOK, IInv, MainConsistent, MainStates, AllFinished,
                Uncreated, Finished
  <1> QED
    BY <1>1, <1>2

\* A task's step and its process's exit keep the account of every check.
LEMMA TaskKeepsChecks ==
  ASSUME TypeOK, IInv, NEW c \in Checks, TaskStep(c) \/ Exit(c)
  PROVE  \A d \in Checks : CheckConsistent(d)'
  <1> SUFFICES ASSUME NEW d \in Checks PROVE CheckConsistent(d)'
    OBVIOUS
  <1>0. Dependencies \in [Checks -> SUBSET Checks]
    BY PlanAssumption
  <1> USE <1>0 DEF TypeOK, IInv, CheckConsistent, Turn, Goto, Ends, Raises,
      SetPhase, Kill, KillRefused, KillAndReap, KillEscapes, RecordEvidence,
      Meets, DependenciesDone, None, Outcomes
  <1>1. CASE AwaitDependencies(c) BY <1>1 DEF AwaitDependencies
  <1>2. CASE AcquireSlot(c) BY <1>2 DEF AcquireSlot
  <1>3. CASE StartFault(c) BY <1>3 DEF StartFault
  <1>4. CASE Launch(c) BY <1>4 DEF Launch
  <1>5. CASE Ready(c) BY <1>5 DEF Ready
  <1>6. CASE LaunchFault(c) BY <1>6 DEF LaunchFault
  <1>7. CASE Finish(c) BY <1>7 DEF Finish
  <1>8. CASE TimeOut(c) BY <1>8 DEF TimeOut
  <1>9. CASE Overflow(c) BY <1>9 DEF Overflow
  <1>10. CASE Reap(c) BY <1>10 DEF Reap
  <1>11. CASE CancelIdle(c) BY <1>11 DEF CancelIdle
  <1>12. CASE CancelLaunching(c) BY <1>12 DEF CancelLaunching
  <1>13. CASE CancelRunning(c) BY <1>13 DEF CancelRunning
  <1>14. CASE Exit(c) BY <1>14 DEF Exit
  <1> QED
    BY <1>1, <1>2, <1>3, <1>4, <1>5, <1>6, <1>7, <1>8, <1>9, <1>10, <1>11,
       <1>12, <1>13, <1>14 DEF TaskStep

\* They leave main and what it carries alone.
LEMMA TaskKeepsMain ==
  ASSUME TypeOK, IInv, NEW c \in Checks, TaskStep(c) \/ Exit(c)
  PROVE  MainConsistent'
  <1>1. CASE TaskStep(c)
    <2>1. /\ main' \in {"gather", "draining", "closing"}
          /\ UNCHANGED mainVars
      BY <1>1, TaskFrame DEF mainVars
    <2>2. fault' = NoReport /\ status' = None
      BY <1>1, <2>1, TaskFrame DEF IInv, MainConsistent, mainVars
    <2> QED
      BY <2>1, <2>2 DEF MainConsistent, None
  <1>2. CASE Exit(c)
    <2>1. UNCHANGED <<task, phase, outcome, mainVars>>
      BY <1>2 DEF Exit
    <2> QED
      BY <2>1 DEF IInv, MainConsistent, Truthful, PhaseReport, InPhase,
                  AllFinished, Uncreated, mainVars
  <1> QED
    BY <1>1, <1>2
\* Steps of main and signals keep the account of every check: only Preflight
\* touches one, creating its task.
LEMMA MainKeepsChecks ==
  ASSUME TypeOK, IInv, MainStep \/ Sigint
  PROVE  \A d \in Checks : CheckConsistent(d)'
  <1>1. CASE Preflight
    <2> SUFFICES ASSUME NEW d \in Checks PROVE CheckConsistent(d)'
      OBVIOUS
    <2> QED
      BY <1>1 DEF Preflight, IInv, CheckConsistent, MainConsistent, Uncreated,
                  Faulting, TypeOK
  <1>2. CASE ~Preflight
    <2>1. UNCHANGED <<task, phase, event, group, outcome>>
      BY <1>2 DEF MainStep, Sigint, PrepareRuntime, PrepareFault, LoadPlan,
           GatherReturns, GatherRaises, Drained, WriteReceipt, Return,
           CloseLoop, WriteFault, SigintOutside, SigintFirst, SigintSecond,
           taskVars
    <2> QED
      BY <2>1 DEF IInv, CheckConsistent
  <1> QED
    BY <1>1, <1>2

\* When every check has returned, the phases list exactly the plan as completed.
LEMMA AllCompletedReport ==
  ASSUME TypeOK, IInv, \A c \in Checks : task[c] = "returned"
  PROVE  Report("receipt", Checks, {}, {}, {}) = PhaseReport("receipt")
  <1>1. \A c \in Checks : phase[c] = "completed"
    BY DEF IInv, CheckConsistent
  <1> QED
    BY <1>1 DEF PhaseReport, Report, InPhase

LEMMA MainKeepsMain ==
  ASSUME TypeOK, IInv, MainStep \/ Sigint
  PROVE  MainConsistent'
  <1> USE DEF IInv, MainConsistent, taskVars, Faulting, None
  <1>0. \A code : Bare(code) # NoReport \/ code = None
    BY DEF Bare, NoReport, Report
  <1>1. CASE PrepareRuntime
    BY <1>1 DEF PrepareRuntime, Uncreated
  <1>2. CASE PrepareFault
    BY <1>2 DEF PrepareFault, Uncreated
  <1>3. CASE LoadPlan
    BY <1>3 DEF LoadPlan, Uncreated, Truthful, Bare, Report
  <1>4. CASE Preflight
    BY <1>4 DEF Preflight, Uncreated, Truthful, Bare, Report
  <1>5. CASE GatherReturns
    BY <1>5 DEF GatherReturns
  <1>6. CASE GatherRaises
    BY <1>6 DEF GatherRaises
  <1>7. CASE Drained
    <2>1. report' \in {Bare("interrupted"), PhaseReport(report.code)}
      BY <1>7 DEF Drained
    <2>2. PhaseReport(report.code).code = report.code
      BY DEF PhaseReport, Report
    <2>3. Truthful(report')
      BY <1>7, <2>1, <2>2 DEF Truthful, Drained
    <2>4. Truthful(report)'
      BY <1>7, <2>3 DEF Truthful, Uncreated, Drained, PhaseReport, InPhase, AllFinished, Bare
    <2> QED
      BY <1>7, <2>4 DEF Drained, AllFinished
  <1>8. CASE WriteReceipt
    <2>1. AllFinished
      BY <1>8 DEF WriteReceipt, AllFinished, Finished
    <2>2. PhaseReport("receipt").code = "receipt"
      BY DEF PhaseReport, Report
    <2>3. Truthful(PhaseReport("receipt"))
      BY <2>1, <2>2 DEF Truthful
    <2>4. UNCHANGED <<task, phase, outcome, fault>>
      BY <1>8 DEF WriteReceipt
    <2>5. AllFinished' /\ (main' = "faulting" => Truthful(report)')
      BY <1>8, <2>1, <2>3, <2>4, AllCompletedReport
      DEF WriteReceipt, Truthful, Uncreated, PhaseReport, InPhase, AllFinished, Bare
    <2> QED
      BY <1>8, <2>4, <2>5 DEF WriteReceipt
  <1>9. CASE Return
    BY <1>9 DEF Return, AllFinished, Finished, Truthful, Bare, Report
  <1>10. CASE CloseLoop
    BY <1>10 DEF CloseLoop, AllFinished, Truthful, Bare, Report
  <1>11. CASE WriteFault
    <2>1. StatusOf(report.code) # "0"
      BY DEF StatusOf
    <2>2. UNCHANGED <<task, phase, outcome>>
      BY <1>11 DEF WriteFault
    <2>3. fault' \in {report, NoReport} /\ Truthful(report)
      BY <1>11 DEF WriteFault
    <2>4. fault' # NoReport => Truthful(fault)'
      BY <2>2, <2>3 DEF Truthful, Uncreated, PhaseReport, InPhase, AllFinished, Bare
    <2> QED
      BY <1>11, <2>1, <2>2, <2>4 DEF WriteFault, AllFinished, Uncreated
  <1>12. CASE SigintOutside
    BY <1>12 DEF SigintOutside, Signal, Uncreated, AllFinished, Truthful, Bare, Report
  <1>13. CASE SigintFirst
    BY <1>13 DEF SigintFirst, Signal
  <1>14. CASE SigintSecond
    BY <1>14 DEF SigintSecond, Signal, AllFinished, Finished, Truthful, Bare, Report
  <1> QED
    BY <1>1, <1>2, <1>3, <1>4, <1>5, <1>6, <1>7, <1>8, <1>9, <1>10, <1>11,
       <1>12, <1>13, <1>14 DEF MainStep, Sigint

\* IInv holds in every reachable state.
THEOREM RunInvariant == Safety => []IInv
  <1>1. TypeOK /\ IInv /\ [Next]_vars => IInv'
    <2> SUFFICES ASSUME TypeOK, IInv, [Next]_vars PROVE IInv'
      OBVIOUS
    <2>1. CASE \E c \in Checks : TaskStep(c) \/ Exit(c)
      BY <2>1, TaskKeepsChecks, TaskKeepsMain DEF IInv
    <2>2. CASE MainStep \/ Sigint
      BY <2>2, MainKeepsChecks, MainKeepsMain DEF IInv
    <2>3. CASE UNCHANGED vars
      BY <2>3 DEF IInv, CheckConsistent, MainConsistent, Truthful, PhaseReport,
                  InPhase, AllFinished, Uncreated, vars
    <2> QED
      BY <2>1, <2>2, <2>3 DEF Next, Terminated
  <1> QED
    BY InitInv, <1>1, RunTypeOK, PTL DEF Safety

\* Whatever became of a check that was started, its dependencies had completed
\* and left their evidence before.
THEOREM StartedAfterDependencies == Safety => []DependenciesFirst
  <1>1. TypeOK /\ IInv => DependenciesFirst
    BY PlanAssumption DEF TypeOK, IInv, CheckConsistent, DependenciesFirst
  <1> QED
    BY <1>1, RunTypeOK, RunInvariant, PTL

\* Exit status 0 always means a complete receipt, no fault and no process left.
THEOREM ExitZeroAttests == Safety => []AttestedExactly
  <1>1. IInv => AttestedExactly
    BY DEF IInv, CheckConsistent, MainConsistent, AttestedExactly
  <1> QED
    BY <1>1, RunInvariant, PTL

\* Every fault that lists checks is the true account of all of them, and once
\* there are tasks only main's bare interruption lists none.
THEOREM FaultsAreTruthful == Safety => []FaultTruthful
  <1>1. IInv => FaultTruthful
    <2> SUFFICES ASSUME IInv, fault # NoReport PROVE FaultTruthful
      BY DEF FaultTruthful
    <2>1. Truthful(fault)
      BY DEF IInv, MainConsistent
    <2>2. ASSUME fault = PhaseReport(fault.code)
          PROVE  /\ fault.completed = {c \in Checks : outcome[c] # None}
                 /\ \A c \in fault.completed : group[c] = "dead"
      <3>1. InPhase("completed") = {c \in Checks : outcome[c] # None}
        BY DEF IInv, CheckConsistent, InPhase
      <3>2. PhaseReport(fault.code).completed = InPhase("completed")
        BY DEF PhaseReport, Report
      <3>3. \A c \in InPhase("completed") : group[c] = "dead"
        BY DEF IInv, CheckConsistent, InPhase
      <3> QED
        BY <2>2, <3>1, <3>2, <3>3
    <2> QED
      BY <2>1, <2>2 DEF FaultTruthful
  <1> QED
    BY <1>1, RunInvariant, PTL

-----------------------------------------------------------------------------
(* Containment and the worker bound where no descendant outlives its leader *)

\* A live group belongs to a task that will kill it.
Owned ==
  \A c \in Checks :
    /\ group[c] = "live" =>
         task[c] \in {"launching", "running"} /\ exit[c] = None
    /\ group[c] = None => exit[c] = None

SlotsKept == Cardinality(Holders) <= Workers

LEMMA HoldersFinite == IsFiniteSet(Holders)
  BY PlanAssumption, FS_Subset DEF Holders

LEMMA OwnedStep ==
  ASSUME ~Lingers, TypeOK, IInv, Owned, [Next]_vars
  PROVE  Owned'
  <1>1. ASSUME NEW c \in Checks, TaskStep(c) \/ Exit(c) PROVE Owned'
    <2> USE DEF TypeOK, IInv, CheckConsistent, Owned, Turn, Goto, Ends, Raises,
        SetPhase, Kill, KillRefused, KillAndReap, KillEscapes, RecordEvidence,
        Meets, None
    <2>1. CASE AwaitDependencies(c) BY <2>1 DEF AwaitDependencies
    <2>2. CASE AcquireSlot(c) BY <2>2 DEF AcquireSlot
    <2>3. CASE StartFault(c) BY <2>3 DEF StartFault
    <2>4. CASE Launch(c) BY <2>4 DEF Launch
    <2>5. CASE Ready(c) BY <2>5 DEF Ready
    <2>6. CASE LaunchFault(c) BY <2>6 DEF LaunchFault
    <2>7. CASE Finish(c) BY <2>7 DEF Finish
    <2>8. CASE TimeOut(c) BY <2>8 DEF TimeOut
    <2>9. CASE Overflow(c) BY <2>9 DEF Overflow
    <2>10. CASE Reap(c) BY <2>10 DEF Reap
    <2>11. CASE CancelIdle(c) BY <2>11 DEF CancelIdle
    <2>12. CASE CancelLaunching(c) BY <2>12 DEF CancelLaunching
    <2>13. CASE CancelRunning(c) BY <2>13 DEF CancelRunning
    <2>14. CASE Exit(c) BY <2>14 DEF Exit
    <2> QED
      BY <1>1, <2>1, <2>2, <2>3, <2>4, <2>5, <2>6, <2>7, <2>8, <2>9, <2>10,
         <2>11, <2>12, <2>13, <2>14 DEF TaskStep
  <1>2. CASE MainStep \/ Sigint
    <2>1. UNCHANGED <<group, exit>>
      BY <1>2 DEF MainStep, Sigint, PrepareRuntime, PrepareFault, LoadPlan,
           Preflight, GatherReturns, GatherRaises, Drained, WriteReceipt,
           Return, CloseLoop, WriteFault, SigintOutside, SigintFirst,
           SigintSecond, taskVars
    <2>2. CASE Preflight
      BY <2>1, <2>2 DEF Preflight, Owned, IInv, MainConsistent, Uncreated,
                         CheckConsistent
    <2>3. CASE ~Preflight
      <3>1. UNCHANGED task
        BY <1>2, <2>3 DEF MainStep, Sigint, PrepareRuntime, PrepareFault,
           LoadPlan, GatherReturns, GatherRaises, Drained, WriteReceipt,
           Return, CloseLoop, WriteFault, SigintOutside, SigintFirst,
           SigintSecond, taskVars
      <3> QED
        BY <2>1, <3>1 DEF Owned
    <2> QED
      BY <2>2, <2>3
  <1>3. CASE UNCHANGED vars
    BY <1>3 DEF Owned, vars
  <1> QED
    BY <1>1, <1>2, <1>3 DEF Next, Terminated
\* Only AcquireSlot adds a holder, and only while a slot is free.
LEMMA SlotsStep ==
  ASSUME TypeOK, IInv, SlotsKept, [Next]_vars
  PROVE  SlotsKept'
  <1> USE BoundsAssumption
  <1>1. Cardinality(Holders) \in Nat
    BY HoldersFinite, FS_CardinalityType
  <1>2. ASSUME Holders' \subseteq Holders PROVE SlotsKept'
    <2>1. Cardinality(Holders') <= Cardinality(Holders)
      BY <1>2, HoldersFinite, FS_Subset
    <2>2. IsFiniteSet(Holders')
      BY <1>2, HoldersFinite, FS_Subset
    <2>3. Cardinality(Holders') \in Nat
      BY <2>2, FS_CardinalityType
    <2> QED
      BY <1>1, <2>1, <2>3 DEF SlotsKept
  <1>3. ASSUME NEW c \in Checks, AcquireSlot(c) PROVE SlotsKept'
    <2>1. Holders' = Holders \cup {c} /\ c \notin Holders
      BY <1>3 DEF AcquireSlot, Turn, Goto, Holders, TypeOK
    <2>2. Cardinality(Holders') = Cardinality(Holders) + 1
      BY <2>1, HoldersFinite, FS_AddElement
    <2> QED
      BY <1>1, <1>3, <2>2 DEF AcquireSlot, SlotFree, SlotsKept
  <1>4. ASSUME NEW c \in Checks, TaskStep(c), ~AcquireSlot(c)
        PROVE  Holders' \subseteq Holders
    BY <1>4 DEF TaskStep, Holders, TypeOK, Turn, Goto, Ends, Raises,
         KillAndReap, KillEscapes, RecordEvidence, Meets, AwaitDependencies,
         StartFault, Launch, Ready, LaunchFault, Finish, TimeOut, Overflow,
         Reap, CancelIdle, CancelLaunching, CancelRunning
  <1>5. CASE MainStep \/ Sigint
    <2>1. CASE Preflight
      BY <1>2, <2>1 DEF Preflight, Holders
    <2>2. CASE ~Preflight
      <3>1. UNCHANGED task
        BY <1>5, <2>2 DEF MainStep, Sigint, PrepareRuntime, PrepareFault,
           LoadPlan, GatherReturns, GatherRaises, Drained, WriteReceipt,
           Return, CloseLoop, WriteFault, SigintOutside, SigintFirst,
           SigintSecond, taskVars
      <3> QED
        BY <1>2, <3>1 DEF Holders
    <2> QED
      BY <2>1, <2>2
  <1>6. ASSUME NEW c \in Checks, Exit(c) PROVE SlotsKept'
    BY <1>2, <1>6 DEF Exit, Holders
  <1>7. CASE UNCHANGED vars
    BY <1>2, <1>7 DEF Holders, vars
  <1> QED
    BY <1>2, <1>3, <1>4, <1>5, <1>6, <1>7 DEF Next, Terminated

\* At most `workers` process groups run at once, whatever fails, times out or
\* is cancelled.
THEOREM WorkersBoundGroups ==
  ASSUME ~Lingers
  PROVE  Safety => []WithinWorkers
  <1>1. Init => Owned /\ SlotsKept
    <2> SUFFICES ASSUME Init PROVE Owned /\ SlotsKept
      OBVIOUS
    <2>1. Holders = {}
      BY DEF Init, Holders
    <2>2. SlotsKept
      BY <2>1, FS_EmptySet, BoundsAssumption DEF SlotsKept
    <2> QED
      BY <2>2 DEF Init, Owned, Nothing, None
  <1>2. TypeOK /\ IInv /\ Owned /\ SlotsKept /\ [Next]_vars =>
          Owned' /\ SlotsKept'
    BY OwnedStep, SlotsStep
  <1>3. Owned /\ SlotsKept => WithinWorkers
    <2> SUFFICES ASSUME Owned, SlotsKept PROVE WithinWorkers
      OBVIOUS
    <2> DEFINE L == {c \in Checks : group[c] = "live"}
    <2>1. L \subseteq Holders
      BY DEF Owned, Holders
    <2>2. Cardinality(L) <= Cardinality(Holders) /\ IsFiniteSet(L)
      BY <2>1, HoldersFinite, FS_Subset
    <2>3. Cardinality(L) \in Nat /\ Cardinality(Holders) \in Nat
      BY <2>2, HoldersFinite, FS_CardinalityType
    <2> QED
      BY <2>2, <2>3, BoundsAssumption DEF SlotsKept, WithinWorkers
  <1> QED
    BY <1>1, <1>2, <1>3, RunTypeOK, RunInvariant, PTL DEF Safety

\* When the harness has ended it has killed every process group it could kill.
THEOREM NothingSurvives ==
  ASSUME ~Lingers
  PROVE  Safety => []NoSurvivor
  <1>1. Init => Owned
    BY DEF Init, Owned, Nothing, None
  <1>2. TypeOK /\ IInv /\ Owned /\ [Next]_vars => Owned'
    BY OwnedStep
  <1>3. IInv /\ Owned => NoSurvivor
    BY DEF IInv, MainConsistent, Owned, NoSurvivor, AllFinished, Uncreated,
           Finished
  <1> QED
    BY <1>1, <1>2, <1>3, RunTypeOK, RunInvariant, PTL DEF Safety

-----------------------------------------------------------------------------
(* What a fault blames, and what is started while the run is abandoned *)

\* An exception that blames a check left that check FAILED, and what carries it
\* keeps saying so.
Blamed ==
  /\ outer \in {"check", "network"} => InPhase("failed") # {}
  /\ main = "draining" /\ report.code \in {"check", "network"} =>
       InPhase("failed") # {}
  /\ main = "faulting" /\ report.code \in {"check", "network"} =>
       report.failed # {} \/ report = Bare("network")
  /\ fault.code \in {"check", "network"} =>
       fault.failed # {} \/ fault = Bare("network")

LEMMA TaskKeepsBlame ==
  ASSUME TypeOK, IInv, Blamed, NEW c \in Checks, TaskStep(c) \/ Exit(c)
  PROVE  Blamed'
  <1>1. UNCHANGED mainVars
    BY TaskFrame DEF Exit
  <1>2. \A d \in Checks : phase[d] = "failed" => phase'[d] = "failed"
    <2>1. CASE Exit(c)
      BY <2>1 DEF Exit
    <2>2. CASE TaskStep(c)
      <3>1. phase[c] # "failed" \/ UNCHANGED phase
        <4>1. task[c] \notin Finished \cup {"uncreated"}
          BY <2>2, TaskFrame
        <4> QED
          BY <4>1 DEF IInv, CheckConsistent, TypeOK, TaskStates, Finished
      <3>2. \A d \in Checks \ {c} : phase'[d] = phase[d]
        BY <2>2 DEF TypeOK, TaskStep, SetPhase, AwaitDependencies, AcquireSlot,
           StartFault, Launch, Ready, LaunchFault, Finish, TimeOut, Overflow, Reap,
           CancelIdle, CancelLaunching, CancelRunning, KillAndReap, KillEscapes,
           RecordEvidence
      <3> QED
        BY <3>1, <3>2
    <2> QED
      BY <2>1, <2>2
  <1>3. InPhase("failed") \subseteq InPhase("failed")'
    BY <1>2 DEF InPhase
  <1>4. outer' = outer \/ outer' \notin {"check", "network"} \/ phase'[c] = "failed"
    BY DEF TypeOK, TaskStep, Turn, Goto, Ends, Raises, SetPhase, KillAndReap,
       KillEscapes, RecordEvidence, AwaitDependencies, AcquireSlot, StartFault,
       Launch, Ready, LaunchFault, Finish, TimeOut, Overflow, Reap, CancelIdle,
       CancelLaunching, CancelRunning, Exit
  <1>5. phase'[c] = "failed" => InPhase("failed")' # {}
    BY DEF InPhase
  <1> QED
    BY <1>1, <1>3, <1>4, <1>5 DEF Blamed, mainVars

LEMMA MainKeepsBlame ==
  ASSUME TypeOK, IInv, Blamed, MainStep \/ Sigint
  PROVE  Blamed'
  <1>1. UNCHANGED <<phase, outer>>
    BY DEF MainStep, Sigint, PrepareRuntime, PrepareFault, LoadPlan, Preflight,
       GatherReturns, GatherRaises, Drained, WriteReceipt, Return, CloseLoop,
       WriteFault, SigintOutside, SigintFirst, SigintSecond, taskVars
  <1>2. InPhase("failed")' = InPhase("failed")
    BY <1>1 DEF InPhase
  <1>3. /\ \A code : Bare(code).code = code
        /\ \A code : PhaseReport(code).code = code
        /\ \A code : PhaseReport(code).failed = InPhase("failed")
    BY DEF Bare, PhaseReport, Report
  <1>4. CASE UNCHANGED <<report, fault>> /\ main' \notin {"draining", "faulting"}
    BY <1>1, <1>2, <1>4 DEF Blamed
  <1>5. CASE UNCHANGED <<report, fault, main>>
    BY <1>1, <1>2, <1>5 DEF Blamed
  <1>6. CASE GatherRaises
    BY <1>1, <1>2, <1>3, <1>6 DEF Blamed, GatherRaises
  <1>7. CASE Drained
    <2>1. main' = "faulting" /\ UNCHANGED fault
          /\ report' \in {Bare("interrupted"), PhaseReport(report.code)}
      BY <1>7 DEF Drained, Faulting
    <2>2. report'.code \in {"check", "network"} => report'.failed # {}
      BY <1>3, <1>7, <2>1 DEF Blamed, Drained
    <2> QED
      BY <1>1, <1>2, <2>1, <2>2 DEF Blamed
  <1>8. CASE WriteFault
    BY <1>1, <1>2, <1>8 DEF Blamed, WriteFault
  <1>9. CASE /\ main' = "faulting" /\ UNCHANGED fault
             /\ \/ \E code \in {"plan", "setup", "network", "containment",
                               "interrupted"} :
                     report' = Bare(code)
                \/ report' = Report("receipt", Checks, {}, {}, {})
    <2>1. report'.code \in {"check", "network"} => report' = Bare("network")
      BY <1>3, <1>9 DEF Report
    <2> QED
      BY <1>1, <1>2, <1>9, <2>1 DEF Blamed
  <1> QED
    BY <1>4, <1>5, <1>6, <1>7, <1>8, <1>9
    DEF MainStep, Sigint, PrepareRuntime, PrepareFault, LoadPlan, Preflight,
       GatherReturns, WriteReceipt, Return, CloseLoop, SigintOutside, SigintFirst,
       SigintSecond, Faulting

\* A fault that blames a check names a failed one.
THEOREM BlameIsNamed == Safety => []FailureNamed
  <1>1. Init => Blamed
    BY DEF Init, Blamed, NoReport, Report, None
  <1>2. TypeOK /\ IInv /\ Blamed /\ [Next]_vars => Blamed'
    <2> SUFFICES ASSUME TypeOK, IInv, Blamed, UNCHANGED vars PROVE Blamed'
      BY TaskKeepsBlame, MainKeepsBlame DEF Next, Terminated
    <2> QED
      BY DEF vars, Blamed, InPhase
  <1>3. Blamed => FailureNamed
    BY DEF Blamed, FailureNamed, Bare, Report
  <1> QED
    BY <1>1, <1>2, <1>3, RunTypeOK, RunInvariant, PTL DEF Safety

\* A task that could still start its process has a cancellation to meet first,
\* and one that kills a group has started it.
Revoked ==
  \A c \in Checks :
    /\ main \in {"draining", "closing"} /\ task[c] \in {"waiting", "queued", "starting"}
         => c \in cancel
    /\ task[c] \in {"launching", "running", "reaping"} => group[c] # None

LEMMA RevokedStep ==
  ASSUME TypeOK, IInv, Revoked, [Next]_vars
  PROVE  Revoked'
  <1>1. ASSUME NEW c \in Checks, TaskStep(c) PROVE Revoked'
    <2> USE TaskFrame, <1>1
        DEF Revoked, TypeOK, Turn, Meets, Goto, Ends, Raises, Kill, KillRefused,
            KillAndReap, KillEscapes, RecordEvidence, mainVars, None
    <2>1. CASE AwaitDependencies(c) BY <2>1 DEF AwaitDependencies
    <2>2. CASE AcquireSlot(c) BY <2>2 DEF AcquireSlot
    <2>3. CASE StartFault(c) BY <2>3 DEF StartFault
    <2>4. CASE Launch(c) BY <2>4 DEF Launch
    <2>5. CASE Ready(c) BY <2>5 DEF Ready
    <2>6. CASE LaunchFault(c) BY <2>6 DEF LaunchFault
    <2>7. CASE Finish(c) BY <2>7 DEF Finish
    <2>8. CASE TimeOut(c) BY <2>8 DEF TimeOut
    <2>9. CASE Overflow(c) BY <2>9 DEF Overflow
    <2>10. CASE Reap(c) BY <2>10 DEF Reap
    <2>11. CASE CancelIdle(c) BY <2>11 DEF CancelIdle
    <2>12. CASE CancelLaunching(c) BY <2>12 DEF CancelLaunching
    <2>13. CASE CancelRunning(c) BY <2>13 DEF CancelRunning
    <2> QED
      BY <2>1, <2>2, <2>3, <2>4, <2>5, <2>6, <2>7, <2>8, <2>9, <2>10, <2>11,
         <2>12, <2>13 DEF TaskStep
  <1>2. ASSUME NEW c \in Checks, Exit(c) PROVE Revoked'
    BY <1>2 DEF Revoked, Exit, mainVars, TypeOK, None
  <1>3. CASE MainStep \/ Sigint
    <2>1. /\ UNCHANGED group
          /\ UNCHANGED task \/ task' = [c \in Checks |-> "waiting"]
          /\ main' \in {"draining", "closing"} =>
               UNCHANGED task /\ (cancel' = Live \/ UNCHANGED <<main, cancel>>)
      BY <1>3 DEF MainStep, Sigint, PrepareRuntime, PrepareFault, LoadPlan,
         Preflight, GatherReturns, GatherRaises, Drained, WriteReceipt, Return,
         CloseLoop, WriteFault, SigintOutside, SigintFirst, SigintSecond,
         Faulting, taskVars
    <2> QED
      BY <2>1 DEF Revoked, Live, Finished
  <1>4. CASE UNCHANGED vars
    BY <1>4 DEF Revoked, vars
  <1> QED
    BY <1>1, <1>2, <1>3, <1>4 DEF Next, Terminated

\* Once the run is abandoned no further process group is started.
THEOREM NothingStartsLate == Safety => NoStartWhenStopping
  <1>1. Init => Revoked
    BY DEF Init, Revoked
  <1> DEFINE Held == \A c \in Checks : Abandoned /\ group[c] = None => group'[c] = None
  <1>2. TypeOK /\ IInv /\ Revoked /\ [Next]_vars => [Held]_vars
    <2> SUFFICES ASSUME TypeOK, IInv, Revoked, [Next]_vars, Abandoned,
                        NEW d \in Checks, group[d] = None
                 PROVE  group'[d] = None
      OBVIOUS
    <2>1. ASSUME NEW c \in Checks, TaskStep(c) PROVE group'[d] = None
      <3>1. main \in {"draining", "closing"}
        BY <2>1, TaskFrame DEF Abandoned
      <3>2. ~Launch(c)
        BY <2>1, <3>1 DEF Revoked, Launch, Turn
      <3> QED
        BY <2>1, <3>2
        DEF Revoked, TypeOK, TaskStep, Turn, Meets, Kill, KillRefused, KillAndReap,
            KillEscapes, AwaitDependencies, AcquireSlot, StartFault, Ready,
            LaunchFault, Finish, TimeOut, Overflow, Reap, CancelIdle,
            CancelLaunching, CancelRunning, None
    <2>2. ASSUME NEW c \in Checks, Exit(c) PROVE group'[d] = None
      BY <2>2 DEF Exit, TypeOK, None
    <2>3. CASE MainStep \/ Sigint
      BY <2>3 DEF MainStep, Sigint, PrepareRuntime, PrepareFault, LoadPlan,
         Preflight, GatherReturns, GatherRaises, Drained, WriteReceipt, Return,
         CloseLoop, WriteFault, SigintOutside, SigintFirst, SigintSecond, taskVars
    <2>4. CASE UNCHANGED vars
      BY <2>4 DEF vars
    <2> QED
      BY <2>1, <2>2, <2>3, <2>4 DEF Next, Terminated
  <1>3. TypeOK /\ IInv /\ Revoked /\ [Next]_vars => Revoked'
    BY RevokedStep
  <1> QED
    BY <1>1, <1>2, <1>3, RunTypeOK, RunInvariant, PTL DEF Safety, NoStartWhenStopping

-----------------------------------------------------------------------------
(* Refinement *)

\* A step of a task or process records at most its own outcome, once its
\* dependencies have theirs.
LEMMA TaskRefines ==
  ASSUME TypeOK, IInv, NEW c \in Checks, TaskStep(c) \/ Exit(c)
  PROVE  Run!Next \/ UNCHANGED Run!vars
  <1>0. /\ UNCHANGED mainVars
        /\ TaskStep(c) => main # "ended"
    BY TaskFrame DEF Exit
  <1>1. CASE outcome' = outcome
    BY <1>0, <1>1 DEF Run!vars, mainVars, Nothing
  <1>2. CASE outcome' # outcome
    <2>1. /\ \E o \in Outcomes : outcome' = [outcome EXCEPT ![c] = o]
          /\ task[c] \in {"running", "reaping"}
          /\ TaskStep(c)
      <3>1. Finish(c) \/ Reap(c)
        BY <1>2 DEF TaskStep, AwaitDependencies, AcquireSlot, StartFault,
          Launch, Ready, LaunchFault, TimeOut, Overflow, CancelIdle,
          CancelLaunching, CancelRunning, Exit
      <3> QED
        BY <1>2, <3>1 DEF Finish, Reap, RecordEvidence, Turn, TypeOK, Outcomes,
                          None, TaskStep
    <2>2. outcome[c] = None /\ \A d \in Dependencies[c] : outcome[d] # None
      BY <2>1, PlanAssumption DEF TypeOK, IInv, CheckConsistent
    <2>3. Run!Complete(c)
      BY <1>0, <2>1, <2>2
      DEF Run!Complete, Run!None, None, mainVars, Nothing
    <2> QED
      BY <2>3 DEF Run!Next
  <1> QED
    BY <1>1, <1>2

\* Ending with status 0 attests, ending with another refuses.
LEMMA MainRefines ==
  ASSUME TypeOK, IInv, MainStep \/ Sigint
  PROVE  Run!Next \/ UNCHANGED Run!vars
  <1>1. UNCHANGED outcome
    BY DEF MainStep, Sigint, PrepareRuntime, PrepareFault, LoadPlan, Preflight,
         GatherReturns, GatherRaises, Drained, WriteReceipt, Return, CloseLoop,
         WriteFault, SigintOutside, SigintFirst, SigintSecond, taskVars
  <1>2. main # "ended"
    BY DEF MainStep, Sigint, PrepareRuntime, PrepareFault, LoadPlan, Preflight,
         GatherReturns, GatherRaises, Drained, WriteReceipt, Return, CloseLoop,
         WriteFault, SigintOutside, SigintFirst, SigintSecond
  <1>3. status = None
    BY <1>2 DEF IInv, MainConsistent
  <1>4. CASE main' # "ended"
    <2>1. status' = None
      BY <1>3, <1>4 DEF MainStep, Sigint, PrepareRuntime, PrepareFault,
         LoadPlan, Preflight, GatherReturns, GatherRaises, Drained,
         WriteReceipt, Return, CloseLoop, WriteFault, SigintOutside,
         SigintFirst, SigintSecond, Faulting
    <2> QED
      BY <1>1, <1>2, <1>3, <1>4, <2>1 DEF Run!vars, None, Nothing
  <1>5. CASE main' = "ended" /\ status' = "0"
    <2>1. /\ main = "written"
          /\ UNCHANGED receipt
      <3>1. StatusOf(report.code) # "0"
        BY DEF StatusOf
      <3>2. Return
        BY <1>2, <1>3, <1>5, <3>1 DEF MainStep, Sigint, PrepareRuntime,
          PrepareFault, LoadPlan, Preflight, GatherReturns, GatherRaises,
          Drained, WriteReceipt, Return, CloseLoop, WriteFault, SigintOutside,
          SigintFirst, SigintSecond, Faulting, None
      <3> QED
        BY <3>2 DEF Return
    <2>2. receipt = outcome /\ \A c \in Checks : outcome[c] # None
      BY <2>1 DEF IInv, MainConsistent, CheckConsistent
    <2>3. Run!Attest
      BY <1>1, <1>2, <1>3, <1>5, <2>1, <2>2
      DEF Run!Attest, Run!None, None, Nothing
    <2> QED
      BY <2>3 DEF Run!Next
  <1>6. CASE main' = "ended" /\ status' # "0"
    BY <1>1, <1>2, <1>3, <1>6 DEF Run!Next, Run!Refuse, None, Nothing
  <1> QED
    BY <1>4, <1>5, <1>6

\* Every run is a run of the abstract specification (its safety part).
THEOREM RunRefinesAggregate == Safety => Run!Safety
  <1>1. Init => Run!Init
    BY DEF Init, Run!Init, Run!Nothing, Run!None, Nothing, None
  <1>2. TypeOK /\ IInv /\ [Next]_vars => [Run!Next]_(Run!vars)
    <2> SUFFICES ASSUME TypeOK, IInv, [Next]_vars
                 PROVE  Run!Next \/ UNCHANGED Run!vars
      OBVIOUS
    <2>1. CASE UNCHANGED vars
      BY <2>1 DEF vars, Run!vars, Nothing
    <2> QED
      BY <2>1, TaskRefines, MainRefines DEF Next, Terminated
  <1> QED
    BY <1>1, <1>2, RunTypeOK, RunInvariant, PTL DEF Safety, Run!Safety

-----------------------------------------------------------------------------
(* The verifier on what the harness wrote *)

Written ==
  \A c \in Checks :
    receipt[c] \in Outcomes /\ log[c] \in Contents /\ Size[log[c]] <= MaxBytes

Numbered == 1..Cardinality(Checks)

LEMMA PlanBijective ==
  /\ DOMAIN Plan = Numbered
  /\ Cardinality(Checks) \in Nat
  /\ IsFiniteSet(Numbered) /\ Cardinality(Numbered) = Cardinality(Checks)
  /\ \A k \in Numbered : Plan[k] \in Checks
  /\ \A c \in Checks : \E k \in Numbered : Plan[k] = c
  /\ \A j, k \in Numbered : Plan[j] = Plan[k] => j = k
  <1>1. Cardinality(Checks) \in Nat
    BY PlanAssumption, FS_CardinalityType
  <1>2. IsFiniteSet(Numbered) /\ Cardinality(Numbered) = Cardinality(Checks)
    BY <1>1, FS_Interval DEF Numbered
  <1> QED
    BY <1>1, <1>2, JobAssumption DEF Numbered

LEMMA LeastCheck ==
  ASSUME NEW S \in SUBSET Checks, S # {}
  PROVE  \E x \in S : \A y \in S : x <= y
  <1> DEFINE R == OpToRel(<, Nat)
  <1>1. \A x, y \in Nat : x < y => <<x, y>> \in R
    BY DEF OpToRel
  <1>2. IsWellFoundedOn(R, Nat)
    BY NatLessThanWellFounded
  <1> HIDE DEF R
  <1>3. S \in SUBSET Nat
    BY JobAssumption
  <1>4. PICK x \in S : \A y \in S : ~ (<<y, x>> \in R)
    BY <1>2, <1>3, WFMin, Zenon
  <1>5. \A y \in S : ~ (y < x)
    BY <1>1, <1>3, <1>4, Zenon
  <1> QED
    BY <1>3, <1>5

\* The receipt the harness wrote lists every planned check at its position.
LEMMA WrittenChecks ==
  /\ DOMAIN WrittenReceipt.checks = Numbered
  /\ \A k \in Numbered :
       /\ WrittenReceipt.checks[k].identifier = Plan[k]
       /\ WrittenReceipt.checks[k].path = Plan[k]
       /\ WrittenReceipt.checks[k].digest = log[Plan[k]]
       /\ WrittenReceipt.checks[k].bytes = Size[log[Plan[k]]]
       /\ WrittenReceipt.checks[k].outcome = receipt[Plan[k]]
  /\ WrittenReceipt.form = "supported"
  /\ WrittenReceipt.claims = Agreed
  BY PlanBijective DEF WrittenReceipt

LEMMA SuppliedFiles ==
  /\ DOMAIN SuppliedEvidence = Numbered
  /\ \A k \in Numbered : /\ SuppliedEvidence[k].path = Plan[k]
                         /\ SuppliedEvidence[k].content = log[Plan[k]]
  BY PlanBijective DEF SuppliedEvidence

\* The verifier's module counts as this one does.
LEMMA CountsAlike == \A S : Verifier!Cardinality(S) = Cardinality(S)
  BY DEF Verifier!Cardinality, Cardinality, Verifier!IsFiniteSet, IsFiniteSet

LEMMA WrittenBound ==
  /\ Verifier!ExpectationReason(Agreed) = None
  /\ Verifier!FormReason(WrittenReceipt) = None
  /\ Verifier!BindingReason(WrittenReceipt, Agreed) = None
  <1>1. \A k \in 1..9 : Verifier!FieldOrder[k] \in Verifier!Fields
    BY DEF Verifier!FieldOrder, Verifier!Fields, Verifier!Range
  <1>2. /\ Verifier!FieldOrder[7] = "harness"
        /\ Verifier!FieldOrder[8] = "invocation"
        /\ DOMAIN Verifier!FieldOrder = 1..9
    BY DEF Verifier!FieldOrder
  <1>3. \A f \in Verifier!Fields : Agreed[f] = "agreed"
    BY DEF Agreed
  <1>4. Verifier!ExpectationReason(Agreed) = None
    BY <1>1, <1>2, <1>3 DEF Verifier!ExpectationReason, Verifier!Malformed, Verifier!None, None
  <1>5. Verifier!FormReason(WrittenReceipt) = None
    BY WrittenChecks DEF Verifier!FormReason, Verifier!None, None
  <1>6. Verifier!BindingReason(WrittenReceipt, Agreed) = None
    BY <1>1, <1>2, <1>3, WrittenChecks
    DEF Verifier!BindingReason, Verifier!Malformed, Verifier!None, None
  <1> QED
    BY <1>4, <1>5, <1>6

LEMMA WrittenCovers ==
  /\ \A k \in Numbered :
       Verifier!Entry(WrittenReceipt.checks, Plan[k]) = WrittenReceipt.checks[k]
  /\ Verifier!CoverageReason(WrittenReceipt.checks) = None
  <1> DEFINE s == WrittenReceipt.checks
  <1>1. \A k \in Numbered : Verifier!At(s, Plan[k]) = {k}
    BY WrittenChecks, PlanBijective DEF Verifier!At
  <1>2. \A k \in Numbered : Verifier!Entry(s, Plan[k]) = s[k]
    BY <1>1 DEF Verifier!Entry
  <1>3. Verifier!Reported(s) = Checks
    <2>1. Verifier!Reported(s) = {Plan[k] : k \in Numbered}
      BY WrittenChecks DEF Verifier!Reported
    <2> QED
      BY <2>1, PlanBijective
  <1>4. \A c \in Checks : Cardinality(Verifier!At(s, c)) = 1
    <2> SUFFICES ASSUME NEW c \in Checks PROVE Cardinality(Verifier!At(s, c)) = 1
      OBVIOUS
    <2>1. PICK k \in Numbered : Plan[k] = c
      BY PlanBijective
    <2>2. Verifier!At(s, c) = {k}
      BY <1>1, <2>1
    <2> QED
      BY <2>2, FS_Singleton
  <1> HIDE DEF s
  <1>5. Verifier!CoverageReason(s) = None
    BY <1>3, <1>4, CountsAlike DEF Verifier!CoverageReason, Verifier!None, None
  <1> QED
    BY <1>2, <1>5 DEF s

LEMMA WrittenClaims ==
  ASSUME Written
  PROVE  Verifier!LeastReason(Checks, LAMBDA c :
           Verifier!ClaimReason(Verifier!Entry(WrittenReceipt.checks, c))) = None
  <1> DEFINE bad == {c \in Checks : Verifier!ClaimReason(
                       Verifier!Entry(WrittenReceipt.checks, c)) # Verifier!None}
  <1>1. ASSUME NEW c \in Checks
        PROVE  Verifier!ClaimReason(Verifier!Entry(WrittenReceipt.checks, c))
                 = Verifier!None
    <2>1. PICK k \in Numbered : Plan[k] = c
      BY PlanBijective
    <2>2. Verifier!Entry(WrittenReceipt.checks, c) = WrittenReceipt.checks[k]
      BY <2>1, WrittenCovers
    <2>3. /\ log[c] \in Contents /\ "malformed" \notin Contents
          /\ Size[log[c]] \in Nat /\ MaxBytes \in Nat /\ Size[log[c]] <= MaxBytes
      BY JobAssumption DEF Written
    <2>4. /\ WrittenReceipt.checks[k].path = c
          /\ WrittenReceipt.checks[k].digest = log[c]
          /\ WrittenReceipt.checks[k].bytes = Size[log[c]]
      BY <2>1, WrittenChecks
    <2> QED
      BY <2>2, <2>3, <2>4 DEF Verifier!ClaimReason, Verifier!Malformed, Verifier!None
  <1>2. bad = {}
    BY <1>1
  <1>3. Verifier!LeastReason(Checks, LAMBDA c :
          Verifier!ClaimReason(Verifier!Entry(WrittenReceipt.checks, c)))
          = IF bad = {} THEN Verifier!None
            ELSE Verifier!ClaimReason(
                   Verifier!Entry(WrittenReceipt.checks, Verifier!Min(bad)))
    BY Zenon DEF Verifier!LeastReason
  <1> QED
    BY <1>2, <1>3 DEF Verifier!None, None

LEMMA WrittenSupplied ==
  Verifier!SuppliedReason(SuppliedEvidence) = None
  <1> DEFINE e == SuppliedEvidence
             Unsafe(k) == e[k].path \notin Checks
             Repeats(k) == \E j \in 1..(k - 1) : e[j].path = e[k].path
             bad == {k \in DOMAIN e : Unsafe(k) \/ Repeats(k)}
  <1>1. Verifier!SuppliedReason(e) =
          IF bad = {} THEN Verifier!None
          ELSE IF Unsafe(Verifier!Min(bad)) THEN "RECEIPT_EVIDENCE_PATH_UNSAFE"
          ELSE "RECEIPT_EVIDENCE_DUPLICATE"
    BY Zenon DEF Verifier!SuppliedReason
  <1>2. ASSUME NEW k \in Numbered PROVE ~Unsafe(k) /\ ~Repeats(k)
    <2>1. ~Unsafe(k)
      BY SuppliedFiles, PlanBijective
    <2>2. \A j \in 1..(k - 1) : j \in Numbered /\ j # k
      BY PlanBijective DEF Numbered
    <2>3. \A j \in 1..(k - 1) : e[j].path # e[k].path
      BY <2>2, SuppliedFiles, PlanBijective
    <2> QED
      BY <2>1, <2>3
  <1>3. bad = {}
    BY <1>2, SuppliedFiles
  <1> QED
    BY <1>1, <1>3 DEF Verifier!None, None

LEMMA WrittenMatches ==
  ASSUME Written
  PROVE  Verifier!MatchReason(WrittenReceipt.checks, SuppliedEvidence) = None
  <1> DEFINE s == WrittenReceipt.checks
             e == SuppliedEvidence
             Why(p) == Verifier!ContentReason(Verifier!ClaimOf(s, p),
                                              Verifier!SupplyOf(e, p))
             bad == {p \in Verifier!ClaimedPaths(s) : Why(p) # Verifier!None}
  <1>1. Verifier!ClaimedPaths(s) = {Plan[k] : k \in Numbered}
    BY WrittenChecks DEF Verifier!ClaimedPaths
  <1>2. Verifier!SuppliedPaths(e) = {Plan[k] : k \in Numbered}
    BY SuppliedFiles DEF Verifier!SuppliedPaths
  <1>3. ASSUME NEW k \in Numbered PROVE Why(Plan[k]) = Verifier!None
    <2>1. Verifier!ClaimOf(s, Plan[k]) = s[k]
      BY WrittenChecks, PlanBijective DEF Verifier!ClaimOf
    <2>2. Verifier!SupplyOf(e, Plan[k]) = log[Plan[k]]
      BY SuppliedFiles, PlanBijective DEF Verifier!SupplyOf
    <2>3. s[k].bytes = Size[log[Plan[k]]] /\ s[k].digest = log[Plan[k]]
      BY WrittenChecks
    <2>4. /\ Plan[k] \in Checks /\ log[Plan[k]] \in Contents
          /\ Size[log[Plan[k]]] \in Nat /\ MaxBytes \in Nat
          /\ Size[log[Plan[k]]] <= MaxBytes
      BY PlanBijective, JobAssumption DEF Written
    <2> HIDE DEF s, e
    <2> QED
      BY <2>1, <2>2, <2>3, <2>4 DEF Verifier!ContentReason, Verifier!None
  <1>4. Verifier!MatchReason(s, e) =
          IF ~(Verifier!SuppliedPaths(e) \subseteq Verifier!ClaimedPaths(s))
          THEN "RECEIPT_EVIDENCE_EXTRA"
          ELSE IF ~(Verifier!ClaimedPaths(s) \subseteq Verifier!SuppliedPaths(e))
          THEN "RECEIPT_EVIDENCE_MISSING"
          ELSE IF bad = {} THEN Verifier!None ELSE Why(Verifier!Min(bad))
    BY Zenon DEF Verifier!MatchReason, Verifier!LeastReason
  <1> HIDE DEF Why
  <1>5. bad = {}
    BY <1>1, <1>3
  <1> QED
    BY <1>1, <1>2, <1>4, <1>5 DEF Verifier!None, None

LEMMA WrittenEvidence ==
  ASSUME Written
  PROVE  Verifier!EvidenceReason(WrittenReceipt.checks, SuppliedEvidence) = None
  <1> DEFINE s == WrittenReceipt.checks
  <1>1. Verifier!ClaimedPaths(s) = Checks
    <2>1. Verifier!ClaimedPaths(s) = {Plan[k] : k \in Numbered}
      BY WrittenChecks DEF Verifier!ClaimedPaths
    <2> QED
      BY <2>1, PlanBijective
  <1>2. Cardinality(Verifier!ClaimedPaths(s)) = Cardinality(DOMAIN s)
    BY <1>1, WrittenChecks, PlanBijective
  <1> HIDE DEF s
  <1>3. Verifier!EvidenceReason(s, SuppliedEvidence) =
          IF Verifier!SuppliedReason(SuppliedEvidence) # Verifier!None
          THEN Verifier!SuppliedReason(SuppliedEvidence)
          ELSE Verifier!MatchReason(s, SuppliedEvidence)
    BY <1>2, CountsAlike DEF Verifier!EvidenceReason, Verifier!OrElse
  <1> QED
    BY <1>3, WrittenSupplied, WrittenMatches DEF s, Verifier!None, None

\* The verifier accepts what the harness wrote, and its verdict is the one of
\* the recorded outcomes.
LEMMA WrittenDecision ==
  ASSUME Written
  PROVE  LET decision == Verifier!Decision(TRUE, Agreed, WrittenReceipt,
                                           SuppliedEvidence)
         IN  \/ /\ decision = Verifier!Pass
                /\ \A c \in Checks : receipt[c] = "exit_zero"
             \/ /\ decision.outcome = "VERIFIED_FAIL"
                /\ \E c \in Checks : receipt[c] \in {"exit_nonzero", "timed_out"}
  <1> DEFINE s == WrittenReceipt.checks
             reject == Verifier!RejectReason(Agreed, WrittenReceipt, SuppliedEvidence)
             Why(c) == CASE Verifier!Entry(s, c).outcome = "timed_out" ->
                              "RECEIPT_CHECK_TIMED_OUT"
                         [] Verifier!Entry(s, c).outcome = "exit_nonzero" ->
                              "RECEIPT_CHECK_EXIT_NONZERO"
                         [] OTHER -> Verifier!None
             bad == {c \in Checks : Why(c) # Verifier!None}
  <1>1. reject = Verifier!None
    BY WrittenBound, WrittenCovers, WrittenClaims, WrittenEvidence, Zenon
    DEF Verifier!RejectReason, Verifier!OrElse, Verifier!None, None
  <1>2. Verifier!OutcomeReason(s) =
          IF bad = {} THEN Verifier!None ELSE Why(Verifier!Min(bad))
    BY Zenon DEF Verifier!OutcomeReason, Verifier!LeastReason
  <1>3. ASSUME NEW c \in Checks
        PROVE  /\ receipt[c] \in Outcomes
               /\ Why(c) = Verifier!None <=> receipt[c] = "exit_zero"
    <2>1. PICK k \in Numbered : Plan[k] = c
      BY PlanBijective
    <2>2. Verifier!Entry(s, c).outcome = receipt[c]
      BY <2>1, WrittenCovers, WrittenChecks
    <2>3. receipt[c] \in Outcomes
      BY DEF Written
    <2> QED
      BY <2>2, <2>3 DEF Outcomes, Verifier!None
  <1> HIDE DEF Why
  <1>4. ASSUME bad # {} PROVE Why(Verifier!Min(bad)) # Verifier!None
    <2>1. bad \in SUBSET Checks
      OBVIOUS
    <2>2. PICK x \in bad : \A y \in bad : x <= y
      BY <1>4, <2>1, LeastCheck, Zenon
    <2>3. Verifier!Min(bad) \in bad
      BY <2>2, Zenon DEF Verifier!Min
    <2> QED
      BY <2>3
  <1>5. Verifier!Decision(TRUE, Agreed, WrittenReceipt, SuppliedEvidence) =
          IF Verifier!OutcomeReason(s) # Verifier!None
          THEN Verifier!Fail(Verifier!OutcomeReason(s)) ELSE Verifier!Pass
    BY <1>1 DEF Verifier!Decision
  <1>6. CASE bad = {}
    BY <1>2, <1>3, <1>5, <1>6
  <1>7. CASE bad # {}
    <2>1. Verifier!OutcomeReason(s) # Verifier!None
      BY <1>2, <1>4, <1>7
    <2>2. PICK c \in Checks : receipt[c] # "exit_zero"
      BY <1>3, <1>7
    <2>3. receipt[c] \in {"exit_nonzero", "timed_out"}
      BY <1>3, <2>2 DEF Outcomes
    <2>4. Verifier!Decision(TRUE, Agreed, WrittenReceipt, SuppliedEvidence)
            = Verifier!Fail(Verifier!OutcomeReason(s))
      BY <1>5, <2>1, Zenon
    <2>5. Verifier!Fail(Verifier!OutcomeReason(s)).outcome = "VERIFIED_FAIL"
      BY DEF Verifier!Fail
    <2> QED
      BY <2>3, <2>4, <2>5, Zenon
  <1> QED
    BY <1>6, <1>7

-----------------------------------------------------------------------------
(* The job *)

\* The job does nothing to a harness run but let it run.
LEMMA JobStepRuns == [JobNext]_allVars => [Next]_vars
  <1>1. RunHarness => Next
    BY DEF RunHarness, Next
  <1>2. RunPlan \/ HarnessExits \/ RunVerify \/ Summarize \/ Interrupted \/ ShellExits
          \/ JobDone => UNCHANGED vars
    BY DEF RunPlan, HarnessExits, RunVerify, Summarize, Interrupted, ShellExits,
           StopJob, JobDone, allVars
  <1>3. UNCHANGED allVars => UNCHANGED vars
    BY DEF allVars
  <1> QED
    BY <1>1, <1>2, <1>3 DEF JobNext

\* A job runs one harness as HarnessRun specifies it: everything proved about a
\* harness run holds in the job.
THEOREM JobRunsHarness == JobSafety => Safety
  <1>1. JobInit => Init
    BY DEF JobInit
  <1> QED
    BY <1>1, JobStepRuns, PTL DEF JobSafety, Safety

Stages == {"plan", "harness", "verify"}

\* The bytes of an evidence file are there once the check's outcome is.
EvidenceKept ==
  /\ log \in [Checks -> Contents \cup {None}]
  /\ \A c \in Checks : outcome[c] # None =>
       log[c] \in Contents /\ Size[log[c]] <= MaxBytes

\* A stage has its exit status once the job is past it, and what the verifier
\* reported is about the outcomes of this run.
StagesInOrder ==
  /\ DOMAIN exits = Stages
  /\ job \in {"plan", "harness"} =>
       exits["harness"] = NotRun /\ exits["verify"] = NotRun
  /\ job = "verify" => exits["harness"] = "0" /\ exits["verify"] = NotRun
  /\ exits["harness"] = "0" => status = "0"
  /\ exits["verify"] # NotRun => exits["harness"] = "0"
  /\ exits["verify"] = "0" =>
       verify = Verifier!Pass /\ \A c \in Checks : outcome[c] = "exit_zero"
  /\ exits["verify"] = "1" =>
       /\ verify.outcome = "VERIFIED_FAIL"
       /\ \E c \in Checks : outcome[c] \in {"exit_nonzero", "timed_out"}
  /\ shadow # None => job = "done"
  /\ shadow = "PARITY_EVIDENCE" => \A stage \in Stages : exits[stage] = "0"

\* The inductive invariant of a job.
JobInv == EvidenceKept /\ StagesInOrder

LEMMA JobStarts == JobInit => JobInv
  BY DEF JobInit, Init, JobInv, EvidenceKept, StagesInOrder, Stages, Nothing,
         NotRun, None

LEMMA OneOutcome ==
  ASSUME TypeOK, NEW c \in Checks, TaskStep(c) \/ Exit(c)
  PROVE  \A d \in Checks : d # c => outcome'[d] = outcome[d]
  BY DEF TypeOK, TaskStep, Exit, AwaitDependencies, AcquireSlot, StartFault,
         Launch, Ready, LaunchFault, Finish, TimeOut, Overflow, Reap,
         CancelIdle, CancelLaunching, CancelRunning, RecordEvidence

LEMMA MainLeavesOutcomes ==
  ASSUME MainStep \/ Sigint PROVE outcome' = outcome
  BY DEF MainStep, Sigint, PrepareRuntime, PrepareFault, LoadPlan, Preflight,
         GatherReturns, GatherRaises, Drained, WriteReceipt, Return, CloseLoop,
         WriteFault, SigintOutside, SigintFirst, SigintSecond, taskVars

LEMMA HarnessKeepsJob ==
  ASSUME TypeOK, JobInv, RunHarness PROVE JobInv'
  <1>1. EvidenceKept'
    <2>1. CASE outcome' = outcome /\ UNCHANGED log
      BY <2>1 DEF JobInv, EvidenceKept
    <2>2. CASE \E c \in Checks, content \in Contents :
                 /\ outcome'[c] # outcome[c]
                 /\ Size[content] <= MaxBytes
                 /\ log' = [log EXCEPT ![c] = content]
      <3>1. PICK c \in Checks, content \in Contents :
                 /\ outcome'[c] # outcome[c]
                 /\ Size[content] <= MaxBytes
                 /\ log' = [log EXCEPT ![c] = content]
        BY <2>2
      <3>2. \A d \in Checks : d # c => outcome'[d] = outcome[d]
        <4>1. PICK x \in Checks : TaskStep(x) \/ Exit(x)
          BY <3>1, MainLeavesOutcomes DEF RunHarness
        <4>2. x = c
          BY <3>1, <4>1, OneOutcome
        <4> QED
          BY <4>1, <4>2, OneOutcome
      <3> QED
        BY <3>1, <3>2 DEF JobInv, EvidenceKept
    <2> QED
      BY <2>1, <2>2 DEF RunHarness
  <1>2. StagesInOrder'
    BY DEF RunHarness, jobVars, JobInv, StagesInOrder, NotRun
  <1> QED
    BY <1>1, <1>2 DEF JobInv

LEMMA VerifyKeepsJob ==
  ASSUME JobInv, AttestedExactly, TypeOK, RunVerify PROVE JobInv'
  <1>1. exits["harness"] = "0" /\ status = "0" /\ exits["verify"] = NotRun
    BY DEF RunVerify, JobInv, StagesInOrder
  <1>2. receipt = outcome /\ \A c \in Checks : outcome[c] # None
    BY <1>1 DEF AttestedExactly
  <1>3. Written
    BY <1>2 DEF Written, JobInv, EvidenceKept, TypeOK
  <1>4. EvidenceKept'
    BY DEF RunVerify, vars, JobInv, EvidenceKept
  <1>5. shadow = None /\ shadow' = shadow /\ job' = "summary"
        /\ status' = status /\ outcome' = outcome
    BY DEF RunVerify, vars, JobInv, StagesInOrder
  <1>6. CASE /\ verify' = Verifier!Decision(TRUE, Agreed, WrittenReceipt,
                                            SuppliedEvidence)
             /\ exits' = [exits EXCEPT !["verify"] =
                  IF verify'.outcome = "VERIFIED_PASS" THEN "0" ELSE "1"]
    <2>1. CASE verify' = Verifier!Pass /\ \A c \in Checks : receipt[c] = "exit_zero"
      <3>1. verify'.outcome = "VERIFIED_PASS"
        BY <2>1, Zenon DEF Verifier!Pass
      <3>2. exits' = [exits EXCEPT !["verify"] = "0"]
        BY <1>6, <3>1
      <3> QED
        BY <1>1, <1>2, <1>4, <1>5, <2>1, <3>2
        DEF JobInv, StagesInOrder, Stages, NotRun, None
    <2>2. CASE /\ verify'.outcome = "VERIFIED_FAIL"
               /\ \E c \in Checks : receipt[c] \in {"exit_nonzero", "timed_out"}
      <3>1. exits' = [exits EXCEPT !["verify"] = "1"]
        BY <1>6, <2>2
      <3> QED
        BY <1>1, <1>2, <1>4, <1>5, <2>2, <3>1
        DEF JobInv, StagesInOrder, Stages, NotRun, None
    <2> QED
      BY <1>3, <1>6, <2>1, <2>2, WrittenDecision
  <1>7. CASE exits' = [exits EXCEPT !["verify"] = "70"] /\ UNCHANGED verify
    BY <1>1, <1>4, <1>5, <1>7 DEF JobInv, StagesInOrder, Stages, NotRun, None
  <1> QED
    BY <1>6, <1>7 DEF RunVerify

LEMMA JobStepKeeps ==
  ASSUME TypeOK, AttestedExactly, JobInv, [JobNext]_allVars PROVE JobInv'
  <1>1. CASE RunPlan
    BY <1>1 DEF RunPlan, vars, JobInv, EvidenceKept, StagesInOrder, Stages, NotRun
  <1>2. CASE RunHarness
    BY <1>2, HarnessKeepsJob
  <1>3. CASE HarnessExits
    <2>1. EvidenceKept'
      BY <1>3 DEF HarnessExits, vars, JobInv, EvidenceKept
    <2>2. StagesInOrder'
      BY <1>3 DEF HarnessExits, vars, JobInv, StagesInOrder, Stages, NotRun
    <2> QED
      BY <2>1, <2>2 DEF JobInv
  <1>4. CASE RunVerify
    BY <1>4, VerifyKeepsJob
  <1>5. CASE Summarize
    <2>1. EvidenceKept'
      BY <1>5 DEF Summarize, vars, JobInv, EvidenceKept
    <2>2. shadow' = "PARITY_EVIDENCE" => \A stage \in Stages : exits[stage] = "0"
      BY <1>5 DEF Summarize, Classification, JobInv, StagesInOrder
    <2>3. StagesInOrder'
      BY <1>5, <2>2 DEF Summarize, vars, JobInv, StagesInOrder
    <2> QED
      BY <2>1, <2>3 DEF JobInv
  <1>6. CASE Interrupted \/ ShellExits
    <2>1. /\ job' = "stopped" /\ job # "done"
          /\ UNCHANGED <<vars, log, exits, verify, shadow>>
      BY <1>6 DEF Interrupted, ShellExits, StopJob
    <2> QED
      BY <2>1 DEF vars, JobInv, EvidenceKept, StagesInOrder
  <1>7. CASE UNCHANGED allVars
    BY <1>7 DEF allVars, jobVars, vars, JobInv, EvidenceKept, StagesInOrder
  <1> QED
    BY <1>1, <1>2, <1>3, <1>4, <1>5, <1>6, <1>7 DEF JobNext, JobDone

\* The inductive invariant of a job: the evidence is kept, every exit status is
\* the one of its stage, and the verifier's report is about this run.
THEOREM JobInvariance == JobSafety => []JobInv
  <1>1. JobSafety => []TypeOK /\ []AttestedExactly
    BY JobRunsHarness, RunTypeOK, ExitZeroAttests, PTL
  <1>2. JobInit => JobInv
    BY JobStarts
  <1>3. TypeOK /\ AttestedExactly /\ JobInv /\ [JobNext]_allVars => JobInv'
    BY JobStepKeeps
  <1> QED
    BY <1>1, <1>2, <1>3, PTL DEF JobSafety

\* PARITY_EVIDENCE is only ever given to a run whose checks all exited with
\* zero, with their evidence kept, no fault left and no process group remaining.
THEOREM ParityIsGenuine == JobSafety => []ParityGenuine
  <1>1. TypeOK /\ AttestedExactly /\ JobInv => ParityGenuine
    <2> SUFFICES ASSUME TypeOK, AttestedExactly, JobInv, shadow = "PARITY_EVIDENCE"
                 PROVE  /\ \A c \in Checks : /\ outcome[c] = "exit_zero"
                                             /\ log[c] # None
                                             /\ group[c] = "dead"
                        /\ fault = NoReport
      BY DEF ParityGenuine
    <2>1. exits["harness"] = "0" /\ exits["verify"] = "0"
      BY DEF JobInv, StagesInOrder, Stages
    <2>2. status = "0" /\ \A c \in Checks : outcome[c] = "exit_zero"
      BY <2>1 DEF JobInv, StagesInOrder
    <2>3. \A c \in Checks : log[c] \in Contents
      BY <2>2 DEF JobInv, EvidenceKept, None
    <2>4. None \notin Contents
      BY JobAssumption DEF None
    <2> QED
      BY <2>2, <2>3, <2>4 DEF AttestedExactly
  <1> QED
    BY <1>1, JobRunsHarness, RunTypeOK, ExitZeroAttests, JobInvariance, PTL

\* The verifier never rejects what the harness attested: it passes it, or fails
\* it because a check of this run failed.
THEOREM AttestationIsDecided == JobSafety => []AttestationDecided
  <1>1. JobInv => AttestationDecided
    BY DEF JobInv, StagesInOrder, AttestationDecided
  <1> QED
    BY <1>1, JobInvariance, PTL
=============================================================================
