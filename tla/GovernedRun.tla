---------------------------- MODULE GovernedRun ----------------------------
(***************************************************************************)
(* One cross-runner job (.github/workflows/governor-shadow.yml): Plan, then*)
(* the bounded harness, then Verify of what the harness left, then the     *)
(* classification of the three exit statuses.  The harness is HarnessRun,  *)
(* the verifier ReceiptVerification; the job couples their files and exit  *)
(* statuses.                                                               *)
(***************************************************************************)
EXTENDS HarnessRun, Sequences

CONSTANTS
  Plan,     \* the planned checks in plan order
  Contents, \* bytes a check may print
  Size,     \* [Contents -> Nat]
  MaxBytes  \* MAX_OUTPUT of the harness, MAX_CHECK_OUTPUT_BYTES of the verifier

\* A check is numbered, and its evidence file has the number of the check: the
\* identifiers of the recipe catalog are portable file names.
ASSUME JobAssumption ==
  /\ Checks \subseteq Nat
  /\ Plan \in [1..Cardinality(Checks) -> Checks]
  /\ \A c \in Checks : \E k \in DOMAIN Plan : Plan[k] = c
  /\ \A j, k \in DOMAIN Plan : Plan[j] = Plan[k] => j = k
  /\ Size \in [Contents -> Nat]
  /\ {"none", "malformed"} \cap Contents = {}
  /\ MaxBytes \in Nat

Verifier == INSTANCE ReceiptVerification WITH
  Planned <- Checks, SafePaths <- Checks

NotRun == "-1"

VARIABLES
  job,    \* the step of the job, "stopped" if it ends without a classification
  log,    \* evidence file of every check: its bytes, None before
  exits,  \* exit statuses of the three stages
  verify, \* the verifier's report
  shadow  \* the job's classification, None before

jobVars == <<job, exits, verify, shadow>>
allVars == <<vars, log, jobVars>>

JobInit ==
  /\ Init
  /\ job = "plan"
  /\ log = Nothing
  /\ exits = [stage \in {"plan", "harness", "verify"} |-> NotRun]
  /\ verify = Verifier!Reject(None)
  /\ shadow = None

\* Plan reports a plan, a rejection, or (dispatcher) an infrastructure fault.
RunPlan ==
  /\ job = "plan"
  /\ \E code \in {"0", "1", "70"} :
       /\ exits' = [exits EXCEPT !["plan"] = code]
       /\ job' = IF code = "0" THEN "harness" ELSE "summary"
  /\ UNCHANGED <<vars, log, verify, shadow>>

\* The harness runs; a check that completes leaves its captured output, which
\* drain() bounded.
RunHarness ==
  /\ job = "harness"
  /\ \/ \E c \in Checks : TaskStep(c) \/ Exit(c)
     \/ MainStep
     \/ Sigint
  /\ \/ outcome' = outcome /\ UNCHANGED log
     \/ \E c \in Checks, content \in Contents :
          /\ outcome'[c] # outcome[c]
          /\ Size[content] <= MaxBytes
          /\ log' = [log EXCEPT ![c] = content]
  /\ UNCHANGED jobVars

HarnessExits ==
  /\ job = "harness"
  /\ main = "ended"
  /\ exits' = [exits EXCEPT !["harness"] = status]
  /\ job' = IF status = "0" THEN "verify" ELSE "summary"
  /\ UNCHANGED <<vars, log, verify, shadow>>

\* What the harness and the job agree on: the bindings of the plan report, its
\* digest, the harness file, the invocation and the coverage.
Agreed == [f \in Verifier!Fields |-> "agreed"]

\* Mutant of WrittenReceipt: a check that timed out is reported as exited.
WrittenReceipt_Timeouts ==
  [form |-> "supported", claims |-> Agreed,
   checks |-> [k \in DOMAIN Plan |->
     [identifier |-> Plan[k], path |-> Plan[k], digest |-> log[Plan[k]],
      bytes |-> Size[log[Plan[k]]],
      outcome |-> IF receipt[Plan[k]] = "timed_out" THEN "exit_zero"
                  ELSE receipt[Plan[k]]]]]

\* The aggregate receipt execute() wrote.
WrittenReceipt ==
  [form |-> "supported", claims |-> Agreed,
   checks |-> [k \in DOMAIN Plan |->
     [identifier |-> Plan[k], path |-> Plan[k], digest |-> log[Plan[k]],
      bytes |-> Size[log[Plan[k]]], outcome |-> receipt[Plan[k]]]]]

\* Mutant of SuppliedEvidence: the last check's evidence is not passed on.
SuppliedEvidence_NotLast ==
  [k \in 1..(Len(Plan) - 1) |-> [path |-> Plan[k], content |-> log[Plan[k]]]]

\* --evidence NAME.log for every check of the plan, read below --evidence-root.
SuppliedEvidence ==
  [k \in DOMAIN Plan |-> [path |-> Plan[k], content |-> log[Plan[k]]]]

\* The dispatcher runs the verifier, or reports an infrastructure fault.
RunVerify ==
  /\ job = "verify"
  /\ \/ /\ verify' = Verifier!Decision(TRUE, Agreed, WrittenReceipt,
                                       SuppliedEvidence)
        /\ exits' = [exits EXCEPT !["verify"] =
             IF verify'.outcome = "VERIFIED_PASS" THEN "0" ELSE "1"]
     \/ exits' = [exits EXCEPT !["verify"] = "70"] /\ UNCHANGED verify
  /\ job' = "summary"
  /\ UNCHANGED <<vars, log, shadow>>

\* Mutant of Classification: a stage that did not run is no objection.
Classification_NotRun ==
  IF \A stage \in DOMAIN exits : exits[stage] \in {"0", NotRun}
  THEN "PARITY_EVIDENCE"
  ELSE IF \E stage \in DOMAIN exits : exits[stage] = "70"
  THEN "SHADOW_INCONCLUSIVE"
  ELSE "SHADOW_REGRESSION"

\* The state of shadow.json.
Classification ==
  IF \A stage \in DOMAIN exits : exits[stage] = "0" THEN "PARITY_EVIDENCE"
  ELSE IF \E stage \in DOMAIN exits : exits[stage] = "70"
  THEN "SHADOW_INCONCLUSIVE"
  ELSE IF \E stage \in DOMAIN exits : exits[stage] \notin {"0", NotRun}
  THEN "SHADOW_REGRESSION"
  ELSE "SHADOW_INCONCLUSIVE"

Summarize ==
  /\ job = "summary"
  /\ shadow' = Classification
  /\ job' = "done"
  /\ UNCHANGED <<vars, log, exits, verify>>

StopJob ==
  /\ job' = "stopped"
  /\ UNCHANGED <<vars, log, exits, verify, shadow>>

\* The job's time limit of 30 minutes, less than a check may take, a newer job of
\* its concurrency group or a lost runner ends it at any step.
Interrupted == job \notin {"done", "stopped"} /\ StopJob

\* `set -e`: the digest cannot be read from the plan, Bubblewrap is not where it
\* must be, or an evidence file cannot be read for shadow.json.
ShellExits ==
  /\ \/ job = "harness" /\ main = "preparing"
     \/ job = "summary"
  /\ StopJob

JobDone == job \in {"done", "stopped"} /\ UNCHANGED allVars

JobNext ==
  \/ RunPlan \/ RunHarness \/ HarnessExits \/ RunVerify \/ Summarize
  \/ Interrupted \/ ShellExits \/ JobDone

JobSafety == JobInit /\ [][JobNext]_allVars

\* Plan, Verify and the classification have no limit of their own: they return
\* or the job's time limit ends them.  The harness schedules its own steps fairly
\* and may take longer than the job, whose limit is not relied on there.
JobSpec ==
  /\ JobSafety
  /\ WF_allVars(job # "harness" /\
                  (RunPlan \/ RunVerify \/ Summarize \/ Interrupted))
  /\ WF_allVars(HarnessExits)
  /\ WF_allVars(RunHarness /\ MainStep)
  /\ \A c \in Checks : WF_allVars(RunHarness /\ TaskStep(c))

-----------------------------------------------------------------------------
(* Properties *)

\* PARITY_EVIDENCE means that in this very run every planned check exited with
\* zero, its evidence was kept, no fault was left and no process group remains.
ParityGenuine ==
  shadow = "PARITY_EVIDENCE" =>
    /\ \A c \in Checks :
         outcome[c] = "exit_zero" /\ log[c] # None /\ group[c] = "dead"
    /\ fault = NoReport

\* What the harness attests the verifier decides: an untouched receipt is never
\* rejected, it passes or names a check that really failed.
AttestationDecided ==
  exits["verify"] \in {"0", "1"} =>
    \/ verify = Verifier!Pass
    \/ /\ verify.outcome = "VERIFIED_FAIL"
       /\ \E c \in Checks : outcome[c] \in {"exit_nonzero", "timed_out"}

\* Whatever the candidate does, the harness ends by itself and the job goes on to
\* its classification; only what ends it from outside, or its own shell giving
\* up, leaves it without one.
JobEnds == <>(shadow # None \/ job = "stopped")
=============================================================================
