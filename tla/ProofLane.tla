----------------------------- MODULE ProofLane -----------------------------
(***************************************************************************)
(* .github/workflows/proof-slow.yml on pull requests: which runs GitHub    *)
(* lets run (one concurrency group per pull request), what the select job  *)
(* decides, and what the required check `governor / validate` concludes.   *)
(* An edit of the title or the body alone (metadata) inherits the success  *)
(* of an earlier run on the same head, or falls back to the full proof.    *)
(***************************************************************************)
EXTENDS Naturals, Sequences, FiniteSets

CONSTANTS
  Pulls, Heads, Bases,
  Main,        \* the base pull requests are opened against
  Relevant,    \* <<base, head>> pairs that differ in more than documentation
  PageSize,    \* runs the readback can take in: 100 in the code
  MaxEvents    \* bound on the events that trigger a run

ASSUME LaneAssumption ==
  /\ Main \in Bases
  /\ Relevant \subseteq Bases \X Heads
  /\ PageSize \in Nat \ {0} /\ MaxEvents \in Nat

VARIABLES
  head, base,  \* of every pull request; no head before it is opened
  runs,        \* the workflow's runs, in the order of their events
  disturbed    \* history: a readback failed or lagged, or a job was lost

vars == <<head, base, runs, disturbed>>

None == "none"
Unset == "" \* an output nobody has written
Active == {"running", "cancelling"}
Claims == {"full-nix", "none", "preserved-head"}

Init ==
  /\ head = [p \in Pulls |-> None] /\ base = [p \in Pulls |-> Main]
  /\ runs = <<>> /\ disturbed = FALSE

-----------------------------------------------------------------------------
(* Events and the concurrency group *)

NewRun(p, h, b, action) ==
  [pull |-> p, head |-> h, base |-> b, action |-> action, state |-> "pending",
   at |-> "select", preserved |-> Unset, required |-> FALSE,
   select |-> "none", nix |-> "skipped", verdict |-> Unset]

\* A cancelled run loses the job it is in; `required` is if: always().
Interrupt(run) ==
  CASE run.at = "select" ->
         [run EXCEPT !.state = "cancelling", !.at = "required",
                     !.select = "cancelled"]
    [] run.at = "nix" ->
         [run EXCEPT !.state = "cancelling", !.at = "required",
                     !.nix = "cancelled"]
    [] OTHER -> [run EXCEPT !.state = "cancelling"]

\* A new run takes the place of the one that waits in its group, and cancels
\* the one that runs unless it is a metadata edit.
Superseded(run, new) ==
  IF run.pull # new.pull THEN run
  ELSE IF run.state = "pending" THEN [run EXCEPT !.state = "cancelled"]
  ELSE IF run.state = "running" /\ new.action # "metadata" THEN Interrupt(run)
  ELSE run

Trigger(new) ==
  /\ Len(runs) < MaxEvents
  /\ runs' = Append([i \in DOMAIN runs |-> Superseded(runs[i], new)], new)
  /\ UNCHANGED disturbed

\* Opened, reopened, or commits are pushed.
Code(p, h) ==
  /\ head' = [head EXCEPT ![p] = h]
  /\ Trigger(NewRun(p, h, base[p], "code"))
  /\ UNCHANGED base

\* Edited with changes.base.
Retarget(p, b) ==
  /\ head[p] # None /\ b # base[p]
  /\ base' = [base EXCEPT ![p] = b]
  /\ Trigger(NewRun(p, head[p], b, "base"))
  /\ UNCHANGED head

EditMetadata(p) ==
  /\ head[p] # None
  /\ Trigger(NewRun(p, head[p], base[p], "metadata"))
  /\ UNCHANGED <<head, base>>

Event ==
  \E p \in Pulls :
    \/ \E h \in Heads : Code(p, h)
    \/ \E b \in Bases : Retarget(p, b)
    \/ EditMetadata(p)

-----------------------------------------------------------------------------
(* One run *)

Becomes(i, run) == runs' = [runs EXCEPT ![i] = run] /\ UNCHANGED <<head, base>>
Runs(i, at) == i \in DOMAIN runs /\ runs[i].state \in Active /\ runs[i].at = at

\* Mutant of Busy: the group is keyed too finely, so nothing waits.
Busy_Never(i) == FALSE

Busy(i) ==
  \E j \in DOMAIN runs : runs[j].pull = runs[i].pull /\ runs[j].state \in Active

Start(i) ==
  /\ i \in DOMAIN runs /\ runs[i].state = "pending" /\ ~Busy(i)
  /\ Becomes(i, [runs[i] EXCEPT !.state = "running"])
  /\ UNCHANGED disturbed

\* Mutant of Prior: the head is not asked for.
Prior_AnyHead(h) == {i \in DOMAIN runs : runs[i].state = "success"}

\* The successful runs on a head: of every pull request and every base.
Prior(h) == {i \in DOMAIN runs : runs[i].state = "success" /\ runs[i].head = h}

SelectFails(i) ==
  Becomes(i, [runs[i] EXCEPT !.at = "required", !.select = "failure"])

\* The diff of the head against the base decides, unless a success is
\* preserved; then the nix job is skipped.
SelectPaths(i, preserved) ==
  Becomes(i, [runs[i] EXCEPT
    !.preserved = preserved, !.select = "success",
    !.required = /\ preserved # "true"
                 /\ <<runs[i].base, runs[i].head>> \in Relevant,
    !.at = IF preserved = "true" THEN "required" ELSE "nix"])

\* A metadata edit reads the successes of its head first.  More than a page of
\* them is a contradiction, as is much else (TimeOut); GitHub's index of the
\* runs may lag behind.
Reconcile(i) ==
  \E unseen \in SUBSET Prior(runs[i].head) :
    /\ disturbed' = (disturbed \/ unseen # {})
    /\ LET prior == Cardinality(Prior(runs[i].head) \ unseen) IN
       IF prior > PageSize THEN SelectFails(i)
       ELSE SelectPaths(i, IF prior = 0 THEN "false" ELSE "true")

Select(i) ==
  /\ Runs(i, "select")
  /\ \/ runs[i].action = "metadata" /\ Reconcile(i)
     \/ /\ runs[i].action # "metadata" /\ SelectPaths(i, Unset)
        /\ UNCHANGED disturbed

\* The nix job: repository controls always, the locked proof if required.
NixEnds(i, result) ==
  Becomes(i, [runs[i] EXCEPT !.at = "required", !.nix = result])

Nix(i) ==
  /\ Runs(i, "nix")
  /\ NixEnds(i, "success") \/ NixEnds(i, "failure")
  /\ UNCHANGED disturbed

\* Mutant of Verdict: an irrelevant change passes whatever the nix job said.
Verdict_Irrelevant(run) ==
  IF run.select # "success" THEN "inconclusive"
  ELSE IF run.preserved = "true" THEN "preserved-head"
  ELSE IF ~run.required THEN "none"
  ELSE IF run.nix = "success" THEN "full-nix" ELSE "closed"

\* governor / validate: its claim if it passes.
Verdict(run) ==
  IF run.select # "success" THEN "inconclusive"
  ELSE IF run.action = "metadata" /\ run.preserved = "true" THEN "preserved-head"
  ELSE IF run.action = "metadata" /\ run.preserved = Unset THEN "inconclusive"
  ELSE IF run.nix # "success" THEN "closed"
  ELSE IF run.required THEN "full-nix" ELSE "none"

\* GitHub's conclusion; a cancelled run whose last job passed may get either.
Conclude(i, verdict) ==
  \E state \in {"success", "failure", "cancelled"} :
    /\ state = "success" => verdict \in Claims
    /\ state = "failure" => verdict \notin Claims /\ runs[i].state = "running"
    /\ state = "cancelled" => runs[i].state = "cancelling"
    /\ Becomes(i, [runs[i] EXCEPT !.state = state, !.at = "done", !.verdict = verdict])

Required(i) ==
  /\ Runs(i, "required")
  /\ Conclude(i, Verdict(runs[i]))
  /\ UNCHANGED disturbed

\* Mutant of TimeOut: the proof may take as long as it likes.
TimeOut_NotNix(i) ==
  \/ Runs(i, "select") /\ SelectFails(i) /\ disturbed' = TRUE
  \/ Runs(i, "required") /\ Conclude(i, "lost") /\ disturbed' = TRUE

\* timeout-minutes of each job; a lost runner, a failed checkout and a readback
\* that fails twice or contradicts itself end the same way.
TimeOut(i) ==
  \/ Runs(i, "select") /\ SelectFails(i) /\ disturbed' = TRUE
  \/ Runs(i, "nix") /\ NixEnds(i, "failure") /\ UNCHANGED disturbed
  \/ Runs(i, "required") /\ Conclude(i, "lost") /\ disturbed' = TRUE

RunStep(i) ==
  Start(i) \/ Select(i) \/ Nix(i) \/ Required(i) \/ TimeOut(i)

Quiet == \A i \in DOMAIN runs : runs[i].state \in {"success", "failure", "cancelled"}

Done == Quiet /\ Len(runs) = MaxEvents /\ UNCHANGED vars

Next == Event \/ (\E i \in DOMAIN runs : RunStep(i)) \/ Done

\* GitHub starts what waits and ends what exceeds its time.
Fairness == \A i \in 1..MaxEvents : WF_vars(Start(i)) /\ WF_vars(TimeOut(i))

Safety == Init /\ [][Next]_vars
Spec == Safety /\ Fairness

-----------------------------------------------------------------------------
(* Properties *)

Passes(i) == runs[i].verdict \in Claims
NixSucceeded(h, required) ==
  \E j \in DOMAIN runs : /\ runs[j].head = h /\ runs[j].nix = "success"
                         /\ required => runs[j].required

\* Whatever is cancelled, replaced, lost or inherited: a head for which
\* governor / validate passes has passed the repository controls.
ControlsPassed == \A i \in DOMAIN runs : Passes(i) => NixSucceeded(runs[i].head, FALSE)

\* A change of more than documentation passes only if the locked Nix proof of
\* its head has succeeded, by itself or by an earlier run.
RelevantProved ==
  \A i \in DOMAIN runs :
    Passes(i) /\ <<runs[i].base, runs[i].head>> \in Relevant
      => NixSucceeded(runs[i].head, TRUE)

\* While nothing fails, a metadata edit of a pull request whose head has had a
\* success runs nothing again and keeps the check, up to a full page of
\* successes; so it must not look before what runs in its group is over.
EditsCostNothing ==
  \A i, j \in DOMAIN runs :
    ( /\ ~disturbed /\ j < i /\ runs[j].pull = runs[i].pull
      /\ runs[j].head = runs[i].head /\ runs[j].state = "success"
      /\ runs[i].action = "metadata" /\ runs[i].state \in {"success", "failure"} )
    => \/ runs[i].verdict = "preserved-head" /\ runs[i].nix = "skipped"
       \/ Cardinality(Prior(runs[i].head)) > PageSize

\* When no more events come, the run of the latest one ends undisturbed by the
\* group and concludes for the head the pull request has.
NewestDecides ==
  <>[](\A p \in Pulls : head[p] # None =>
        \E i \in DOMAIN runs :
          /\ runs[i].pull = p /\ runs[i].head = head[p] /\ runs[i].base = base[p]
          /\ runs[i].state \in {"success", "failure"}
          /\ \A j \in DOMAIN runs : runs[j].pull = p => j <= i)
=============================================================================
