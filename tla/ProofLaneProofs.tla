-------------------------- MODULE ProofLaneProofs --------------------------
(***************************************************************************)
(* What a pass of governor / validate stands for, for any number of pull   *)
(* requests, heads, bases and events.                                      *)
(***************************************************************************)
EXTENDS ProofLane, FiniteSetTheorems, TLAPS

Run ==
  [pull : Pulls, head : Heads, base : Bases,
   action : {"code", "base", "metadata"},
   state : {"pending", "running", "cancelling", "cancelled", "success", "failure"},
   at : {"select", "nix", "required", "done"},
   preserved : {Unset, "true", "false"}, required : BOOLEAN,
   select : {"none", "success", "failure", "cancelled"},
   nix : {"skipped", "success", "failure", "cancelled"},
   verdict : Claims \cup {Unset, "inconclusive", "closed", "lost"}]

Controlled(rs, h) == \E j \in DOMAIN rs : rs[j].head = h /\ rs[j].nix = "success"

\* Whatever makes a run a success, or lets it become one, rests on a nix job that
\* succeeded on the same head; and a nix job runs the proof if it has to.
Rooted(rs, run) ==
  /\ run.preserved = "true" \/ run.verdict \in Claims \/ run.state = "success"
       => Controlled(rs, run.head)
  /\ run.at \in {"select", "nix"} => run.nix = "skipped"
  /\ run.at = "nix" \/ run.nix = "success" =>
       (run.required <=> <<run.base, run.head>> \in Relevant)

Sound(rs) == rs \in Seq(Run) /\ \A i \in DOMAIN rs : Rooted(rs, rs[i])

IInv ==
  /\ head \in [Pulls -> Heads \cup {None}] /\ base \in [Pulls -> Bases]
  /\ Sound(runs)

\* No step takes a success of the nix job back.
Keeps(run, later) ==
  later.head = run.head /\ (run.nix = "success" => later.nix = "success")

\* What an event may do to a run that is there already.
Ages(run, later) ==
  /\ later \in Run /\ Keeps(run, later)
  /\ later.preserved = run.preserved /\ later.verdict = run.verdict
  /\ later.state = "success" => run.state = "success"
  /\ later.at \in {"select", "nix"} => later.at = run.at /\ later.nix = run.nix
  /\ later.nix = "success" => run.nix = "success"
  /\ later.required = run.required /\ later.base = run.base

LEMMA ControlledStays ==
  ASSUME NEW rs, NEW new, NEW h, Controlled(rs, h),
         \A i \in DOMAIN rs : i \in DOMAIN new /\ Keeps(rs[i], new[i])
  PROVE  Controlled(new, h)
  BY DEF Controlled, Keeps

-----------------------------------------------------------------------------
(* Events *)

LEMMA InterruptAges ==
  ASSUME NEW rs, NEW run \in Run, Rooted(rs, run)
  PROVE  Ages(run, Interrupt(run))
  <1>1. CASE run.at = "select"
    BY <1>1 DEF Run, Rooted, Interrupt, Keeps, Ages
  <1>2. CASE run.at = "nix"
    BY <1>2 DEF Run, Rooted, Interrupt, Keeps, Ages
  <1>3. CASE run.at \in {"required", "done"}
    BY <1>3 DEF Run, Rooted, Interrupt, Keeps, Ages
  <1> QED
    BY <1>1, <1>2, <1>3 DEF Run

LEMMA SupersededAges ==
  ASSUME NEW rs, NEW run \in Run, Rooted(rs, run), NEW new
  PROVE  Ages(run, Superseded(run, new))
  <1>1. CASE Superseded(run, new) = run
    BY <1>1 DEF Keeps, Ages
  <1>2. CASE Superseded(run, new) = [run EXCEPT !.state = "cancelled"]
    BY <1>2 DEF Keeps, Run, Ages
  <1>3. CASE Superseded(run, new) = Interrupt(run)
    BY <1>3, InterruptAges
  <1> QED
    BY <1>1, <1>2, <1>3 DEF Superseded

LEMMA AgesRooted ==
  ASSUME NEW rs, NEW new, NEW run, NEW later, Rooted(rs, run), Ages(run, later),
         \A i \in DOMAIN rs : i \in DOMAIN new /\ Keeps(rs[i], new[i])
  PROVE  Rooted(new, later)
  <1>1. Controlled(rs, run.head) => Controlled(new, later.head)
    BY ControlledStays DEF Ages, Keeps
  <1> QED
    BY <1>1 DEF Rooted, Ages, Keeps

LEMMA TriggerSound ==
  ASSUME Sound(runs), NEW p \in Pulls, NEW h \in Heads, NEW b \in Bases,
         NEW a \in {"code", "base", "metadata"}, Trigger(NewRun(p, h, b, a))
  PROVE  Sound(runs')
  <1> DEFINE new == NewRun(p, h, b, a)
             past == [i \in DOMAIN runs |-> Superseded(runs[i], new)]
  <1>1. /\ new \in Run /\ new.preserved = Unset /\ new.verdict = Unset
        /\ new.state = "pending" /\ new.at = "select" /\ new.nix = "skipped"
    BY DEF NewRun, Run
  <1>2. runs' = Append(past, new)
    BY DEF Trigger
  <1> HIDE DEF new
  <1>3. /\ runs \in Seq(Run) /\ Len(runs) \in Nat /\ DOMAIN runs = 1..Len(runs)
        /\ \A i \in DOMAIN runs : runs[i] \in Run /\ Rooted(runs, runs[i])
    BY DEF Sound
  <1>4. \A i \in DOMAIN runs : Ages(runs[i], past[i])
    BY <1>3, SupersededAges
  <1>5. past \in Seq(Run) /\ Len(past) = Len(runs)
    BY <1>3, <1>4 DEF Ages
  <1> HIDE DEF past
  <1>6. /\ runs' \in Seq(Run) /\ DOMAIN runs' = 1..(Len(runs) + 1)
        /\ \A i \in DOMAIN runs : runs'[i] = past[i]
        /\ runs'[Len(runs) + 1] = new
    BY <1>1, <1>3, <1>5, <1>2
  <1>7. \A i \in DOMAIN runs : i \in DOMAIN runs' /\ Keeps(runs[i], runs'[i])
    BY <1>3, <1>4, <1>6 DEF Ages
  <1>8. ASSUME NEW i \in DOMAIN runs PROVE Rooted(runs', runs'[i])
    BY <1>3, <1>4, <1>6, <1>7, AgesRooted
  <1>9. Rooted(runs', new)
    BY <1>1 DEF Rooted, Claims, Unset
  <1> QED
    BY <1>3, <1>6, <1>8, <1>9 DEF Sound

LEMMA EventSound ==
  ASSUME IInv, Event
  PROVE  IInv'
  <1>1. PICK p \in Pulls : \/ \E h \in Heads : Code(p, h)
                           \/ \E b \in Bases : Retarget(p, b)
                           \/ EditMetadata(p)
    BY DEF Event
  <1>2. /\ head[p] \in Heads \cup {None} /\ base[p] \in Bases
        /\ Sound(runs)
    BY DEF IInv
  <1>3. ASSUME NEW h \in Heads, Code(p, h) PROVE IInv'
    <2>1. Sound(runs')
      BY <1>2, <1>3, TriggerSound DEF Code
    <2> QED
      BY <1>3, <2>1 DEF Code, IInv
  <1>4. ASSUME NEW b \in Bases, Retarget(p, b) PROVE IInv'
    <2>1. Sound(runs')
      BY <1>2, <1>4, TriggerSound DEF Retarget
    <2> QED
      BY <1>4, <2>1 DEF Retarget, IInv
  <1>5. ASSUME EditMetadata(p) PROVE IInv'
    <2>1. Sound(runs')
      BY <1>2, <1>5, TriggerSound DEF EditMetadata
    <2> QED
      BY <1>5, <2>1 DEF EditMetadata, IInv
  <1> QED
    BY <1>1, <1>3, <1>4, <1>5

-----------------------------------------------------------------------------
(* One run *)

LEMMA BecomesSound ==
  ASSUME IInv, NEW i \in DOMAIN runs, NEW run \in Run, Becomes(i, run),
         Keeps(runs[i], run), Rooted(runs, run)
  PROVE  IInv'
  <1>1. /\ runs \in Seq(Run) /\ DOMAIN runs = 1..Len(runs)
        /\ \A j \in DOMAIN runs : runs[j] \in Run /\ Rooted(runs, runs[j])
    BY DEF IInv, Sound
  <1>2. runs' = [runs EXCEPT ![i] = run]
    BY DEF Becomes
  <1>3. runs' \in Seq(Run) /\ DOMAIN runs' = DOMAIN runs
    BY <1>1, <1>2
  <1>4. \A j \in DOMAIN runs : runs'[j] = IF j = i THEN run ELSE runs[j]
    BY <1>1, <1>2
  <1>5. \A j \in DOMAIN runs : j \in DOMAIN runs' /\ Keeps(runs[j], runs'[j])
    BY <1>3, <1>4 DEF Keeps
  <1>6. \A h : Controlled(runs, h) => Controlled(runs', h)
    BY <1>5, ControlledStays
  <1>7. ASSUME NEW j \in DOMAIN runs PROVE Rooted(runs', runs'[j])
    <2>1. Rooted(runs, runs'[j])
      BY <1>1, <1>4
    <2> QED
      BY <1>6, <2>1 DEF Rooted
  <1> QED
    BY <1>3, <1>7 DEF IInv, Sound, Becomes

LEMMA StartSound ==
  ASSUME IInv, NEW i \in DOMAIN runs, Start(i)
  PROVE  IInv'
  <1>1. runs[i] \in Run /\ Rooted(runs, runs[i])
    BY DEF IInv, Sound
  <1> DEFINE run == [runs[i] EXCEPT !.state = "running"]
  <1>2. run \in Run /\ Keeps(runs[i], run) /\ Rooted(runs, run)
    BY <1>1 DEF Run, Keeps, Rooted
  <1> QED
    BY <1>2, BecomesSound DEF Start

LEMMA SelectFailsSound ==
  ASSUME IInv, NEW i \in DOMAIN runs, Runs(i, "select"), SelectFails(i)
  PROVE  IInv'
  <1>1. runs[i] \in Run /\ Rooted(runs, runs[i])
    BY DEF IInv, Sound
  <1> DEFINE run == [runs[i] EXCEPT !.at = "required", !.select = "failure"]
  <1>2. run \in Run /\ Keeps(runs[i], run) /\ Rooted(runs, run)
    BY <1>1 DEF Run, Keeps, Rooted, Runs
  <1> QED
    BY <1>2, BecomesSound DEF SelectFails

LEMMA SelectPathsSound ==
  ASSUME IInv, NEW i \in DOMAIN runs, Runs(i, "select"),
         NEW preserved \in {Unset, "true", "false"}, SelectPaths(i, preserved),
         preserved = "true" => Controlled(runs, runs[i].head)
  PROVE  IInv'
  <1>1. runs[i] \in Run /\ Rooted(runs, runs[i]) /\ runs[i].at = "select"
    BY DEF IInv, Sound, Runs
  <1> DEFINE required == /\ preserved # "true"
                         /\ <<runs[i].base, runs[i].head>> \in Relevant
             at == IF preserved = "true" THEN "required" ELSE "nix"
             run == [runs[i] EXCEPT !.preserved = preserved, !.select = "success",
                                    !.required = required, !.at = at]
  <1>2. required \in BOOLEAN /\ at \in {"required", "nix"}
    OBVIOUS
  <1>3. /\ preserved # "true" => (required <=> <<runs[i].base, runs[i].head>> \in Relevant)
        /\ preserved = "true" <=> at = "required"
    <2>1. CASE preserved = "true"
      BY <2>1
    <2>2. CASE preserved # "true"
      BY <2>2
    <2> QED
      BY <2>1, <2>2
  <1>4. Becomes(i, run)
    BY DEF SelectPaths
  <1> HIDE DEF required, at
  <1>5. run \in Run /\ Keeps(runs[i], run)
    BY <1>1, <1>2 DEF Run, Keeps
  <1>6. Rooted(runs, run)
    BY <1>1, <1>2, <1>3 DEF Run, Rooted
  <1> QED
    BY <1>4, <1>5, <1>6, BecomesSound

LEMMA SelectSound ==
  ASSUME IInv, NEW i \in DOMAIN runs, Select(i)
  PROVE  IInv'
  <1>1. Runs(i, "select")
    BY DEF Select
  <1>2. CASE SelectPaths(i, Unset)
    BY <1>1, <1>2, SelectPathsSound DEF Unset
  <1>3. CASE Reconcile(i)
    <2>1. PICK unseen \in SUBSET Prior(runs[i].head) :
            LET prior == Cardinality(Prior(runs[i].head) \ unseen) IN
            IF prior > PageSize THEN SelectFails(i)
            ELSE SelectPaths(i, IF prior = 0 THEN "false" ELSE "true")
      BY <1>3 DEF Reconcile
    <2> DEFINE prior == Cardinality(Prior(runs[i].head) \ unseen)
    <2>2. prior # 0 => Controlled(runs, runs[i].head)
      <3>1. SUFFICES ASSUME prior # 0 PROVE Controlled(runs, runs[i].head)
        OBVIOUS
      <3>2. PICK j \in Prior(runs[i].head) : TRUE
        BY <3>1, FS_EmptySet
      <3> QED
        BY <3>2 DEF Prior, IInv, Sound, Rooted
    <2>3. CASE SelectFails(i)
      BY <1>1, <2>3, SelectFailsSound
    <2>4. CASE SelectPaths(i, "false")
      BY <1>1, <2>4, SelectPathsSound
    <2>5. CASE SelectPaths(i, "true") /\ prior # 0
      BY <1>1, <2>2, <2>5, SelectPathsSound
    <2> QED
      BY <2>1, <2>3, <2>4, <2>5
  <1> QED
    BY <1>2, <1>3 DEF Select

LEMMA NixEndsSound ==
  ASSUME IInv, NEW i \in DOMAIN runs, Runs(i, "nix"),
         NEW result \in {"success", "failure"}, NixEnds(i, result)
  PROVE  IInv'
  <1>1. runs[i] \in Run /\ Rooted(runs, runs[i]) /\ runs[i].at = "nix"
    BY DEF IInv, Sound, Runs
  <1> DEFINE run == [runs[i] EXCEPT !.at = "required", !.nix = result]
  <1>2. run \in Run /\ Keeps(runs[i], run) /\ Rooted(runs, run)
    BY <1>1 DEF Run, Keeps, Rooted
  <1> QED
    BY <1>2, BecomesSound DEF NixEnds

\* The job passes on a success of this run or on one that it has inherited.
LEMMA VerdictControlled ==
  ASSUME IInv, NEW i \in DOMAIN runs, Verdict(runs[i]) \in Claims
  PROVE  Controlled(runs, runs[i].head)
  <1>1. runs[i].preserved = "true" \/ runs[i].nix = "success"
    BY DEF Verdict, Claims
  <1> QED
    BY <1>1 DEF IInv, Sound, Rooted, Controlled

LEMMA ConcludeSound ==
  ASSUME IInv, NEW i \in DOMAIN runs, Runs(i, "required"), NEW verdict,
         verdict \in Claims \cup {"inconclusive", "closed", "lost"},
         verdict \in Claims => Controlled(runs, runs[i].head),
         Conclude(i, verdict)
  PROVE  IInv'
  <1>1. runs[i] \in Run /\ Rooted(runs, runs[i]) /\ runs[i].at = "required"
    BY DEF IInv, Sound, Runs
  <1>2. PICK state \in {"success", "failure", "cancelled"} :
          /\ state = "success" => verdict \in Claims
          /\ Becomes(i, [runs[i] EXCEPT !.state = state, !.at = "done", !.verdict = verdict])
    BY DEF Conclude
  <1> DEFINE run == [runs[i] EXCEPT !.state = state, !.at = "done", !.verdict = verdict]
  <1>3. verdict \in Claims \cup {Unset, "inconclusive", "closed", "lost"}
    OBVIOUS
  <1>4. run \in Run /\ Keeps(runs[i], run)
    <2> HIDE DEF run
    <2>1. run \in Run
      BY <1>1, <1>3 DEF Run, run
    <2>2. Keeps(runs[i], run)
      BY <1>1 DEF Run, Keeps, run
    <2> QED
      BY <2>1, <2>2
  <1>5. Rooted(runs, run)
    BY <1>1, <1>2 DEF Run, Rooted
  <1> QED
    BY <1>2, <1>4, <1>5, BecomesSound

LEMMA RunStepSound ==
  ASSUME IInv, NEW i \in DOMAIN runs, RunStep(i)
  PROVE  IInv'
  <1>1. CASE Start(i)
    BY <1>1, StartSound
  <1>2. CASE Select(i)
    BY <1>2, SelectSound
  <1>3. CASE Nix(i)
    BY <1>3, NixEndsSound DEF Nix
  <1>4. CASE Required(i)
    <2>1. Verdict(runs[i]) \in Claims \cup {"inconclusive", "closed", "lost"}
      BY DEF Verdict, Claims
    <2> QED
      BY <1>4, <2>1, VerdictControlled, ConcludeSound DEF Required
  <1>5. CASE TimeOut(i)
    <2>1. CASE Runs(i, "select") /\ SelectFails(i)
      BY <2>1, SelectFailsSound
    <2>2. CASE Runs(i, "nix") /\ NixEnds(i, "failure")
      BY <2>2, NixEndsSound
    <2>3. CASE Runs(i, "required") /\ Conclude(i, "lost")
      BY <2>3, ConcludeSound DEF Claims
    <2> QED
      BY <1>5, <2>1, <2>2, <2>3 DEF TimeOut
  <1> QED
    BY <1>1, <1>2, <1>3, <1>4, <1>5 DEF RunStep

-----------------------------------------------------------------------------
(* The theorems *)

LEMMA InitSound == Init => IInv
  BY LaneAssumption DEF Init, IInv, Sound

LEMMA NextSound == IInv /\ [Next]_vars => IInv'
  <1> SUFFICES ASSUME IInv, [Next]_vars
               PROVE  IInv'
    OBVIOUS
  <1>1. CASE Event
    BY <1>1, EventSound
  <1>2. CASE \E i \in DOMAIN runs : RunStep(i)
    BY <1>2, RunStepSound
  <1>3. CASE UNCHANGED vars
    BY <1>3 DEF vars, IInv, Sound, Rooted, Controlled
  <1> QED
    BY <1>1, <1>2, <1>3 DEF Next, Done

\* Every pass of every run rests on a nix job that succeeded on its head.
THEOREM Invariance == Safety => []IInv
  BY InitSound, NextSound, PTL DEF Safety

\* governor / validate passes only for heads that have passed the repository
\* controls (the required job, proof-slow.yml:620-669, with the readback of the
\* select job, :57-142), whatever the concurrency group cancels or replaces.
THEOREM PassControlled == Safety => []ControlsPassed
  <1>1. IInv => ControlsPassed
    BY DEF IInv, Sound, Rooted, Controlled, ControlsPassed, Passes, NixSucceeded
  <1> QED
    BY <1>1, Invariance, PTL

\* Where a change's relevance is a matter of its head alone, a pass also means
\* that the locked proof has succeeded on that head: no metadata edit loses the
\* obligation.  ProofRetargeted shows that the hypothesis is needed.
THEOREM PassProved ==
  ASSUME \A h, b, c : <<b, h>> \in Relevant /\ c \in Bases => <<c, h>> \in Relevant
  PROVE  Safety => []RelevantProved
  <1>1. IInv => RelevantProved
    <2>1. SUFFICES ASSUME IInv, NEW i \in DOMAIN runs, Passes(i),
                          <<runs[i].base, runs[i].head>> \in Relevant
                   PROVE  NixSucceeded(runs[i].head, TRUE)
      BY DEF RelevantProved
    <2>2. PICK j \in DOMAIN runs : runs[j].head = runs[i].head /\ runs[j].nix = "success"
      BY <2>1 DEF IInv, Sound, Rooted, Controlled, Passes
    <2>3. runs[j] \in Run /\ runs[i] \in Run
      BY <2>1, <2>2 DEF IInv, Sound
    <2>4. runs[j].base \in Bases
      BY <2>3 DEF Run
    <2>5. runs[j].required
      BY <2>1, <2>2, <2>4 DEF IInv, Sound, Rooted
    <2> QED
      BY <2>2, <2>5 DEF NixSucceeded
  <1> QED
    BY <1>1, Invariance, PTL

-----------------------------------------------------------------------------
(* What a metadata edit may inherit *)

Ended == {"success", "failure", "cancelled"}
Started(run) == run.state \in Active \/ run.at # "select"

\* In one group only the newest run waits, and a run has begun only when every
\* earlier one was over.
Ordered(rs) ==
  \A i, j \in DOMAIN rs :
    j < i /\ rs[j].pull = rs[i].pull =>
      /\ rs[j].state # "pending"
      /\ Started(rs[i]) => rs[j].state \in Ended

Succeeded(rs, h) == {j \in DOMAIN rs : rs[j].state = "success" /\ rs[j].head = h}
Precedes(rs, j, i, run) ==
  /\ j < i /\ rs[j].pull = run.pull /\ rs[j].head = run.head
  /\ rs[j].state = "success"

\* A run that has chosen undisturbed has inherited an earlier success of its
\* group, or there were too many; and it concludes as it chose.
Told(rs, dist, i, run) ==
  /\ run.state = "pending" => run.at = "select"
  /\ run.select = "cancelled" => run.state \in {"cancelling", "cancelled"}
  /\ run.state \in {"success", "failure"} => run.at = "done"
  /\ run.at = "done" /\ ~dist => run.verdict = Verdict(run)
  /\ /\ ~dist /\ run.action = "metadata" /\ run.at # "select" /\ run.select # "cancelled"
     /\ \E j \in DOMAIN rs : Precedes(rs, j, i, run)
     => \/ /\ run.preserved = "true" /\ run.select = "success" /\ run.nix = "skipped"
           /\ run.at # "nix"
        \/ Cardinality(Succeeded(rs, run.head)) > PageSize

Edits ==
  /\ disturbed \in BOOLEAN
  /\ Ordered(runs)
  /\ \A i \in DOMAIN runs : Told(runs, disturbed, i, runs[i])

\* The successes of a head are never fewer.
LEMMA MoreSucceed ==
  ASSUME NEW rs \in Seq(Run), NEW new, NEW h,
         \A j \in DOMAIN rs :
           /\ j \in DOMAIN new /\ new[j].head = rs[j].head
           /\ rs[j].state = "success" => new[j].state = "success",
         NEW m \in Nat, DOMAIN new = 1..m,
         Cardinality(Succeeded(rs, h)) > PageSize
  PROVE  Cardinality(Succeeded(new, h)) > PageSize
  <1>1. Succeeded(rs, h) \subseteq Succeeded(new, h)
    BY DEF Succeeded
  <1>2. IsFiniteSet(1..m)
    BY FS_Interval
  <1>3. IsFiniteSet(Succeeded(new, h))
    BY <1>2, FS_Subset DEF Succeeded
  <1>4. /\ Cardinality(Succeeded(rs, h)) <= Cardinality(Succeeded(new, h))
        /\ Cardinality(Succeeded(rs, h)) \in Nat /\ Cardinality(Succeeded(new, h)) \in Nat
    BY <1>1, <1>3, FS_Subset, FS_CardinalityType
  <1> QED
    BY <1>4, LaneAssumption

\* What a run chose stays told while its group goes on.
LEMMA ToldStays ==
  ASSUME NEW rs \in Seq(Run), NEW dist \in BOOLEAN, NEW new, NEW later \in BOOLEAN,
         NEW i, NEW run, Told(rs, dist, i, run), dist => later,
         \A j \in DOMAIN rs :
           /\ j \in DOMAIN new /\ new[j].head = rs[j].head
           /\ rs[j].state = "success" => new[j].state = "success",
         NEW m \in Nat, DOMAIN new = 1..m,
         run.at # "select" => \A j \in DOMAIN new : Precedes(new, j, i, run) =>
                                j \in DOMAIN rs /\ Precedes(rs, j, i, run)
  PROVE  Told(new, later, i, run)
  <1>1. Cardinality(Succeeded(rs, run.head)) > PageSize =>
          Cardinality(Succeeded(new, run.head)) > PageSize
    BY MoreSucceed
  <1> QED
    BY <1>1, Zenon DEF Told

\* What an event does to a run already there.
Passed(run, later) ==
  /\ later.pull = run.pull /\ later.head = run.head
  /\ later.state = "success" <=> run.state = "success"
  /\ later.state = "pending" => run.state = "pending"
  /\ run.state \in Ended => later.state \in Ended
  /\ Started(later) => Started(run)

LEMMA SupersededPassed ==
  ASSUME NEW rs, NEW i, NEW dist, NEW run \in Run, Told(rs, dist, i, run), NEW new
  PROVE  /\ Passed(run, Superseded(run, new))
         /\ Told(rs, dist, i, Superseded(run, new))
         /\ new.pull = run.pull => Superseded(run, new).state # "pending"
  <1> DEFINE later == Superseded(run, new)
  <1>1. CASE later = run
    <2>1. new.pull = run.pull => run.state # "pending"
      <3>1. ASSUME new.pull = run.pull, run.state = "pending" PROVE FALSE
        <4>1. later = [run EXCEPT !.state = "cancelled"]
          BY <3>1 DEF Superseded
        <4>2. later.state = "cancelled"
          BY <4>1 DEF Run
        <4> QED
          BY <1>1, <3>1, <4>2
      <3> QED
        BY <3>1
    <2> QED
      BY <1>1, <2>1 DEF Passed
  <1>2. CASE later = [run EXCEPT !.state = "cancelled"] /\ run.state = "pending"
    <2>1. /\ later.state = "cancelled" /\ later.at = run.at /\ later.pull = run.pull
          /\ later.head = run.head /\ run.at = "select"
          /\ later.select = run.select
      BY <1>2 DEF Run, Told
    <2>2. Passed(run, later)
      BY <1>2, <2>1 DEF Passed, Started, Ended, Active
    <2>3. Told(rs, dist, i, later)
      BY <2>1 DEF Told
    <2> QED
      BY <2>1, <2>2, <2>3
  <1>3. CASE later = Interrupt(run) /\ run.state = "running"
    <2>1. /\ later.state = "cancelling" /\ later.pull = run.pull
          /\ later.head = run.head /\ later.action = run.action
          /\ later.preserved = run.preserved /\ later.verdict = run.verdict
          /\ later.required = run.required
          /\ run.at = "select" => later.at = "required" /\ later.select = "cancelled"
          /\ run.at = "nix" => later.at = "required" /\ later.select = run.select
          /\ run.at \in {"required", "done"} =>
               /\ later.at = run.at /\ later.select = run.select
               /\ later.nix = run.nix
      <3>1. CASE run.at = "select"
        BY <1>3, <3>1 DEF Run, Interrupt
      <3>2. CASE run.at = "nix"
        BY <1>3, <3>2 DEF Run, Interrupt
      <3>3. CASE run.at \in {"required", "done"}
        BY <1>3, <3>3 DEF Run, Interrupt
      <3> QED
        BY <3>1, <3>2, <3>3 DEF Run
    <2>2. Passed(run, later)
      BY <1>3, <2>1 DEF Passed, Started, Ended, Active
    <2> HIDE DEF later
    <2>3. Told(rs, dist, i, later)
      <3>1. CASE run.at = "select"
        BY <2>1, <3>1 DEF Told
      <3>2. CASE run.at = "nix"
        <4>1. (\E j \in DOMAIN rs : Precedes(rs, j, i, later)) =>
                \E j \in DOMAIN rs : Precedes(rs, j, i, run)
          BY <2>1 DEF Precedes
        <4> QED
          BY <2>1, <3>2, <4>1 DEF Told
      <3>3. CASE run.at \in {"required", "done"}
        <4>1. (\E j \in DOMAIN rs : Precedes(rs, j, i, later)) =>
                \E j \in DOMAIN rs : Precedes(rs, j, i, run)
          BY <2>1 DEF Precedes
        <4>2. Verdict(later) = Verdict(run)
          BY <2>1, <3>3 DEF Verdict
        <4> QED
          BY <2>1, <3>3, <4>1, <4>2 DEF Told
      <3> QED
        BY <3>1, <3>2, <3>3 DEF Run
    <2> QED
      BY <2>1, <2>2, <2>3 DEF later
  <1> QED
    BY <1>1, <1>2, <1>3 DEF Superseded

LEMMA TriggerEdits ==
  ASSUME IInv, Edits, NEW p \in Pulls, NEW h \in Heads, NEW b \in Bases,
         NEW a \in {"code", "base", "metadata"}, Trigger(NewRun(p, h, b, a))
  PROVE  Edits'
  <1> DEFINE new == NewRun(p, h, b, a)
             past == [i \in DOMAIN runs |-> Superseded(runs[i], new)]
  <1>1. /\ new \in Run /\ new.pull = p /\ new.state = "pending" /\ new.at = "select"
        /\ new.select = "none"
    BY DEF NewRun, Run
  <1>2. runs' = Append(past, new) /\ disturbed' = disturbed
    BY DEF Trigger
  <1> HIDE DEF new
  <1>3. /\ runs \in Seq(Run) /\ Len(runs) \in Nat /\ DOMAIN runs = 1..Len(runs)
        /\ \A i \in DOMAIN runs : /\ runs[i] \in Run /\ Rooted(runs, runs[i])
                                  /\ Told(runs, disturbed, i, runs[i])
        /\ disturbed \in BOOLEAN
    BY DEF IInv, Sound, Edits
  <1>4. \A i \in DOMAIN runs : past[i] \in Run
    BY <1>3, SupersededAges DEF Ages
  <1>5. \A i \in DOMAIN runs :
          /\ Passed(runs[i], past[i])
          /\ Told(runs, disturbed, i, past[i])
          /\ p = runs[i].pull => past[i].state # "pending"
    BY <1>1, <1>3, SupersededPassed
  <1>6. past \in Seq(Run) /\ Len(past) = Len(runs)
    BY <1>3, <1>4
  <1> HIDE DEF past
  <1>7. /\ DOMAIN runs' = 1..(Len(runs) + 1)
        /\ \A i \in DOMAIN runs : runs'[i] = past[i]
        /\ runs'[Len(runs) + 1] = new
    BY <1>1, <1>2, <1>3, <1>6
  <1>8. \A i \in DOMAIN runs' : i \in DOMAIN runs \/ i = Len(runs) + 1
    BY <1>3, <1>7
  <1>9. Ordered(runs')
    <2> SUFFICES ASSUME NEW i \in DOMAIN runs', NEW j \in DOMAIN runs', j < i,
                        runs'[j].pull = runs'[i].pull
                 PROVE  /\ runs'[j].state # "pending"
                        /\ Started(runs'[i]) => runs'[j].state \in Ended
      BY DEF Ordered
    <2>1. j \in DOMAIN runs /\ runs'[j] = past[j]
      BY <1>3, <1>7, <1>8
    <2>2. CASE i \in DOMAIN runs
      <3>1. runs[j].pull = runs[i].pull
        BY <1>5, <1>7, <2>1, <2>2 DEF Passed
      <3>2. /\ runs[j].state # "pending"
            /\ Started(runs[i]) => runs[j].state \in Ended
        BY <2>1, <2>2, <3>1 DEF Edits, Ordered
      <3> QED
        BY <1>5, <1>7, <2>1, <2>2, <3>2 DEF Passed
    <2>3. CASE i = Len(runs) + 1
      <3>1. ~Started(new) /\ runs[j].pull = p
        BY <1>1, <1>5, <1>7, <2>1, <2>3 DEF Started, Active, Passed
      <3> QED
        BY <1>5, <1>7, <2>1, <2>3, <3>1
    <2> QED
      BY <1>8, <2>2, <2>3
  <1>10. \A j \in DOMAIN runs :
           /\ j \in DOMAIN runs' /\ runs'[j].head = runs[j].head
           /\ runs[j].state = "success" => runs'[j].state = "success"
    BY <1>3, <1>5, <1>7 DEF Passed
  <1>11. ASSUME NEW i \in DOMAIN runs' PROVE Told(runs', disturbed', i, runs'[i])
    <2>1. CASE i \in DOMAIN runs
      <3>1. \A j \in DOMAIN runs' : Precedes(runs', j, i, past[i]) =>
              j \in DOMAIN runs /\ Precedes(runs, j, i, past[i])
        <4> SUFFICES ASSUME NEW j \in DOMAIN runs', Precedes(runs', j, i, past[i])
                     PROVE  j \in DOMAIN runs /\ Precedes(runs, j, i, past[i])
          OBVIOUS
        <4>1. j \in DOMAIN runs
          BY <1>3, <1>7, <1>8, <2>1 DEF Precedes
        <4> QED
          BY <1>5, <1>7, <4>1 DEF Precedes, Passed
      <3>2. Told(runs, disturbed, i, past[i])
        BY <1>5, <2>1
      <3>3. Len(runs) + 1 \in Nat
        BY <1>3
      <3>4. Told(runs', disturbed, i, past[i])
        BY <1>3, <1>7, <1>10, <3>1, <3>2, <3>3, ToldStays
      <3> QED
        BY <1>2, <1>7, <2>1, <3>4
    <2>2. CASE i = Len(runs) + 1
      <3>1. Told(runs', disturbed', i, new)
        BY <1>1 DEF Told
      <3> QED
        BY <1>7, <2>2, <3>1
    <2> QED
      BY <1>8, <2>1, <2>2
  <1> QED
    BY <1>2, <1>3, <1>9, <1>11 DEF Edits

LEMMA EventEdits ==
  ASSUME IInv, Edits, Event
  PROVE  Edits'
  <1>1. PICK p \in Pulls : \/ \E h \in Heads : Code(p, h)
                           \/ \E b \in Bases : Retarget(p, b)
                           \/ EditMetadata(p)
    BY DEF Event
  <1>2. head[p] \in Heads \cup {None} /\ base[p] \in Bases
    BY DEF IInv
  <1> QED
    BY <1>1, <1>2, TriggerEdits DEF Code, Retarget, EditMetadata

\* A step of one run.
LEMMA BecomesEdits ==
  ASSUME IInv, Edits, NEW i \in DOMAIN runs, NEW run \in Run, Becomes(i, run),
         run.pull = runs[i].pull, run.head = runs[i].head,
         runs[i].state \notin Ended, run.state # "pending",
         \/ Started(runs[i])
         \/ \A j \in DOMAIN runs :
              j < i /\ runs[j].pull = run.pull => runs[j].state \in Ended,
         disturbed' \in BOOLEAN, disturbed => disturbed',
         Told(runs, disturbed', i, run)
  PROVE  Edits'
  <1>1. /\ runs \in Seq(Run) /\ Len(runs) \in Nat /\ DOMAIN runs = 1..Len(runs)
        /\ \A j \in DOMAIN runs : runs[j] \in Run /\ Told(runs, disturbed, j, runs[j])
        /\ disturbed \in BOOLEAN /\ Ordered(runs)
    BY DEF IInv, Sound, Edits
  <1>2. runs' = [runs EXCEPT ![i] = run]
    BY DEF Becomes
  <1>3. /\ DOMAIN runs' = DOMAIN runs
        /\ \A j \in DOMAIN runs : runs'[j] = IF j = i THEN run ELSE runs[j]
    BY <1>1, <1>2
  <1>4. \A j \in DOMAIN runs : runs'[j].pull = runs[j].pull /\ runs'[j].head = runs[j].head
    BY <1>3
  <1>5. Ordered(runs')
    <2> SUFFICES ASSUME NEW k \in DOMAIN runs, NEW j \in DOMAIN runs, j < k,
                        runs[j].pull = runs[k].pull
                 PROVE  /\ runs'[j].state # "pending"
                        /\ Started(runs'[k]) => runs'[j].state \in Ended
      BY <1>3, <1>4 DEF Ordered
    <2>1. /\ runs[j].state # "pending"
          /\ Started(runs[k]) => runs[j].state \in Ended
      BY <1>1 DEF Ordered
    <2>2. j \in Nat /\ k \in Nat /\ ~ (i < i)
      BY <1>1
    <2>3. CASE j = i
      BY <1>3, <2>1, <2>2, <2>3
    <2>4. CASE k = i
      BY <1>3, <2>1, <2>2, <2>4
    <2>5. CASE j # i /\ k # i
      BY <1>3, <2>1, <2>5
    <2> QED
      BY <2>3, <2>4, <2>5
  <1>6. \A j \in DOMAIN runs :
          /\ j \in DOMAIN runs' /\ runs'[j].head = runs[j].head
          /\ runs[j].state = "success" => runs'[j].state = "success"
    BY <1>3, <1>4 DEF Ended
  <1>7. ASSUME NEW k \in DOMAIN runs PROVE Told(runs', disturbed', k, runs'[k])
    <2>1. CASE k = i
      <3>1. \A j \in DOMAIN runs' : Precedes(runs', j, i, run) =>
              j \in DOMAIN runs /\ Precedes(runs, j, i, run)
        <4>1. \A j \in DOMAIN runs' : j < i => j \in DOMAIN runs /\ runs'[j] = runs[j]
          BY <1>1, <1>3
        <4> QED
          BY <4>1 DEF Precedes
      <3>2. Told(runs', disturbed', i, run)
        BY <1>1, <1>3, <1>6, <3>1, ToldStays
      <3> QED
        BY <1>3, <2>1, <3>2
    <2>2. CASE k # i
      <3>1. runs'[k] = runs[k] /\ Told(runs, disturbed, k, runs[k])
        BY <1>1, <1>3, <2>2
      <3>2. ASSUME runs[k].at # "select", NEW j \in DOMAIN runs',
                   Precedes(runs', j, k, runs[k])
            PROVE  j \in DOMAIN runs /\ Precedes(runs, j, k, runs[k])
        <4>1. j \in DOMAIN runs /\ j < k /\ runs[j].pull = runs[k].pull
          BY <1>3, <1>4, <3>2 DEF Precedes
        <4>2. runs[j].state \in Ended
          BY <1>1, <3>2, <4>1 DEF Ordered, Started
        <4>3. j # i
          BY <4>2
        <4> QED
          BY <1>3, <3>2, <4>1, <4>3 DEF Precedes
      <3>3. Told(runs', disturbed', k, runs[k])
        BY <1>1, <1>3, <1>6, <3>1, <3>2, ToldStays
      <3> QED
        BY <3>1, <3>3
    <2> QED
      BY <2>1, <2>2
  <1> QED
    BY <1>3, <1>5, <1>7 DEF Edits

LEMMA StartEdits ==
  ASSUME IInv, Edits, NEW i \in DOMAIN runs, Start(i)
  PROVE  Edits'
  <1> DEFINE run == [runs[i] EXCEPT !.state = "running"]
  <1>1. /\ runs[i] \in Run /\ Told(runs, disturbed, i, runs[i])
        /\ runs[i].state = "pending" /\ ~Busy(i)
        /\ Becomes(i, run) /\ disturbed' = disturbed /\ disturbed \in BOOLEAN
        /\ \A j \in DOMAIN runs : runs[j] \in Run
    BY DEF IInv, Sound, Edits, Start
  <1>2. /\ run \in Run /\ run.pull = runs[i].pull /\ run.head = runs[i].head
        /\ run.state = "running" /\ run.at = runs[i].at /\ run.select = runs[i].select
    BY <1>1 DEF Run
  <1>3. runs[i].at = "select" /\ runs[i].select # "cancelled"
    BY <1>1 DEF Told
  <1> HIDE DEF run
  <1>4. Told(runs, disturbed', i, run)
    BY <1>1, <1>2, <1>3 DEF Told
  <1>5. ASSUME NEW j \in DOMAIN runs, j < i, runs[j].pull = run.pull
        PROVE  runs[j].state \in Ended
    <2>1. runs[j].state # "pending"
      BY <1>2, <1>5 DEF Edits, Ordered
    <2>2. runs[j].state \notin Active
      BY <1>1, <1>2, <1>5 DEF Busy
    <2>3. runs[j].state \in {"pending", "running", "cancelling", "cancelled", "success", "failure"}
      BY <1>1 DEF Run
    <2> QED
      BY <2>1, <2>2, <2>3 DEF Active, Ended
  <1>6. runs[i].state \notin Ended /\ run.state # "pending"
    BY <1>1, <1>2 DEF Ended
  <1> QED
    BY <1>1, <1>2, <1>4, <1>5, <1>6, BecomesEdits

\* The steps of a run that is under way.
LEMMA RunEdits ==
  ASSUME IInv, Edits, NEW i \in DOMAIN runs, NEW at, Runs(i, at), NEW run \in Run,
         Becomes(i, run), run.pull = runs[i].pull, run.head = runs[i].head,
         run.state # "pending", disturbed' \in BOOLEAN, disturbed => disturbed',
         Told(runs, disturbed', i, run)
  PROVE  Edits'
  <1>1. Started(runs[i]) /\ runs[i].state \notin Ended
    BY DEF Runs, Started, Active, Ended
  <1> QED
    BY <1>1, BecomesEdits

LEMMA SelectFailsEdits ==
  ASSUME IInv, Edits, NEW i \in DOMAIN runs, Runs(i, "select"), SelectFails(i),
         disturbed' \in BOOLEAN, disturbed => disturbed',
         disturbed' \/ Cardinality(Succeeded(runs, runs[i].head)) > PageSize
  PROVE  Edits'
  <1> DEFINE run == [runs[i] EXCEPT !.at = "required", !.select = "failure"]
  <1>1. /\ runs[i] \in Run /\ Told(runs, disturbed, i, runs[i])
        /\ runs[i].state \in Active /\ Becomes(i, run)
    BY DEF IInv, Sound, Edits, Runs, SelectFails
  <1>2. /\ run \in Run /\ run.pull = runs[i].pull /\ run.head = runs[i].head
        /\ run.state = runs[i].state /\ run.at = "required" /\ run.select = "failure"
    BY <1>1 DEF Run
  <1>3. run.state \in {"running", "cancelling"}
    BY <1>1, <1>2 DEF Active
  <1> HIDE DEF run
  <1>4. Told(runs, disturbed', i, run)
    BY <1>2, <1>3 DEF Told
  <1> QED
    BY <1>1, <1>2, <1>3, <1>4, RunEdits

LEMMA SelectPathsEdits ==
  ASSUME IInv, Edits, NEW i \in DOMAIN runs, Runs(i, "select"),
         NEW preserved \in {Unset, "true", "false"}, SelectPaths(i, preserved),
         disturbed' \in BOOLEAN, disturbed => disturbed',
         \/ disturbed' \/ preserved = "true" \/ runs[i].action # "metadata"
         \/ Succeeded(runs, runs[i].head) = {}
  PROVE  Edits'
  <1> DEFINE required == /\ preserved # "true"
                         /\ <<runs[i].base, runs[i].head>> \in Relevant
             at == IF preserved = "true" THEN "required" ELSE "nix"
             run == [runs[i] EXCEPT !.preserved = preserved, !.select = "success",
                                    !.required = required, !.at = at]
  <1>1. /\ runs[i] \in Run /\ Rooted(runs, runs[i]) /\ Told(runs, disturbed, i, runs[i])
        /\ runs[i].state \in Active /\ Becomes(i, run) /\ runs[i].at = "select"
    BY DEF IInv, Sound, Edits, Runs, SelectPaths
  <1>2. required \in BOOLEAN /\ at \in {"required", "nix"}
    OBVIOUS
  <1>3. preserved = "true" => at = "required"
    OBVIOUS
  <1> HIDE DEF required, at
  <1>4. /\ run \in Run /\ run.pull = runs[i].pull /\ run.head = runs[i].head
        /\ run.state = runs[i].state /\ run.at = at /\ run.select = "success"
        /\ run.action = runs[i].action /\ run.preserved = preserved
        /\ run.nix = runs[i].nix
    BY <1>1, <1>2 DEF Run
  <1>5. run.state \in {"running", "cancelling"} /\ run.nix = "skipped"
    BY <1>1, <1>4 DEF Active, Rooted
  <1> HIDE DEF run
  <1>6. Succeeded(runs, runs[i].head) = {} => ~ \E j \in DOMAIN runs : Precedes(runs, j, i, run)
    BY <1>4 DEF Succeeded, Precedes
  <1>7. Told(runs, disturbed', i, run)
    BY <1>2, <1>3, <1>4, <1>5, <1>6 DEF Told
  <1> QED
    BY <1>1, <1>4, <1>5, <1>7, RunEdits

LEMMA SelectEdits ==
  ASSUME IInv, Edits, NEW i \in DOMAIN runs, Select(i)
  PROVE  Edits'
  <1>1. Runs(i, "select") /\ disturbed \in BOOLEAN
    BY DEF Select, Edits
  <1>2. CASE runs[i].action # "metadata" /\ SelectPaths(i, Unset) /\ UNCHANGED disturbed
    BY <1>1, <1>2, SelectPathsEdits
  <1>3. CASE Reconcile(i)
    <2>1. PICK unseen \in SUBSET Prior(runs[i].head) :
            /\ disturbed' = (disturbed \/ unseen # {})
            /\ LET prior == Cardinality(Prior(runs[i].head) \ unseen) IN
               IF prior > PageSize THEN SelectFails(i)
               ELSE SelectPaths(i, IF prior = 0 THEN "false" ELSE "true")
      BY <1>3 DEF Reconcile
    <2> DEFINE prior == Cardinality(Prior(runs[i].head) \ unseen)
    <2>2. disturbed' \in BOOLEAN /\ (disturbed => disturbed') /\ (~disturbed' => unseen = {})
      BY <1>1, <2>1
    <2>3. Prior(runs[i].head) = Succeeded(runs, runs[i].head)
      BY DEF Prior, Succeeded
    <2>4. IsFiniteSet(Succeeded(runs, runs[i].head))
      <3>1. DOMAIN runs = 1..Len(runs) /\ Len(runs) \in Nat
        BY DEF IInv, Sound
      <3>2. IsFiniteSet(DOMAIN runs)
        BY <3>1, FS_Interval
      <3> QED
        BY <3>2, FS_Subset DEF Succeeded
    <2>5. CASE prior > PageSize /\ SelectFails(i)
      <3>1. ~disturbed' => Cardinality(Succeeded(runs, runs[i].head)) > PageSize
        <4>1. ~disturbed' => Prior(runs[i].head) \ unseen = Succeeded(runs, runs[i].head)
          BY <2>2, <2>3
        <4> QED
          BY <2>5, <4>1
      <3> QED
        BY <1>1, <2>2, <2>5, <3>1, SelectFailsEdits
    <2>6. CASE SelectPaths(i, "true")
      BY <1>1, <2>2, <2>6, SelectPathsEdits
    <2>7. CASE prior = 0 /\ SelectPaths(i, "false")
      <3>1. ~disturbed' => Succeeded(runs, runs[i].head) = {}
        <4>1. ~disturbed' => Prior(runs[i].head) \ unseen = Succeeded(runs, runs[i].head)
          BY <2>2, <2>3
        <4>2. Cardinality(Succeeded(runs, runs[i].head)) = 0 => Succeeded(runs, runs[i].head) = {}
          BY <2>4, FS_EmptySet
        <4> QED
          BY <2>7, <4>1, <4>2
      <3> QED
        BY <1>1, <2>2, <2>7, <3>1, SelectPathsEdits
    <2> QED
      BY <2>1, <2>5, <2>6, <2>7
  <1> QED
    BY <1>2, <1>3 DEF Select

LEMMA NixEndsEdits ==
  ASSUME IInv, Edits, NEW i \in DOMAIN runs, Runs(i, "nix"),
         NEW result \in {"success", "failure"}, NixEnds(i, result), UNCHANGED disturbed
  PROVE  Edits'
  <1> DEFINE run == [runs[i] EXCEPT !.at = "required", !.nix = result]
  <1>1. /\ runs[i] \in Run /\ Told(runs, disturbed, i, runs[i]) /\ disturbed \in BOOLEAN
        /\ runs[i].state \in Active /\ Becomes(i, run) /\ runs[i].at = "nix"
    BY DEF IInv, Sound, Edits, Runs, NixEnds
  <1>2. /\ run \in Run /\ run.pull = runs[i].pull /\ run.head = runs[i].head
        /\ run.state = runs[i].state /\ run.at = "required"
        /\ run.select = runs[i].select /\ run.action = runs[i].action
    BY <1>1 DEF Run
  <1>3. run.state \in {"running", "cancelling"}
    BY <1>1, <1>2 DEF Active
  <1> HIDE DEF run
  <1>4. (\E j \in DOMAIN runs : Precedes(runs, j, i, run)) =>
          \E j \in DOMAIN runs : Precedes(runs, j, i, runs[i])
    BY <1>2 DEF Precedes
  <1>5. Told(runs, disturbed, i, run)
    BY <1>1, <1>2, <1>3, <1>4 DEF Told
  <1> QED
    BY <1>1, <1>2, <1>3, <1>5, RunEdits

LEMMA ConcludeEdits ==
  ASSUME IInv, Edits, NEW i \in DOMAIN runs, Runs(i, "required"), NEW verdict,
         verdict \in Claims \cup {"inconclusive", "closed", "lost"},
         Conclude(i, verdict),
         \/ disturbed' = TRUE /\ verdict = "lost"
         \/ disturbed' = disturbed /\ verdict = Verdict(runs[i])
  PROVE  Edits'
  <1>1. PICK state \in {"success", "failure", "cancelled"} :
          /\ state = "success" => verdict \in Claims
          /\ state = "failure" => verdict \notin Claims /\ runs[i].state = "running"
          /\ state = "cancelled" => runs[i].state = "cancelling"
          /\ Becomes(i, [runs[i] EXCEPT !.state = state, !.at = "done", !.verdict = verdict])
    BY DEF Conclude
  <1> DEFINE run == [runs[i] EXCEPT !.state = state, !.at = "done", !.verdict = verdict]
  <1>2. /\ runs[i] \in Run /\ Told(runs, disturbed, i, runs[i]) /\ disturbed \in BOOLEAN
        /\ runs[i].state \in Active /\ Becomes(i, run) /\ runs[i].at = "required"
    BY <1>1 DEF IInv, Sound, Edits, Runs
  <1>3. verdict \in Claims \cup {Unset, "inconclusive", "closed", "lost"}
    OBVIOUS
  <1>4. run \in Run
    BY <1>2, <1>3 DEF Run
  <1>5. /\ run.pull = runs[i].pull /\ run.head = runs[i].head
        /\ run.state = state /\ run.at = "done" /\ run.verdict = verdict
        /\ run.select = runs[i].select /\ run.action = runs[i].action
        /\ run.preserved = runs[i].preserved /\ run.nix = runs[i].nix
        /\ run.required = runs[i].required
    BY <1>2 DEF Run
  <1> HIDE DEF run
  <1>6. Verdict(run) = Verdict(runs[i])
    BY <1>5 DEF Verdict
  <1>7. run.select = "cancelled" => run.state = "cancelled"
    <2> SUFFICES ASSUME runs[i].select = "cancelled" PROVE state = "cancelled"
      BY <1>5
    <2>1. runs[i].state = "cancelling"
      BY <1>2 DEF Told, Active
    <2>2. Verdict(runs[i]) = "inconclusive"
      <3>1. runs[i].select # "success"
        OBVIOUS
      <3> QED
        BY <3>1 DEF Verdict
    <2>3. verdict \notin Claims
      <3>1. verdict = "lost" \/ verdict = "inconclusive"
        BY <2>2
      <3> QED
        BY <3>1 DEF Claims
    <2> QED
      BY <1>1, <2>1, <2>3
  <1>8. (\E j \in DOMAIN runs : Precedes(runs, j, i, run)) =>
          \E j \in DOMAIN runs : Precedes(runs, j, i, runs[i])
    BY <1>5 DEF Precedes
  <1>9. disturbed' \in BOOLEAN /\ (disturbed => disturbed')
    BY <1>2
  <1>10. ~disturbed' => run.verdict = Verdict(run)
    BY <1>5, <1>6
  <1>11. run.state \in {"success", "failure", "cancelled"}
    BY <1>5
  <1>12. Told(runs, disturbed', i, run)
    BY <1>2, <1>5, <1>7, <1>8, <1>9, <1>10, <1>11 DEF Told
  <1> QED
    BY <1>2, <1>4, <1>5, <1>9, <1>11, <1>12, RunEdits

LEMMA RunStepEdits ==
  ASSUME IInv, Edits, NEW i \in DOMAIN runs, RunStep(i)
  PROVE  Edits'
  <1>1. CASE Start(i)
    BY <1>1, StartEdits
  <1>2. CASE Select(i)
    BY <1>2, SelectEdits
  <1>3. CASE Nix(i)
    BY <1>3, NixEndsEdits DEF Nix
  <1>4. CASE Required(i)
    <2>1. Verdict(runs[i]) \in Claims \cup {"inconclusive", "closed", "lost"}
      BY DEF Verdict, Claims
    <2> QED
      BY <1>4, <2>1, ConcludeEdits DEF Required
  <1>5. CASE TimeOut(i)
    <2>1. CASE Runs(i, "select") /\ SelectFails(i) /\ disturbed' = TRUE
      BY <2>1, SelectFailsEdits
    <2>2. CASE Runs(i, "nix") /\ NixEnds(i, "failure") /\ UNCHANGED disturbed
      BY <2>2, NixEndsEdits
    <2>3. CASE Runs(i, "required") /\ Conclude(i, "lost") /\ disturbed' = TRUE
      BY <2>3, ConcludeEdits
    <2> QED
      BY <1>5, <2>1, <2>2, <2>3 DEF TimeOut
  <1> QED
    BY <1>1, <1>2, <1>3, <1>4, <1>5 DEF RunStep

LEMMA EditsStart == Init => Edits
  <1> SUFFICES ASSUME Init PROVE Edits
    OBVIOUS
  <1>1. disturbed \in BOOLEAN
    BY DEF Init
  <1>2. runs = <<>>
    BY DEF Init
  <1>3. \A i : i \notin DOMAIN runs
    BY <1>2
  <1>4. Ordered(runs)
    BY <1>3 DEF Ordered
  <1> QED
    BY <1>1, <1>3, <1>4 DEF Edits

LEMMA EditsNext == IInv /\ Edits /\ [Next]_vars => Edits'
  <1> SUFFICES ASSUME IInv, Edits, [Next]_vars PROVE Edits'
    OBVIOUS
  <1>1. CASE Event
    BY <1>1, EventEdits
  <1>2. CASE \E i \in DOMAIN runs : RunStep(i)
    BY <1>2, RunStepEdits
  <1>3. CASE UNCHANGED vars
    BY <1>3 DEF vars, Edits
  <1> QED
    BY <1>1, <1>2, <1>3 DEF Next, Done

\* Which runs have begun, and what each that reads back has found.
THEOREM EditsOrdered == Safety => []Edits
  BY EditsStart, EditsNext, Invariance, PTL DEF Safety

\* While nothing fails, a metadata edit inherits the success its own pull
\* request has on that head, whatever ran, waited or was cancelled in between
\* (the readback of the select job, proof-slow.yml:49-142, and the concurrency
\* group it waits in, :33-35).
THEOREM EditsInherit == Safety => []EditsCostNothing
  <1>1. Edits => EditsCostNothing
    <2> SUFFICES ASSUME Edits, NEW i \in DOMAIN runs, NEW j \in DOMAIN runs,
                        ~disturbed, j < i, runs[j].pull = runs[i].pull,
                        runs[j].head = runs[i].head, runs[j].state = "success",
                        runs[i].action = "metadata",
                        runs[i].state \in {"success", "failure"}
                 PROVE  \/ runs[i].verdict = "preserved-head" /\ runs[i].nix = "skipped"
                        \/ Cardinality(Prior(runs[i].head)) > PageSize
      BY DEF EditsCostNothing
    <2>1. Told(runs, disturbed, i, runs[i]) /\ Precedes(runs, j, i, runs[i])
      BY DEF Edits, Precedes
    <2>2. /\ runs[i].at = "done" /\ runs[i].verdict = Verdict(runs[i])
          /\ runs[i].select # "cancelled"
      BY <2>1 DEF Told
    <2>3. \/ /\ runs[i].preserved = "true" /\ runs[i].select = "success"
             /\ runs[i].nix = "skipped"
          \/ Cardinality(Succeeded(runs, runs[i].head)) > PageSize
      BY <2>1, <2>2 DEF Told
    <2>4. Succeeded(runs, runs[i].head) = Prior(runs[i].head)
      BY DEF Succeeded, Prior
    <2>5. CASE runs[i].preserved = "true" /\ runs[i].select = "success"
               /\ runs[i].nix = "skipped"
      <3>1. Verdict(runs[i]) = "preserved-head"
        BY <2>5 DEF Verdict
      <3> QED
        BY <2>2, <2>5, <3>1
    <2> QED
      BY <2>3, <2>4, <2>5
  <1> QED
    BY <1>1, EditsOrdered, PTL
=============================================================================
