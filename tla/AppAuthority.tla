---------------------------- MODULE AppAuthority ----------------------------
(***************************************************************************)
(* The authority job (.github/workflows/governor-authority.yml) of every   *)
(* pull request whose head is one given commit, and the check runs that    *)
(* scripts/publish_app_authority.py keeps on that commit.                  *)
(*                                                                         *)
(* Jobs of one pull request are serialized (concurrency group); those of   *)
(* different pull requests interleave between API calls.  A write whose    *)
(* response is lost was applied, or is applied later, or never.            *)
(***************************************************************************)
EXTENDS Naturals, Sequences, FiniteSets

CONSTANTS
  Pulls,       \* pull requests that may have the commit as their head
  MaxEvents,   \* bound on the events that trigger a job
  MaxFailures  \* bound on failed API calls and killed jobs

ASSUME AuthorityAssumption ==
  /\ IsFiniteSet(Pulls)
  /\ MaxEvents \in Nat
  /\ MaxFailures \in Nat

None == "none"
NoRun == 0

RunStates == {"in_progress", "neutral", "failure"}
Results == {"PASS", "FAIL", "INCONCLUSIVE"}

JobStates ==
  {"idle", "gate_first", "gate_second", "start_list", "start_demote",
   "start_write", "check_first", "check_second", "finish_list",
   "finish_demote", "conclude", "readback"}

VARIABLES
  open,     \* open pull requests with this head
  pending,  \* pull requests with a job waiting in their concurrency group
  job,      \* [Pulls -> JobStates]: where the running job is
  listed,   \* what Publisher._existing still has to do with the list it read
  own,      \* run_id returned by Publisher.start
  result,   \* result of validate_immutable_pr_authority
  runs,     \* the App's check runs of this name on the commit, by id
  late,     \* writes that GitHub may still apply
  verdict,  \* how the latest finished job of a pull request ended
  vouched,  \* history: pull requests the immutable validator ever passed
  events,   \* events so far
  failures  \* failed calls and killed jobs so far

vars == <<open, pending, job, listed, own, result, runs, late, verdict,
          vouched, events, failures>>

jobVars == <<job, listed, own, result, verdict>>
hubVars == <<runs, late>>

Idle ==
  [demote |-> {}, admissive |-> {}, repeated |-> FALSE, target |-> NoRun,
   failed |-> FALSE]

Init ==
  /\ open = {}
  /\ pending = {}
  /\ job = [p \in Pulls |-> "idle"]
  /\ listed = [p \in Pulls |-> Idle]
  /\ own = [p \in Pulls |-> NoRun]
  /\ result = [p \in Pulls |-> None]
  /\ runs = <<>>
  /\ late = {}
  /\ verdict = [p \in Pulls |-> None]
  /\ vouched = {}
  /\ events = 0
  /\ failures = 0

-----------------------------------------------------------------------------
(* Pull requests and the events that trigger their jobs *)

\* One job waits per concurrency group; a newer one replaces it.
Trigger(p) ==
  /\ events < MaxEvents
  /\ events' = events + 1
  /\ pending' = pending \cup {p}

Open(p) ==
  /\ p \notin open
  /\ open' = open \cup {p}
  /\ Trigger(p)
  /\ UNCHANGED <<jobVars, hubVars, vouched, failures>>

\* The body is edited, the draft state changes, or a finished job is re-run.
Again(p) ==
  /\ p \in open \/ verdict[p] # None
  /\ Trigger(p)
  /\ UNCHANGED <<open, jobVars, hubVars, vouched, failures>>

\* Closing triggers no job.
Close(p) ==
  /\ p \in open
  /\ open' = open \ {p}
  /\ UNCHANGED <<pending, jobVars, hubVars, vouched, events, failures>>

-----------------------------------------------------------------------------
(* API calls *)

Goto(p, s) == job' = [job EXCEPT ![p] = s]

\* The job is over: how it ended is all that is left of it.
End(p, v) ==
  /\ Goto(p, "idle")
  /\ verdict' = [verdict EXCEPT ![p] = v]
  /\ listed' = [listed EXCEPT ![p] = Idle]
  /\ own' = [own EXCEPT ![p] = NoRun]
  /\ result' = [result EXCEPT ![p] = None]

Fails == failures < MaxFailures /\ failures' = failures + 1

Write(run, p, s) == [run |-> run, pull |-> p, state |-> s]

Apply(w) ==
  runs' = IF w.run = NoRun
          THEN Append(runs, [pull |-> w.pull, state |-> w.state])
          ELSE [runs EXCEPT ![w.run].state = w.state]

\* github_request_json never repeats a POST or a PATCH.
Succeeds(w) == Apply(w) /\ UNCHANGED <<late, failures>>
Breaks(w) ==
  /\ Fails
  /\ \/ Apply(w) /\ UNCHANGED late
     \/ late' = late \cup {w} /\ UNCHANGED runs

\* A write that the client gave up takes effect.
Land ==
  \E w \in late :
    /\ Apply(w)
    /\ late' = late \ {w}
    /\ UNCHANGED <<open, pending, jobVars, vouched, events, failures>>

\* A GET fails twice, or the job is killed (timeout-minutes, a lost runner).
Break(p) ==
  /\ job[p] # "idle"
  /\ Fails
  /\ End(p, "INCONCLUSIVE")
  /\ UNCHANGED <<open, pending, hubVars, vouched, events>>

-----------------------------------------------------------------------------
(* The job *)

StartJob(p) ==
  /\ p \in pending
  /\ job[p] = "idle"
  /\ pending' = pending \ {p}
  /\ Goto(p, "gate_first")
  /\ UNCHANGED <<open, listed, own, result, verdict, hubVars, vouched, events,
                 failures>>

\* _live_snapshot: p is open and no other open pull request has its head.
Authorized(p) == open = {p}

\* validate_pr_authority takes two snapshots.  The evidence it also reads (the
\* commit trailer, the body, the Issue) may make it fail.
Gate(p) ==
  /\ \/ job[p] = "gate_first" /\ Authorized(p) /\ Goto(p, "gate_second")
          /\ UNCHANGED <<listed, own, result, verdict>>
     \/ job[p] = "gate_second" /\ Authorized(p) /\ Goto(p, "start_list")
          /\ UNCHANGED <<listed, own, result, verdict>>
     \/ job[p] \in {"gate_first", "gate_second"} /\ End(p, "FAIL")
  /\ UNCHANGED <<open, pending, hubVars, vouched, events, failures>>

\* Mutant of Existing: the list holds only runs that are not completed.
Existing_Unfinished(p) ==
  LET unfinished == {i \in DOMAIN runs : runs[i].state = "in_progress"}
      matches == {i \in unfinished : runs[i].pull = p}
  IN  [demote |-> unfinished \ matches,
       admissive |-> matches,
       repeated |-> Cardinality(matches) > 1,
       target |-> IF matches = {} THEN NoRun ELSE CHOOSE i \in matches : TRUE,
       failed |-> FALSE]

\* Publisher._existing reads the runs and sorts them: its own, and those of
\* other identities that are not completed failures.
Existing(p) ==
  LET matches == {i \in DOMAIN runs : runs[i].pull = p}
      admissive == {i \in DOMAIN runs : runs[i].state # "failure"}
  IN  [demote |-> admissive \ matches,
       admissive |-> admissive \cap matches,
       repeated |-> Cardinality(matches) > 1,
       target |-> IF matches = {} THEN NoRun ELSE CHOOSE i \in matches : TRUE,
       failed |-> FALSE]

List(p) ==
  /\ \/ job[p] = "start_list" /\ Goto(p, "start_demote")
     \/ job[p] = "finish_list" /\ Goto(p, "finish_demote")
  /\ listed' = [listed EXCEPT ![p] = Existing(p)]
  /\ UNCHANGED <<open, pending, own, result, verdict, hubVars, vouched, events,
                 failures>>

Demoting(p) == job[p] \in {"start_demote", "finish_demote"}

\* Publisher._demote fails one run after the other and remembers an error.
Demote(p) ==
  /\ Demoting(p)
  /\ \E i \in listed[p].demote :
       LET w == Write(i, runs[i].pull, "failure")
           left == [listed[p] EXCEPT !.demote = @ \ {i}]
       IN  \/ Succeeds(w) /\ listed' = [listed EXCEPT ![p] = left]
           \/ Breaks(w)
                /\ listed' = [listed EXCEPT ![p] = [left EXCEPT !.failed = TRUE]]
  /\ UNCHANGED <<open, pending, job, own, result, verdict, vouched, events>>

\* Every demotion is done: an error, an ambiguous identity (whose own runs are
\* demoted first) or, at the end, another run than its own stops the publisher.
Resolve(p) ==
  /\ Demoting(p)
  /\ listed[p].demote = {}
  /\ LET ambiguous == ~listed[p].failed /\ listed[p].repeated
         clear == ~listed[p].failed /\ ~listed[p].repeated
         Proceed(s) == Goto(p, s) /\ UNCHANGED <<listed, own, result, verdict>>
     IN  \/ listed[p].failed /\ End(p, "INCONCLUSIVE")
         \/ ambiguous /\ listed[p].admissive = {} /\ End(p, "INCONCLUSIVE")
         \/ /\ ambiguous /\ listed[p].admissive # {}
            /\ listed' = [listed EXCEPT ![p] =
                 [@ EXCEPT !.demote = listed[p].admissive, !.admissive = {}]]
            /\ UNCHANGED <<job, own, result, verdict>>
         \/ clear /\ job[p] = "start_demote" /\ Proceed("start_write")
         \/ clear /\ job[p] = "finish_demote" /\ listed[p].target = own[p]
              /\ Proceed("conclude")
         \/ clear /\ job[p] = "finish_demote" /\ listed[p].target # own[p]
              /\ End(p, "INCONCLUSIVE")
  /\ UNCHANGED <<open, pending, hubVars, vouched, events, failures>>

\* Publisher.start creates the run or reuses the existing one.
StartRun(p) ==
  /\ job[p] = "start_write"
  /\ LET w == Write(listed[p].target, p, "in_progress")
     IN  \/ Succeeds(w)
              /\ own' = [own EXCEPT ![p] =
                   IF w.run = NoRun THEN Len(runs) + 1 ELSE w.run]
              /\ listed' = [listed EXCEPT ![p] = Idle]
              /\ Goto(p, "check_first")
              /\ UNCHANGED <<result, verdict>>
         \/ Breaks(w) /\ End(p, "INCONCLUSIVE")
  /\ UNCHANGED <<open, pending, vouched, events>>

Finishes(p, r) ==
  /\ result' = [result EXCEPT ![p] = r]
  /\ Goto(p, "finish_list")
  /\ UNCHANGED <<listed, own, verdict>>

\* validate_immutable_pr_authority: the same two snapshots without the body.
Check(p) ==
  /\ \/ job[p] = "check_first" /\ Authorized(p) /\ Goto(p, "check_second")
          /\ UNCHANGED <<listed, own, result, verdict, vouched, failures>>
     \/ job[p] = "check_second" /\ Authorized(p) /\ Finishes(p, "PASS")
          /\ vouched' = vouched \cup {p} /\ UNCHANGED failures
     \/ job[p] \in {"check_first", "check_second"} /\ Finishes(p, "FAIL")
          /\ UNCHANGED <<vouched, failures>>
     \/ job[p] \in {"check_first", "check_second"} /\ Fails
          /\ Finishes(p, "INCONCLUSIVE") /\ UNCHANGED vouched
  /\ UNCHANGED <<open, pending, hubVars, events>>

\* Mutant of Conclusion: only a definite rejection fails the check.
Conclusion_Lenient(r) == IF r = "FAIL" THEN "failure" ELSE "neutral"

Conclusion(r) == IF r = "PASS" THEN "neutral" ELSE "failure"

\* Publisher.finish: the PATCH, whose response is checked.
Conclude(p) ==
  /\ job[p] = "conclude"
  /\ LET w == Write(own[p], p, Conclusion(result[p]))
     IN  \/ Succeeds(w) /\ Goto(p, "readback")
              /\ UNCHANGED <<listed, own, result, verdict>>
         \/ Breaks(w) /\ End(p, "INCONCLUSIVE")
  /\ UNCHANGED <<open, pending, vouched, events>>

\* Mutant of Readback: the answer to the GET is not compared.
Readback_Unchecked(p) ==
  /\ job[p] = "readback"
  /\ End(p, result[p])
  /\ UNCHANGED <<open, pending, hubVars, vouched, events, failures>>

\* Mutant of Readback: it is repeated until the run says what was written.
Readback_Polls(p) ==
  /\ job[p] = "readback"
  /\ runs[own[p]].state = Conclusion(result[p])
  /\ End(p, result[p])
  /\ UNCHANGED <<open, pending, hubVars, vouched, events, failures>>

\* ... and the GET that reads it back.
Readback(p) ==
  /\ job[p] = "readback"
  /\ IF runs[own[p]].state = Conclusion(result[p])
     THEN End(p, result[p]) ELSE End(p, "INCONCLUSIVE")
  /\ UNCHANGED <<open, pending, hubVars, vouched, events, failures>>

JobStep(p) ==
  \/ Gate(p) \/ List(p) \/ Demote(p) \/ Resolve(p)
  \/ StartRun(p) \/ Check(p) \/ Conclude(p) \/ Readback(p)

\* Nothing is left to happen: every job is over and no event can come.
Quiet ==
  /\ \A p \in Pulls : job[p] = "idle"
  /\ pending = {} /\ late = {} /\ events = MaxEvents
  /\ UNCHANGED vars

Next ==
  \/ \E p \in Pulls :
       \/ Open(p) \/ Again(p) \/ Close(p)
       \/ StartJob(p) \/ JobStep(p) \/ Break(p)
  \/ Land
  \/ Quiet

\* A runner takes the waiting job and runs it; requests have a timeout.
Fairness == \A p \in Pulls : WF_vars(StartJob(p)) /\ WF_vars(JobStep(p))

Safety == Init /\ [][Next]_vars
Spec == Safety /\ Fairness

-----------------------------------------------------------------------------
(* Properties *)

Lists == [demote : SUBSET Nat, admissive : SUBSET Nat, repeated : BOOLEAN,
          target : Nat, failed : BOOLEAN]
Writes == [run : Nat, pull : Pulls, state : RunStates]

TypeOK ==
  /\ open \subseteq Pulls /\ pending \subseteq Pulls /\ vouched \subseteq Pulls
  /\ job \in [Pulls -> JobStates]
  /\ listed \in [Pulls -> Lists]
  /\ \A p \in Pulls :
       /\ listed[p].demote \cup listed[p].admissive \subseteq DOMAIN runs
       /\ listed[p].target \in {NoRun} \cup DOMAIN runs
  /\ own \in [Pulls -> {NoRun} \cup DOMAIN runs]
  /\ result \in [Pulls -> {None} \cup Results]
  /\ runs \in Seq([pull : Pulls, state : RunStates])
  /\ late \subseteq Writes
  /\ \A w \in late : w.run \in {NoRun} \cup DOMAIN runs
  /\ verdict \in [Pulls -> {None} \cup Results]
  /\ events \in 0..MaxEvents
  /\ failures \in 0..MaxFailures

\* Whatever is lost, late or repeated, an admitted check run belongs to a pull
\* request that the immutable validator passed (Publisher.finish).
NeutralVouched ==
  \A i \in DOMAIN runs : runs[i].state = "neutral" => runs[i].pull \in vouched

\* A lost or late creation may leave two runs of one identity, but never two
\* that admit: ambiguity stops every later publisher (Publisher._existing).
OneNeutralPerIdentity ==
  \A i, j \in DOMAIN runs :
    runs[i].pull = runs[j].pull /\ runs[i].state = "neutral"
      /\ runs[j].state = "neutral" => i = j

\* A publisher reports PASS or FAIL only when its own run then says so, however
\* other publishers and late writes interfered (the read-back of finish).
ReportWitnessed ==
  [][\A p \in Pulls :
       job[p] = "readback" /\ verdict'[p] \in {"PASS", "FAIL"} /\ job'[p] = "idle"
         => /\ runs'[own[p]].state = Conclusion(verdict'[p])
            /\ runs'[own[p]].pull = p]_vars

-----------------------------------------------------------------------------
(* The inductive invariant *)

\* The runs of a pull request that admit it, or may when a late write lands.
Nominees(p) ==
  {i \in DOMAIN runs : runs[i].pull = p /\ runs[i].state = "neutral"}
    \cup {w.run : w \in {v \in late : v.pull = p /\ v.state = "neutral"}}

\* A write keeps the identity of its run; only vouched ones are made neutral.
WriteOK(w) ==
  /\ w.run # NoRun => runs[w.run].pull = w.pull
  /\ w.state = "neutral" => w.run # NoRun /\ w.pull \in vouched

Owning == {"check_first", "check_second", "finish_list", "finish_demote",
           "conclude", "readback"}

JobOK(p) ==
  /\ own[p] # NoRun => runs[own[p]].pull = p
  /\ listed[p].target # NoRun => runs[listed[p].target].pull = p
  /\ result[p] = "PASS" => p \in vouched
  /\ job[p] \in Owning => own[p] # NoRun
  /\ job[p] = "finish_demote" /\ ~listed[p].repeated =>
       Nominees(p) \subseteq {listed[p].target}
  /\ job[p] = "conclude" => Nominees(p) \subseteq {own[p]}

OneNominee(p) == \A a, b \in Nominees(p) : a = b

IInv ==
  /\ TypeOK
  /\ NeutralVouched
  /\ \A w \in late : WriteOK(w)
  /\ \A p \in Pulls : JobOK(p) /\ OneNominee(p)

\* Every job ends, and then the next one of its pull request can run.
JobsEnd == \A p \in Pulls : job[p] # "idle" ~> job[p] = "idle"

\* Contract of publish_app_authority.py: the authoritative check is unique.
OneNeutralPerHead ==
  Cardinality({i \in DOMAIN runs : runs[i].state = "neutral"}) <= 1
=============================================================================
