------------------------- MODULE AppAuthorityProofs -------------------------
(***************************************************************************)
(* Safety of the App's check runs for every set of pull requests and every *)
(* number of events and failures.                                          *)
(***************************************************************************)
EXTENDS AppAuthority, FiniteSetTheorems, SequenceTheorems, TLAPS

Identities == [pull : Pulls, state : RunStates]

\* The part of the state that a step of one job, or a late write, may not
\* disturb for the others.
Kept ==
  /\ DOMAIN runs \subseteq DOMAIN runs'
  /\ \A i \in DOMAIN runs : runs'[i].pull = runs[i].pull
  /\ vouched \subseteq vouched'

\* What a job knows stays right if it does not move and nothing is nominated.
LEMMA JobKept ==
  ASSUME IInv, Kept, NEW p \in Pulls,
         job'[p] = job[p], listed'[p] = listed[p], own'[p] = own[p],
         result'[p] = result[p], Nominees(p)' \subseteq Nominees(p)
  PROVE  JobOK(p)' /\ OneNominee(p)'
  <1>1. JobOK(p) /\ OneNominee(p)
    BY DEF IInv
  <1>2. own[p] \in {NoRun} \cup DOMAIN runs
        /\ listed[p].target \in {NoRun} \cup DOMAIN runs
    BY DEF IInv, TypeOK
  <1>3. /\ own'[p] # NoRun => runs'[own'[p]].pull = p
        /\ listed'[p].target # NoRun => runs'[listed'[p].target].pull = p
    BY <1>1, <1>2 DEF JobOK, Kept
  <1>4. result'[p] = "PASS" => p \in vouched'
    BY <1>1 DEF JobOK, Kept
  <1>5. /\ job'[p] \in Owning => own'[p] # NoRun
        /\ job'[p] = "finish_demote" /\ ~listed'[p].repeated =>
             Nominees(p)' \subseteq {listed'[p].target}
        /\ job'[p] = "conclude" => Nominees(p)' \subseteq {own'[p]}
    BY <1>1 DEF JobOK
  <1>6. OneNominee(p)'
    BY <1>1 DEF OneNominee
  <1> QED
    BY <1>3, <1>4, <1>5, <1>6 DEF JobOK

LEMMA SameNominees ==
  ASSUME NEW p \in Pulls, UNCHANGED hubVars
  PROVE  Nominees(p)' = Nominees(p)
  BY DEF Nominees, hubVars

\* A write that is applied now, later or never.
LEMMA WriteStep ==
  ASSUME IInv, NEW w \in Writes, w.run \in {NoRun} \cup DOMAIN runs, WriteOK(w),
         Apply(w) \/ runs' = runs, late' \subseteq late \cup {w},
         vouched' = vouched
  PROVE  /\ Kept
         /\ runs' \in Seq(Identities)
         /\ late' \subseteq Writes
         /\ \A v \in late' : v.run \in {NoRun} \cup DOMAIN runs'
         /\ \A v \in late' : WriteOK(v)'
         /\ NeutralVouched'
         /\ \A p \in Pulls : \A n \in Nominees(p)' :
              n \in Nominees(p) \/ (w.state = "neutral" /\ w.pull = p /\ n = w.run)
         /\ Apply(w) /\ w.run = NoRun =>
              Len(runs) + 1 \in DOMAIN runs' /\ runs'[Len(runs) + 1].pull = w.pull
  <1>1. /\ runs \in Seq(Identities) /\ Len(runs) \in Nat
        /\ DOMAIN runs = 1..Len(runs)
        /\ late \subseteq Writes /\ \A v \in late : WriteOK(v)
        /\ \A v \in late : v.run \in {NoRun} \cup DOMAIN runs
    BY DEF IInv, TypeOK, Identities
  <1>2. /\ w.run \in Nat /\ w.pull \in Pulls /\ w.state \in RunStates
        /\ w.run # NoRun => w.run \in DOMAIN runs /\ runs[w.run].pull = w.pull
        /\ w.state = "neutral" => w.run # NoRun /\ w.pull \in vouched
    BY DEF Writes, WriteOK
  <1> DEFINE new == [pull |-> w.pull, state |-> w.state]
  <1>3. new \in Identities /\ new.pull = w.pull
    BY <1>2 DEF Identities
  <1>4. ASSUME Apply(w), w.run = NoRun
         PROVE  /\ runs' \in Seq(Identities) /\ DOMAIN runs' = 1..(Len(runs) + 1)
                /\ \A i \in 1..Len(runs) : runs'[i] = runs[i]
                /\ runs'[Len(runs) + 1] = new
    <2>1. runs' = Append(runs, new)
      BY <1>4 DEF Apply
    <2> HIDE DEF new
    <2>2. runs \in Seq(Identities) /\ new \in Identities
      BY <1>1, <1>3
    <2>3. /\ runs' \in Seq(Identities)
          /\ Len(runs') = Len(runs) + 1
          /\ \A i \in 1..Len(runs) : runs'[i] = runs[i]
          /\ runs'[Len(runs) + 1] = new
      BY <2>1, <2>2, AppendProperties
    <2>4. DOMAIN runs' = 1..(Len(runs) + 1)
      BY <1>1, <2>3
    <2> QED
      BY <2>3, <2>4
  <1>5. /\ runs' \in Seq(Identities)
        /\ DOMAIN runs \subseteq DOMAIN runs'
        /\ \A i \in DOMAIN runs : runs'[i].pull = runs[i].pull
        /\ \A i \in DOMAIN runs' : runs'[i].state = "neutral" =>
             \/ i \in DOMAIN runs /\ runs[i].state = "neutral"
             \/ i \in DOMAIN runs /\ i = w.run /\ w.state = "neutral"
    <2>1. CASE runs' = runs
      BY <1>1, <2>1
    <2>2. CASE Apply(w) /\ w.run = NoRun
      <3>1. new.state # "neutral"
        BY <1>2, <2>2
      <3> HIDE DEF new
      <3>2. /\ runs' \in Seq(Identities) /\ DOMAIN runs' = 1..(Len(runs) + 1)
            /\ \A i \in 1..Len(runs) : runs'[i] = runs[i]
            /\ runs'[Len(runs) + 1] = new
        BY <1>4, <2>2
      <3>3. \A i \in DOMAIN runs' : i \in DOMAIN runs \/ i = Len(runs) + 1
        BY <1>1, <3>2
      <3>4. DOMAIN runs \subseteq DOMAIN runs'
        BY <1>1, <3>2
      <3> QED
        BY <1>1, <3>1, <3>2, <3>3, <3>4
    <2>3. CASE Apply(w) /\ w.run # NoRun
      <3>1. runs' = [runs EXCEPT ![w.run].state = w.state]
        BY <2>3 DEF Apply
      <3>2. w.run \in DOMAIN runs
        BY <1>2, <2>3
      <3>3. \A i \in DOMAIN runs :
              runs'[i] = IF i = w.run THEN [runs[i] EXCEPT !.state = w.state]
                         ELSE runs[i]
        BY <3>1, <3>2
      <3>4. \A i \in DOMAIN runs : runs[i] \in Identities
        BY <1>1
      <3>5. \A i \in DOMAIN runs : runs'[i] \in Identities
        BY <1>2, <3>3, <3>4 DEF Identities
      <3>6. DOMAIN runs' = DOMAIN runs
        BY <3>1
      <3>7. runs' \in Seq(Identities)
        <4>1. runs' = [i \in 1..Len(runs) |-> runs'[i]]
          BY <1>1, <3>1
        <4> QED
          BY <1>1, <3>5, <4>1
      <3>8. \A i \in DOMAIN runs : /\ runs'[i].pull = runs[i].pull
                                   /\ i # w.run => runs'[i].state = runs[i].state
                                   /\ i = w.run => runs'[i].state = w.state
        BY <3>3, <3>4 DEF Identities
      <3> QED
        BY <3>6, <3>7, <3>8
    <2> QED
      BY <2>1, <2>2, <2>3
  <1>6. Kept
    BY <1>5 DEF Kept
  <1>7. late' \subseteq Writes /\ \A v \in late' : v.run \in {NoRun} \cup DOMAIN runs'
    BY <1>1, <1>5
  <1>8. \A v \in late' : WriteOK(v)'
    <2>1. SUFFICES ASSUME NEW v \in late' PROVE WriteOK(v)'
      OBVIOUS
    <2>2. WriteOK(v) /\ v.run \in {NoRun} \cup DOMAIN runs
      BY <1>1
    <2> QED
      BY <1>5, <2>2 DEF WriteOK
  <1>9. NeutralVouched'
    BY <1>1, <1>2, <1>5 DEF IInv, NeutralVouched
  <1>10. ASSUME NEW p \in Pulls, NEW n \in Nominees(p)'
        PROVE  n \in Nominees(p) \/ (w.state = "neutral" /\ w.pull = p /\ n = w.run)
    <2>1. CASE n \in DOMAIN runs' /\ runs'[n].pull = p /\ runs'[n].state = "neutral"
      BY <1>1, <1>2, <1>5, <2>1 DEF Nominees
    <2>2. CASE \E v \in late' : v.pull = p /\ v.state = "neutral" /\ n = v.run
      BY <2>2 DEF Nominees
    <2> QED
      BY <1>10, <2>1, <2>2 DEF Nominees
  <1>11. ASSUME Apply(w), w.run = NoRun
         PROVE  Len(runs) + 1 \in DOMAIN runs' /\ runs'[Len(runs) + 1].pull = w.pull
    <2> HIDE DEF new
    <2> QED
      BY <1>1, <1>3, <1>11, <1>4
  <1> QED
    BY <1>5, <1>6, <1>7, <1>8, <1>9, <1>10, <1>11

\* The jobs of the other pull requests do not move.
Others(p) ==
  \A q \in Pulls \ {p} :
    /\ job'[q] = job[q] /\ listed'[q] = listed[q]
    /\ own'[q] = own[q] /\ result'[q] = result[q]

\* A step of one job that nominates no run of another pull request.
LEMMA JobFrame ==
  ASSUME IInv, NEW p \in Pulls, Others(p), Kept, TypeOK', NeutralVouched',
         \A w \in late' : WriteOK(w)',
         \A q \in Pulls \ {p} : Nominees(q)' \subseteq Nominees(q),
         JobOK(p)', OneNominee(p)'
  PROVE  IInv'
  <1>1. ASSUME NEW q \in Pulls PROVE JobOK(q)' /\ OneNominee(q)'
    <2>1. CASE q = p
      BY <2>1
    <2>2. CASE q # p
      <3>1. /\ job'[q] = job[q] /\ listed'[q] = listed[q]
            /\ own'[q] = own[q] /\ result'[q] = result[q]
        BY <2>2 DEF Others
      <3>2. Nominees(q)' \subseteq Nominees(q)
        BY <2>2
      <3> QED
        BY <3>1, <3>2, JobKept
    <2> QED
      BY <2>1, <2>2
  <1> QED
    BY <1>1 DEF IInv

\* A step that writes no check run keeps what is said of them.
LEMMA NoWrite ==
  ASSUME IInv, UNCHANGED hubVars, vouched \subseteq vouched'
  PROVE  /\ Kept /\ NeutralVouched'
         /\ \A w \in late' : WriteOK(w)'
         /\ \A q \in Pulls : Nominees(q)' = Nominees(q)
  <1>1. Kept
    BY DEF Kept, hubVars
  <1>2. NeutralVouched'
    BY DEF IInv, NeutralVouched, hubVars
  <1>3. \A w \in late' : WriteOK(w)'
    BY DEF IInv, WriteOK, hubVars
  <1> QED
    BY <1>1, <1>2, <1>3, SameNominees

LEMMA ReadFrame ==
  ASSUME IInv, NEW p \in Pulls, UNCHANGED hubVars, vouched \subseteq vouched',
         Others(p), TypeOK', JobOK(p)'
  PROVE  IInv'
  <1>1. /\ Kept /\ NeutralVouched'
        /\ \A w \in late' : WriteOK(w)'
        /\ \A q \in Pulls : Nominees(q)' = Nominees(q)
    BY NoWrite
  <1>2. OneNominee(p)'
    BY <1>1 DEF IInv, OneNominee
  <1> QED
    BY <1>1, <1>2, JobFrame

\* The part of TypeOK about the jobs, over the runs that exist now.
JobTypes ==
  /\ job \in [Pulls -> JobStates]
  /\ listed \in [Pulls -> Lists]
  /\ \A p \in Pulls :
       /\ listed[p].demote \cup listed[p].admissive \subseteq DOMAIN runs
       /\ listed[p].target \in {NoRun} \cup DOMAIN runs
  /\ own \in [Pulls -> {NoRun} \cup DOMAIN runs]
  /\ result \in [Pulls -> {None} \cup Results]
  /\ verdict \in [Pulls -> {None} \cup Results]

\* A job that ends leaves nothing behind.
LEMMA JobEnds ==
  ASSUME IInv, NEW p \in Pulls, NEW v \in {None} \cup Results, End(p, v),
         DOMAIN runs \subseteq DOMAIN runs'
  PROVE  Others(p) /\ JobTypes' /\ JobOK(p)'
  <1>1. JobTypes
    BY DEF IInv, TypeOK, JobTypes
  <1>2. Others(p)
    BY <1>1 DEF End, Goto, Others, JobTypes
  <1>3. /\ job'[p] = "idle" /\ listed'[p] = Idle
        /\ own'[p] = NoRun /\ result'[p] = None
    BY <1>1 DEF End, Goto, JobTypes
  <1>4. /\ job' \in [Pulls -> JobStates]
        /\ result' \in [Pulls -> {None} \cup Results]
        /\ verdict' \in [Pulls -> {None} \cup Results]
        /\ own' \in [Pulls -> {NoRun} \cup DOMAIN runs']
    BY <1>1 DEF End, Goto, JobTypes, JobStates
  <1>5. Idle \in Lists
    BY DEF Idle, Lists, NoRun
  <1>6. listed' \in [Pulls -> Lists]
    BY <1>1, <1>5 DEF End, JobTypes
  <1>7. \A q \in Pulls :
          /\ listed'[q].demote \cup listed'[q].admissive \subseteq DOMAIN runs'
          /\ listed'[q].target \in {NoRun} \cup DOMAIN runs'
    BY <1>1, <1>2, <1>3 DEF JobTypes, Others, Idle
  <1>8. JobOK(p)'
    BY <1>3 DEF JobOK, Idle, Owning, None
  <1> QED
    BY <1>2, <1>4, <1>6, <1>7, <1>8 DEF JobTypes

LEMMA InitInv == Init => IInv
  <1> SUFFICES ASSUME Init PROVE IInv
    OBVIOUS
  <1>1. runs = <<>> /\ DOMAIN runs = {} /\ late = {}
    BY DEF Init
  <1>2. Idle \in Lists
    BY DEF Idle, Lists, NoRun
  <1>3. TypeOK
    <2>1. /\ listed \in [Pulls -> Lists]
          /\ \A p \in Pulls : listed[p] = Idle
      BY <1>2 DEF Init
    <2>2. /\ \A p \in Pulls :
               /\ listed[p].demote \cup listed[p].admissive \subseteq DOMAIN runs
               /\ listed[p].target \in {NoRun} \cup DOMAIN runs
      BY <2>1 DEF Idle
    <2>3. /\ job \in [Pulls -> JobStates]
          /\ own \in [Pulls -> {NoRun} \cup DOMAIN runs]
          /\ result \in [Pulls -> {None} \cup Results]
          /\ verdict \in [Pulls -> {None} \cup Results]
      BY DEF Init, JobStates
    <2>4. runs \in Seq([pull : Pulls, state : RunStates])
      BY <1>1
    <2>5. events \in 0..MaxEvents /\ failures \in 0..MaxFailures
      BY AuthorityAssumption DEF Init
    <2> QED
      BY <1>1, <2>1, <2>2, <2>3, <2>4, <2>5 DEF TypeOK, Init
  <1>4. NeutralVouched
    BY <1>1 DEF NeutralVouched
  <1>5. \A p \in Pulls : Nominees(p) = {}
    BY <1>1 DEF Nominees
  <1>6. \A p \in Pulls : JobOK(p)
    BY DEF Init, JobOK, Idle, Owning, None
  <1>7. \A p \in Pulls : OneNominee(p)
    BY <1>5 DEF OneNominee
  <1> QED
    BY <1>1, <1>3, <1>4, <1>6, <1>7 DEF IInv

\* A pull request changes; no job does.
LEMMA EventInv ==
  ASSUME IInv, NEW p \in Pulls, Open(p) \/ Again(p) \/ Close(p)
  PROVE  IInv'
  <1>1. UNCHANGED <<jobVars, hubVars, vouched, failures>>
    BY DEF Open, Again, Close
  <1>2. open' \subseteq Pulls /\ pending' \subseteq Pulls /\ events' \in 0..MaxEvents
    BY AuthorityAssumption DEF IInv, TypeOK, Open, Again, Close, Trigger
  <1>3. TypeOK'
    BY <1>1, <1>2 DEF IInv, TypeOK, jobVars, hubVars
  <1>4. Others(p)
    BY <1>1 DEF Others, jobVars
  <1>5. JobOK(p)'
    BY <1>1 DEF IInv, JobOK, jobVars, hubVars, Nominees
  <1> QED
    BY <1>1, <1>3, <1>4, <1>5, ReadFrame

\* A step that only moves the job, not to where it would own a run or conclude.
LEMMA MoveInv ==
  ASSUME IInv, NEW p \in Pulls, NEW s \in JobStates, Goto(p, s),
         UNCHANGED <<listed, own, result, verdict, hubVars>>,
         vouched' = vouched,
         s \in Owning => job[p] \in Owning /\ s # "finish_demote",
         s = "conclude" => Nominees(p) \subseteq {own[p]}
  PROVE  Others(p) /\ JobTypes' /\ JobOK(p)'
  <1>1. JobTypes /\ JobOK(p)
    BY DEF IInv, TypeOK, JobTypes
  <1>2. JobTypes' /\ Others(p) /\ job'[p] = s
    BY <1>1 DEF JobTypes, Others, Goto, hubVars
  <1>3. Nominees(p)' = Nominees(p)
    BY SameNominees
  <1> QED
    BY <1>1, <1>2, <1>3 DEF JobOK, hubVars, Owning

LEMMA StartJobInv ==
  ASSUME IInv, NEW p \in Pulls, StartJob(p)
  PROVE  IInv'
  <1>1. Others(p) /\ JobTypes' /\ JobOK(p)'
    BY MoveInv DEF StartJob, JobStates, Owning
  <1>2. TypeOK'
    BY <1>1 DEF IInv, TypeOK, JobTypes, StartJob, hubVars
  <1> QED
    BY <1>1, <1>2, ReadFrame DEF StartJob

LEMMA GateInv ==
  ASSUME IInv, NEW p \in Pulls, Gate(p)
  PROVE  IInv'
  <1>1. UNCHANGED <<open, pending, hubVars, vouched, events, failures>>
    BY DEF Gate
  <1>2. Others(p) /\ JobTypes' /\ JobOK(p)'
    <2>1. CASE /\ \/ Goto(p, "gate_second")
                  \/ Goto(p, "start_list")
               /\ UNCHANGED <<listed, own, result, verdict>>
      BY <1>1, <2>1, MoveInv DEF JobStates, Owning
    <2>2. CASE End(p, "FAIL")
      BY <1>1, <2>2, JobEnds DEF Results, hubVars
    <2> QED
      BY <2>1, <2>2 DEF Gate
  <1>3. TypeOK'
    BY <1>1, <1>2 DEF IInv, TypeOK, JobTypes, hubVars
  <1> QED
    BY <1>1, <1>2, <1>3, ReadFrame

LEMMA BreakInv ==
  ASSUME IInv, NEW p \in Pulls, Break(p)
  PROVE  IInv'
  <1>1. /\ UNCHANGED <<open, pending, hubVars, vouched, events>>
        /\ End(p, "INCONCLUSIVE") /\ Fails
    BY DEF Break
  <1>2. Others(p) /\ JobTypes' /\ JobOK(p)'
    BY <1>1, JobEnds DEF Results, hubVars
  <1>3. failures' \in 0..MaxFailures
    BY <1>1, AuthorityAssumption DEF IInv, TypeOK, Fails
  <1>4. TypeOK'
    BY <1>1, <1>2, <1>3 DEF IInv, TypeOK, JobTypes, hubVars
  <1> QED
    BY <1>1, <1>2, <1>4, ReadFrame

LEMMA ReadbackInv ==
  ASSUME IInv, NEW p \in Pulls, Readback(p)
  PROVE  IInv'
  <1>1. UNCHANGED <<open, pending, hubVars, vouched, events, failures>>
    BY DEF Readback
  <1>2. result[p] \in {None} \cup Results
    BY DEF IInv, TypeOK
  <1>3. Others(p) /\ JobTypes' /\ JobOK(p)'
    <2>1. CASE End(p, result[p])
      BY <1>1, <1>2, <2>1, JobEnds DEF hubVars
    <2>2. CASE End(p, "INCONCLUSIVE")
      BY <1>1, <2>2, JobEnds DEF Results, hubVars
    <2> QED
      BY <2>1, <2>2 DEF Readback
  <1>4. TypeOK'
    BY <1>1, <1>3 DEF IInv, TypeOK, JobTypes, hubVars
  <1> QED
    BY <1>1, <1>3, <1>4, ReadFrame

LEMMA CheckInv ==
  ASSUME IInv, NEW p \in Pulls, Check(p)
  PROVE  IInv'
  <1>1. /\ UNCHANGED <<open, pending, hubVars, events>>
        /\ vouched \subseteq vouched' /\ vouched' \subseteq Pulls
        /\ failures' \in 0..MaxFailures
    BY AuthorityAssumption DEF IInv, TypeOK, Check, Fails
  <1>2. Others(p) /\ JobTypes' /\ JobOK(p)'
    <2>1. CASE /\ job[p] = "check_first" /\ Goto(p, "check_second")
               /\ UNCHANGED <<listed, own, result, verdict, vouched>>
      BY <1>1, <2>1, MoveInv DEF JobStates, Owning
    <2>2. CASE \E r \in Results :
                 /\ Finishes(p, r)
                 /\ r = "PASS" => p \in vouched'
                 /\ job[p] \in {"check_first", "check_second"}
      <3>1. PICK r \in Results : /\ Finishes(p, r)
                                 /\ r = "PASS" => p \in vouched'
                                 /\ job[p] \in {"check_first", "check_second"}
        BY <2>2
      <3>2. JobTypes /\ JobOK(p)
        BY DEF IInv, TypeOK, JobTypes
      <3>3. JobTypes' /\ Others(p) /\ job'[p] = "finish_list" /\ result'[p] = r
        BY <1>1, <3>1, <3>2 DEF JobTypes, Others, Finishes, Goto, hubVars, JobStates
      <3> QED
        BY <1>1, <3>1, <3>2, <3>3 DEF JobOK, Finishes, Owning, hubVars
    <2> QED
      BY <2>1, <2>2 DEF Check, Results
  <1>3. TypeOK'
    BY <1>1, <1>2 DEF IInv, TypeOK, JobTypes, hubVars
  <1> QED
    BY <1>1, <1>2, <1>3, ReadFrame

\* The list that was read is right about the runs that exist then: if it finds
\* at most one run of p, no other run can admit p.
LEMMA ExistingRight ==
  ASSUME IInv, NEW p \in Pulls
  PROVE  /\ Existing(p) \in Lists
         /\ Existing(p).demote \cup Existing(p).admissive \subseteq DOMAIN runs
         /\ Existing(p).target \in {NoRun} \cup DOMAIN runs
         /\ Existing(p).target # NoRun => runs[Existing(p).target].pull = p
         /\ ~Existing(p).repeated => Nominees(p) \subseteq {Existing(p).target}
  <1> DEFINE matches == {i \in DOMAIN runs : runs[i].pull = p}
             admissive == {i \in DOMAIN runs : runs[i].state # "failure"}
             first == IF matches = {} THEN NoRun ELSE CHOOSE i \in matches : TRUE
  <1>1. runs \in Seq(Identities) /\ Len(runs) \in Nat /\ DOMAIN runs = 1..Len(runs)
    BY DEF IInv, TypeOK, Identities
  <1>2. /\ Existing(p).demote = admissive \ matches
        /\ Existing(p).admissive = admissive \cap matches
        /\ Existing(p).repeated = (Cardinality(matches) > 1)
        /\ Existing(p).target = first
    BY DEF Existing
  <1>3. IsFiniteSet(matches)
    <2>1. IsFiniteSet(1..Len(runs))
      BY <1>1, FS_Interval
    <2>2. matches \in SUBSET (1..Len(runs))
      BY <1>1
    <2> QED
      BY <2>1, <2>2, FS_Subset
  <1>4. first \in {NoRun} \cup DOMAIN runs /\ first \in Nat
    BY <1>1 DEF NoRun
  <1>5. first # NoRun => first \in matches
    OBVIOUS
  <1>6. Nominees(p) \subseteq matches
    <2>1. \A w \in late : w.state = "neutral" /\ w.pull = p =>
            w.run \in DOMAIN runs /\ runs[w.run].pull = p
      BY DEF IInv, TypeOK, WriteOK
    <2> QED
      BY <2>1 DEF Nominees
  <1>7. ASSUME ~(Cardinality(matches) > 1) PROVE matches \subseteq {first}
    <2>1. SUFFICES ASSUME NEW i \in matches, NEW j \in matches, i # j PROVE FALSE
      OBVIOUS
    <2> HIDE DEF matches
    <2>2. IsFiniteSet({i, j}) /\ Cardinality({i, j}) = 2
      <3>1. IsFiniteSet({i}) /\ Cardinality({i}) = 1
        BY FS_Singleton
      <3>2. Cardinality({i} \cup {j}) = 2 /\ IsFiniteSet({i} \cup {j})
        BY <2>1, <3>1, FS_AddElement
      <3>3. {i} \cup {j} = {i, j}
        OBVIOUS
      <3> QED
        BY <3>2, <3>3
    <2>3. {i, j} \in SUBSET matches
      OBVIOUS
    <2>4. Cardinality({i, j}) <= Cardinality(matches) /\ Cardinality(matches) \in Nat
      BY <1>3, <2>3, FS_Subset, FS_CardinalityType
    <2> QED
      BY <1>7, <2>2, <2>4
  <1>8. Existing(p) \in Lists
    <2>1. admissive \ matches \in SUBSET Nat /\ admissive \cap matches \in SUBSET Nat
      BY <1>1
    <2> HIDE DEF matches, admissive, first
    <2>2. (Cardinality(matches) > 1) \in BOOLEAN
      BY <1>3, FS_CardinalityType
    <2>3. Existing(p) = [demote |-> admissive \ matches,
                         admissive |-> admissive \cap matches,
                         repeated |-> Cardinality(matches) > 1,
                         target |-> first, failed |-> FALSE]
      BY Zenon DEF Existing, matches, admissive, first
    <2> QED
      BY <1>4, <2>1, <2>2, <2>3 DEF Lists
  <1>9. first # NoRun => runs[first].pull = p
    BY <1>5
  <1> HIDE DEF first
  <1>10. ~Existing(p).repeated => Nominees(p) \subseteq {Existing(p).target}
    BY <1>2, <1>6, <1>7
  <1>11. Existing(p).demote \cup Existing(p).admissive \subseteq DOMAIN runs
    BY <1>2
  <1> QED
    BY <1>2, <1>4, <1>8, <1>9, <1>10, <1>11

LEMMA ListInv ==
  ASSUME IInv, NEW p \in Pulls, List(p)
  PROVE  IInv'
  <1>1. /\ UNCHANGED <<open, pending, own, result, verdict, hubVars, vouched,
                       events, failures>>
        /\ listed' = [listed EXCEPT ![p] = Existing(p)]
    BY DEF List
  <1>2. PICK s \in {"start_demote", "finish_demote"} :
          Goto(p, s) /\ (s = "finish_demote" => job[p] = "finish_list")
    BY DEF List
  <1>3. JobTypes /\ JobOK(p)
    BY DEF IInv, TypeOK, JobTypes
  <1>4. Others(p) /\ job'[p] = s /\ listed'[p] = Existing(p)
    BY <1>1, <1>2, <1>3 DEF JobTypes, Others, Goto
  <1>5. JobTypes'
    <2>1. job' \in [Pulls -> JobStates] /\ listed' \in [Pulls -> Lists]
      BY <1>1, <1>2, <1>3, ExistingRight DEF JobTypes, Goto, JobStates
    <2>2. \A q \in Pulls :
            /\ listed'[q].demote \cup listed'[q].admissive \subseteq DOMAIN runs'
            /\ listed'[q].target \in {NoRun} \cup DOMAIN runs'
      BY <1>1, <1>3, <1>4, ExistingRight DEF JobTypes, Others, hubVars
    <2> QED
      BY <1>1, <1>3, <2>1, <2>2 DEF JobTypes, hubVars
  <1>6. JobOK(p)'
    BY <1>1, <1>2, <1>3, <1>4, ExistingRight, SameNominees
       DEF JobOK, Owning, hubVars
  <1>7. TypeOK'
    BY <1>1, <1>5 DEF IInv, TypeOK, JobTypes, hubVars
  <1> QED
    BY <1>1, <1>4, <1>6, <1>7, ReadFrame

LEMMA ResolveInv ==
  ASSUME IInv, NEW p \in Pulls, Resolve(p)
  PROVE  IInv'
  <1>1. UNCHANGED <<open, pending, hubVars, vouched, events, failures>>
    BY DEF Resolve
  <1>2. JobTypes /\ JobOK(p)
    BY DEF IInv, TypeOK, JobTypes
  <1>3. Others(p) /\ JobTypes' /\ JobOK(p)'
    <2>1. CASE End(p, "INCONCLUSIVE")
      BY <1>1, <2>1, JobEnds DEF Results, hubVars
    <2>2. CASE /\ Demoting(p) /\ listed[p].repeated
               /\ listed' = [listed EXCEPT ![p] =
                    [@ EXCEPT !.demote = listed[p].admissive, !.admissive = {}]]
               /\ UNCHANGED <<job, own, result, verdict>>
      <3> DEFINE left == [listed[p] EXCEPT !.demote = listed[p].admissive,
                                           !.admissive = {}]
      <3>1. listed[p] \in Lists
        BY <1>2 DEF JobTypes
      <3>2. /\ left \in Lists /\ left.demote = listed[p].admissive
            /\ left.admissive = {} /\ left.target = listed[p].target
            /\ left.repeated = listed[p].repeated
        BY <3>1 DEF Lists
      <3>3. listed' = [listed EXCEPT ![p] = left]
        BY <2>2
      <3> HIDE DEF left
      <3>4. Others(p) /\ listed'[p] = left
        BY <1>2, <2>2, <3>3 DEF JobTypes, Others
      <3>5. JobTypes'
        BY <1>1, <1>2, <2>2, <3>2, <3>3 DEF JobTypes, hubVars
      <3>6. JobOK(p)'
        BY <1>1, <1>2, <2>2, <3>2, <3>4 DEF JobOK, Demoting, hubVars
      <3> QED
        BY <3>4, <3>5, <3>6
    <2>3. CASE Goto(p, "start_write") /\ UNCHANGED <<listed, own, result, verdict>>
      BY <1>1, <2>3, MoveInv DEF JobStates, Owning
    <2>4. CASE /\ job[p] = "finish_demote" /\ ~listed[p].repeated
               /\ listed[p].target = own[p]
               /\ Goto(p, "conclude") /\ UNCHANGED <<listed, own, result, verdict>>
      <3>1. Nominees(p) \subseteq {own[p]}
        BY <1>2, <2>4 DEF JobOK
      <3> QED
        BY <1>1, <2>4, <3>1, MoveInv DEF JobStates, Owning
    <2> QED
      BY <2>1, <2>2, <2>3, <2>4 DEF Resolve
  <1>4. TypeOK'
    BY <1>1, <1>3 DEF IInv, TypeOK, JobTypes, hubVars
  <1> QED
    BY <1>1, <1>3, <1>4, ReadFrame

\* What a job's write leaves behind, whether its response arrives or not.
LEMMA JobWrites ==
  ASSUME IInv, NEW w \in Writes, w.run \in {NoRun} \cup DOMAIN runs, WriteOK(w),
         Succeeds(w) \/ Breaks(w), vouched' = vouched
  PROVE  /\ Kept /\ NeutralVouched'
         /\ \A v \in late' : WriteOK(v)'
         /\ runs' \in Seq(Identities) /\ late' \subseteq Writes
         /\ \A v \in late' : v.run \in {NoRun} \cup DOMAIN runs'
         /\ \A q \in Pulls : \A n \in Nominees(q)' :
              n \in Nominees(q) \/ (w.state = "neutral" /\ w.pull = q /\ n = w.run)
         /\ Apply(w) /\ w.run = NoRun =>
              Len(runs) + 1 \in DOMAIN runs' /\ runs'[Len(runs) + 1].pull = w.pull
         /\ failures' \in 0..MaxFailures
  <1>1. (Apply(w) \/ runs' = runs) /\ late' \subseteq late \cup {w}
    BY DEF Succeeds, Breaks
  <1>2. failures' \in 0..MaxFailures
    BY AuthorityAssumption DEF IInv, TypeOK, Succeeds, Breaks, Fails
  <1> QED
    BY <1>1, <1>2, WriteStep

\* A write of the job of p nominates no run of another pull request.
LEMMA WriteFrame ==
  ASSUME IInv, NEW p \in Pulls, NEW w \in Writes,
         w.run \in {NoRun} \cup DOMAIN runs, WriteOK(w), w.pull = p,
         Succeeds(w) \/ Breaks(w),
         UNCHANGED <<open, pending, vouched, events>>,
         Others(p), JobTypes', JobOK(p)', OneNominee(p)'
  PROVE  IInv'
  <1>1. /\ Kept /\ NeutralVouched'
        /\ \A v \in late' : WriteOK(v)'
        /\ runs' \in Seq(Identities) /\ late' \subseteq Writes
        /\ \A v \in late' : v.run \in {NoRun} \cup DOMAIN runs'
        /\ failures' \in 0..MaxFailures
        /\ \A q \in Pulls : \A n \in Nominees(q)' :
             n \in Nominees(q) \/ (w.state = "neutral" /\ w.pull = q /\ n = w.run)
    BY JobWrites
  <1>2. \A q \in Pulls \ {p} : Nominees(q)' \subseteq Nominees(q)
    BY <1>1
  <1>3. TypeOK'
    BY <1>1 DEF IInv, TypeOK, JobTypes, Identities
  <1> QED
    BY <1>1, <1>2, <1>3, JobFrame

LEMMA DemoteInv ==
  ASSUME IInv, NEW p \in Pulls, Demote(p)
  PROVE  IInv'
  <1>1. JobTypes /\ JobOK(p) /\ runs \in Seq(Identities)
        /\ DOMAIN runs \subseteq Nat
    BY DEF IInv, TypeOK, JobTypes, Identities
  <1>2. /\ Demoting(p) /\ UNCHANGED <<job, own, result, verdict>>
        /\ UNCHANGED <<open, pending, vouched, events>>
    BY DEF Demote
  <1>3. PICK i \in listed[p].demote :
          /\ Succeeds(Write(i, runs[i].pull, "failure"))
               \/ Breaks(Write(i, runs[i].pull, "failure"))
          /\ \/ listed' = [listed EXCEPT ![p] =
                  [listed[p] EXCEPT !.demote = @ \ {i}]]
             \/ listed' = [listed EXCEPT ![p] =
                  [[listed[p] EXCEPT !.demote = @ \ {i}] EXCEPT !.failed = TRUE]]
    BY DEF Demote
  <1> DEFINE w == Write(i, runs[i].pull, "failure")
  <1>4. i \in DOMAIN runs /\ runs[i] \in Identities
    BY <1>1, <1>3 DEF JobTypes
  <1>5. /\ w \in Writes /\ w.run = i /\ w.pull = runs[i].pull
        /\ w.state = "failure"
    BY <1>1, <1>4 DEF Write, Writes, Identities, RunStates
  <1>6. WriteOK(w)
    BY <1>5 DEF WriteOK
  <1>7. PICK left \in Lists :
          /\ listed' = [listed EXCEPT ![p] = left]
          /\ left.demote \subseteq listed[p].demote
          /\ left.admissive = listed[p].admissive
          /\ left.target = listed[p].target /\ left.repeated = listed[p].repeated
    <2>1. listed[p] \in Lists
      BY <1>1 DEF JobTypes
    <2>2. CASE listed' = [listed EXCEPT ![p] =
                 [listed[p] EXCEPT !.demote = @ \ {i}]]
      <3> DEFINE left == [listed[p] EXCEPT !.demote = @ \ {i}]
      <3>1. /\ left \in Lists /\ left.demote \subseteq listed[p].demote
            /\ left.admissive = listed[p].admissive
            /\ left.target = listed[p].target /\ left.repeated = listed[p].repeated
        BY <2>1 DEF Lists
      <3> QED
        BY <2>2, <3>1
    <2>3. CASE listed' = [listed EXCEPT ![p] =
                 [[listed[p] EXCEPT !.demote = @ \ {i}] EXCEPT !.failed = TRUE]]
      <3> DEFINE left == [[listed[p] EXCEPT !.demote = @ \ {i}]
                            EXCEPT !.failed = TRUE]
      <3>1. /\ left \in Lists /\ left.demote \subseteq listed[p].demote
            /\ left.admissive = listed[p].admissive
            /\ left.target = listed[p].target /\ left.repeated = listed[p].repeated
        BY <2>1 DEF Lists
      <3> QED
        BY <2>3, <3>1
    <2> QED
      BY <1>3, <2>2, <2>3
  <1> HIDE DEF w
  <1>8. /\ Kept /\ NeutralVouched'
        /\ \A v \in late' : WriteOK(v)'
        /\ runs' \in Seq(Identities) /\ late' \subseteq Writes
        /\ \A v \in late' : v.run \in {NoRun} \cup DOMAIN runs'
        /\ failures' \in 0..MaxFailures
        /\ \A q \in Pulls : Nominees(q)' \subseteq Nominees(q)
    <2>1. Succeeds(w) \/ Breaks(w)
      BY <1>3 DEF w
    <2> QED
      BY <1>2, <1>4, <1>5, <1>6, <2>1, JobWrites
  <1>9. Others(p) /\ listed'[p] = left
    BY <1>1, <1>2, <1>7 DEF JobTypes, Others
  <1>10. JobTypes'
    <2>1. listed' \in [Pulls -> Lists]
      BY <1>1, <1>7 DEF JobTypes
    <2>2. \A q \in Pulls :
            /\ listed'[q].demote \cup listed'[q].admissive \subseteq DOMAIN runs'
            /\ listed'[q].target \in {NoRun} \cup DOMAIN runs'
      BY <1>1, <1>7, <1>8, <1>9 DEF JobTypes, Others, Kept
    <2> QED
      BY <1>1, <1>2, <1>8, <2>1, <2>2 DEF JobTypes, Kept
  <1>11. JobOK(p)'
    <2>1. own[p] \in {NoRun} \cup DOMAIN runs
          /\ listed[p].target \in {NoRun} \cup DOMAIN runs
      BY <1>1 DEF JobTypes
    <2> QED
      BY <1>1, <1>2, <1>7, <1>8, <1>9, <2>1 DEF JobOK, Kept
  <1>12. OneNominee(p)'
    BY <1>8 DEF IInv, OneNominee
  <1>13. TypeOK'
    BY <1>2, <1>8, <1>10 DEF IInv, TypeOK, JobTypes, Identities
  <1> QED
    BY <1>8, <1>9, <1>11, <1>12, <1>13, JobFrame

LEMMA StartRunInv ==
  ASSUME IInv, NEW p \in Pulls, StartRun(p)
  PROVE  IInv'
  <1> DEFINE w == Write(listed[p].target, p, "in_progress")
  <1>1. JobTypes /\ JobOK(p) /\ DOMAIN runs \subseteq Nat
    BY DEF IInv, TypeOK, JobTypes
  <1>2. UNCHANGED <<open, pending, vouched, events>>
    BY DEF StartRun
  <1>3. /\ w \in Writes /\ w.run = listed[p].target /\ w.pull = p
        /\ w.state = "in_progress" /\ w.run \in {NoRun} \cup DOMAIN runs
    BY <1>1 DEF JobTypes, Write, Writes, RunStates, NoRun
  <1>4. WriteOK(w)
    BY <1>1, <1>3 DEF JobOK, WriteOK
  <1>5. \/ /\ Succeeds(w)
           /\ own' = [own EXCEPT ![p] =
                IF w.run = NoRun THEN Len(runs) + 1 ELSE w.run]
           /\ listed' = [listed EXCEPT ![p] = Idle]
           /\ Goto(p, "check_first")
           /\ UNCHANGED <<result, verdict>>
        \/ Breaks(w) /\ End(p, "INCONCLUSIVE")
    BY DEF StartRun
  <1> HIDE DEF w
  <1>6. /\ Kept
        /\ runs' \in Seq(Identities)
        /\ \A q \in Pulls : Nominees(q)' \subseteq Nominees(q)
        /\ Apply(w) /\ w.run = NoRun =>
             Len(runs) + 1 \in DOMAIN runs' /\ runs'[Len(runs) + 1].pull = p
    BY <1>2, <1>3, <1>4, <1>5, JobWrites
  <1>7. OneNominee(p)'
    BY <1>6 DEF IInv, OneNominee
  <1>8. Others(p) /\ JobTypes' /\ JobOK(p)'
    <2>1. CASE End(p, "INCONCLUSIVE")
      BY <1>6, <2>1, JobEnds DEF Results, Kept
    <2>2. CASE /\ Succeeds(w)
               /\ own' = [own EXCEPT ![p] =
                    IF w.run = NoRun THEN Len(runs) + 1 ELSE w.run]
               /\ listed' = [listed EXCEPT ![p] = Idle]
               /\ Goto(p, "check_first")
               /\ UNCHANGED <<result, verdict>>
      <3> DEFINE mine == IF w.run = NoRun THEN Len(runs) + 1 ELSE w.run
      <3>1. /\ mine \in DOMAIN runs' /\ mine # NoRun
            /\ runs'[mine].pull = p
        <4>1. CASE w.run = NoRun
          <5>1. Apply(w) /\ Len(runs) \in Nat
            BY <2>2 DEF Succeeds, IInv, TypeOK
          <5> QED
            BY <1>6, <4>1, <5>1 DEF NoRun
        <4>2. CASE w.run # NoRun
          BY <1>3, <1>4, <1>6, <4>2 DEF WriteOK, Kept
        <4> QED
          BY <4>1, <4>2
      <3>2. own' = [own EXCEPT ![p] = mine]
        BY <2>2
      <3> HIDE DEF mine
      <3>3. /\ Others(p) /\ job'[p] = "check_first" /\ own'[p] = mine
            /\ listed'[p] = Idle /\ result'[p] = result[p]
        BY <1>1, <2>2, <3>2 DEF JobTypes, Others, Goto
      <3>4. Idle \in Lists
        BY DEF Idle, Lists, NoRun
      <3>5. JobTypes'
        <4>1. /\ job' \in [Pulls -> JobStates] /\ listed' \in [Pulls -> Lists]
              /\ own' \in [Pulls -> {NoRun} \cup DOMAIN runs']
          BY <1>1, <1>6, <2>2, <3>1, <3>2, <3>4
             DEF JobTypes, Goto, JobStates, Kept
        <4>2. \A q \in Pulls :
                /\ listed'[q].demote \cup listed'[q].admissive \subseteq DOMAIN runs'
                /\ listed'[q].target \in {NoRun} \cup DOMAIN runs'
          BY <1>1, <1>6, <3>3 DEF JobTypes, Others, Idle, Kept
        <4> QED
          BY <1>1, <2>2, <4>1, <4>2 DEF JobTypes
      <3>6. JobOK(p)'
        BY <1>1, <1>2, <3>1, <3>3 DEF JobOK, Idle
      <3> QED
        BY <3>3, <3>5, <3>6
    <2> QED
      BY <1>5, <2>1, <2>2
  <1> QED
    BY <1>2, <1>3, <1>4, <1>5, <1>7, <1>8, WriteFrame

LEMMA ConcludeInv ==
  ASSUME IInv, NEW p \in Pulls, Conclude(p)
  PROVE  IInv'
  <1> DEFINE w == Write(own[p], p, Conclusion(result[p]))
  <1>1. JobTypes /\ JobOK(p) /\ DOMAIN runs \subseteq Nat
    BY DEF IInv, TypeOK, JobTypes
  <1>2. UNCHANGED <<open, pending, vouched, events>> /\ job[p] = "conclude"
    BY DEF Conclude
  <1>3. own[p] \in DOMAIN runs /\ own[p] # NoRun /\ runs[own[p]].pull = p
    BY <1>1, <1>2 DEF JobTypes, JobOK, Owning
  <1>4. /\ w \in Writes /\ w.run = own[p] /\ w.pull = p
        /\ w.state = "neutral" => result[p] = "PASS"
    BY <1>1, <1>3 DEF JobTypes, Write, Writes, RunStates, Conclusion
  <1>5. WriteOK(w)
    BY <1>1, <1>3, <1>4 DEF JobOK, WriteOK
  <1>6. \/ /\ Succeeds(w) /\ Goto(p, "readback")
           /\ UNCHANGED <<listed, own, result, verdict>>
        \/ Breaks(w) /\ End(p, "INCONCLUSIVE")
    BY DEF Conclude
  <1> HIDE DEF w
  <1>7. /\ Kept
        /\ \A n \in Nominees(p)' : n \in Nominees(p) \/ n = own[p]
    BY <1>2, <1>3, <1>4, <1>5, <1>6, JobWrites
  <1>8. OneNominee(p)'
    <2>1. Nominees(p) \subseteq {own[p]}
      BY <1>1, <1>2 DEF JobOK
    <2> QED
      BY <1>7, <2>1 DEF OneNominee
  <1>9. Others(p) /\ JobTypes' /\ JobOK(p)'
    <2>1. CASE End(p, "INCONCLUSIVE")
      BY <1>7, <2>1, JobEnds DEF Results, Kept
    <2>2. CASE Goto(p, "readback") /\ UNCHANGED <<listed, own, result, verdict>>
      <3>1. Others(p) /\ job'[p] = "readback"
        BY <1>1, <2>2 DEF JobTypes, Others, Goto
      <3>2. JobTypes'
        BY <1>1, <1>7, <2>2 DEF JobTypes, Goto, JobStates, Kept
      <3>3. listed[p].target \in {NoRun} \cup DOMAIN runs
        BY <1>1 DEF JobTypes
      <3>4. JobOK(p)'
        BY <1>1, <1>2, <1>3, <1>7, <2>2, <3>1, <3>3 DEF JobOK, Kept
      <3> QED
        BY <3>1, <3>2, <3>4
    <2> QED
      BY <1>6, <2>1, <2>2
  <1> QED
    BY <1>2, <1>3, <1>4, <1>5, <1>6, <1>8, <1>9, WriteFrame

\* A late write admits only what it was already known to nominate.
LEMMA LandInv ==
  ASSUME IInv, Land
  PROVE  IInv'
  <1>1. PICK w \in late :
          /\ Apply(w)
          /\ late' = late \ {w}
          /\ UNCHANGED <<open, pending, jobVars, vouched, events, failures>>
    BY DEF Land
  <1>2. /\ w \in Writes /\ w.run \in {NoRun} \cup DOMAIN runs /\ WriteOK(w)
        /\ w.run \in Nat
    BY DEF IInv, TypeOK, Writes
  <1>3. /\ Kept /\ NeutralVouched'
        /\ \A v \in late' : WriteOK(v)'
        /\ runs' \in Seq(Identities) /\ late' \subseteq Writes
        /\ \A v \in late' : v.run \in {NoRun} \cup DOMAIN runs'
        /\ \A q \in Pulls : \A n \in Nominees(q)' :
             n \in Nominees(q) \/ (w.state = "neutral" /\ w.pull = q /\ n = w.run)
    BY <1>1, <1>2, WriteStep
  <1>4. \A q \in Pulls : Nominees(q)' \subseteq Nominees(q)
    BY <1>1, <1>3 DEF Nominees
  <1>5. TypeOK'
    <2>1. JobTypes
      BY DEF IInv, TypeOK, JobTypes
    <2>2. JobTypes'
      BY <1>1, <1>3, <2>1 DEF JobTypes, jobVars, Kept
    <2> QED
      BY <1>1, <1>3, <2>2 DEF IInv, TypeOK, JobTypes, Identities
  <1>6. \A q \in Pulls : JobOK(q)' /\ OneNominee(q)'
    BY <1>1, <1>3, <1>4, JobKept DEF jobVars
  <1> QED
    BY <1>3, <1>5, <1>6 DEF IInv

LEMMA NextInv == IInv /\ [Next]_vars => IInv'
  <1> SUFFICES ASSUME IInv, [Next]_vars PROVE IInv'
    OBVIOUS
  <1>1. ASSUME NEW p \in Pulls,
               \/ Open(p) \/ Again(p) \/ Close(p)
               \/ StartJob(p) \/ JobStep(p) \/ Break(p)
        PROVE  IInv'
    <2>1. CASE Open(p) \/ Again(p) \/ Close(p) BY <2>1, EventInv
    <2>2. CASE StartJob(p) BY <2>2, StartJobInv
    <2>3. CASE Gate(p) BY <2>3, GateInv
    <2>4. CASE List(p) BY <2>4, ListInv
    <2>5. CASE Demote(p) BY <2>5, DemoteInv
    <2>6. CASE Resolve(p) BY <2>6, ResolveInv
    <2>7. CASE StartRun(p) BY <2>7, StartRunInv
    <2>8. CASE Check(p) BY <2>8, CheckInv
    <2>9. CASE Conclude(p) BY <2>9, ConcludeInv
    <2>10. CASE Readback(p) BY <2>10, ReadbackInv
    <2>11. CASE Break(p) BY <2>11, BreakInv
    <2> QED
      BY <1>1, <2>1, <2>2, <2>3, <2>4, <2>5, <2>6, <2>7, <2>8, <2>9, <2>10,
         <2>11 DEF JobStep
  <1>2. CASE UNCHANGED vars
    BY <1>2 DEF vars, IInv, TypeOK, NeutralVouched, WriteOK, JobOK, OneNominee,
                Nominees
  <1> QED
    BY <1>1, <1>2, LandInv DEF Next, Quiet

-----------------------------------------------------------------------------
(* The theorems *)

\* The inductive invariant of the publishers and their check runs.
THEOREM Invariance == Spec => []IInv
  <1> QED
    BY InitInv, NextInv, PTL DEF Spec, Safety

\* Every variable keeps its type, for any number of events and failures.
THEOREM TypeCorrect == Spec => []TypeOK
  <1>1. IInv => TypeOK
    BY DEF IInv
  <1> QED
    BY <1>1, Invariance, PTL

\* A neutral check run belongs to a pull request that the immutable validator
\* passed, whatever calls are lost, late or repeated (Publisher.finish).
THEOREM OnlyVouchedAreNeutral == Spec => []NeutralVouched
  <1>1. IInv => NeutralVouched
    BY DEF IInv
  <1> QED
    BY <1>1, Invariance, PTL

\* No identity ever has two neutral runs (Publisher._existing, _demote).
THEOREM OneNeutralRun == Spec => []OneNeutralPerIdentity
  <1>1. IInv => OneNeutralPerIdentity
    <2> SUFFICES ASSUME IInv, NEW i \in DOMAIN runs, NEW j \in DOMAIN runs,
                        runs[i].pull = runs[j].pull,
                        runs[i].state = "neutral", runs[j].state = "neutral"
                 PROVE  i = j
      BY DEF OneNeutralPerIdentity
    <2>1. runs[i].pull \in Pulls
      <3>1. runs \in Seq(Identities)
        BY DEF IInv, TypeOK, Identities
      <3>2. runs[i] \in Identities
        BY <3>1
      <3> QED
        BY <3>2 DEF Identities
    <2>2. i \in Nominees(runs[i].pull) /\ j \in Nominees(runs[i].pull)
      BY DEF Nominees
    <2> QED
      BY <2>1, <2>2 DEF IInv, OneNominee
  <1> QED
    BY <1>1, Invariance, PTL

\* A publisher that reports PASS or FAIL has read that from a run of its own
\* pull request (the read-back of Publisher.finish).
THEOREM ReportsAreWitnessed == Spec => ReportWitnessed
  <1>1. ASSUME IInv, [Next]_vars, NEW p \in Pulls, job[p] = "readback",
               verdict'[p] \in {"PASS", "FAIL"}, job'[p] = "idle"
        PROVE  /\ runs'[own[p]].state = Conclusion(verdict'[p])
               /\ runs'[own[p]].pull = p
    <2>1. JobTypes /\ JobOK(p) /\ own[p] # NoRun
      BY <1>1 DEF IInv, TypeOK, JobTypes, JobOK, Owning
    <2>2. job' # job
      BY <1>1
    <2>3. PICK q \in Pulls : StartJob(q) \/ JobStep(q) \/ Break(q)
      BY <1>1, <2>2 DEF Next, Open, Again, Close, Land, Quiet, jobVars, vars
    <2>4. ASSUME q # p PROVE FALSE
      <3>1. job' = job \/ \E s \in JobStates : job' = [job EXCEPT ![q] = s]
        BY <2>3 DEF StartJob, JobStep, Break, Gate, List, Demote, Resolve,
                    StartRun, Check, Conclude, Readback, Finishes, Goto, End,
                    JobStates
      <3> QED
        BY <1>1, <2>1, <2>4, <3>1 DEF JobTypes
    <2>5. Readback(p) \/ Break(p)
      BY <1>1, <2>3, <2>4
         DEF StartJob, JobStep, Gate, List, Demote, Demoting, Resolve,
             StartRun, Check, Conclude
    <2>6. verdict'[p] # "INCONCLUSIVE"
      BY <1>1
    <2>7. ~End(p, "INCONCLUSIVE")
      BY <2>1, <2>6 DEF End, JobTypes
    <2>8. /\ runs[own[p]].state = Conclusion(result[p])
          /\ End(p, result[p]) /\ runs' = runs
      BY <2>5, <2>7 DEF Readback, Break, hubVars
    <2>9. verdict'[p] = result[p]
      BY <2>1, <2>8 DEF End, JobTypes
    <2> QED
      BY <2>1, <2>8, <2>9 DEF JobOK
  <1>2. IInv /\ [Next]_vars =>
          [\A p \in Pulls :
             job[p] = "readback" /\ verdict'[p] \in {"PASS", "FAIL"} /\ job'[p] = "idle"
               => /\ runs'[own[p]].state = Conclusion(verdict'[p])
                  /\ runs'[own[p]].pull = p]_vars
    BY <1>1
  <1> QED
    BY <1>2, Invariance, PTL DEF ReportWitnessed, Spec, Safety
=============================================================================
