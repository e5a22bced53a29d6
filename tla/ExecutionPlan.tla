---------------------------- MODULE ExecutionPlan ----------------------------
(***************************************************************************)
(* How checks become an execution plan: rust/src/planning.rs (build_plan), *)
(* rust/src/governance_ir.rs and governance_ir/execution_plan.rs, and how  *)
(* scripts/bounded_harness.py reads the plan back (load_plan).             *)
(*                                                                         *)
(* The checks of a project are ordered by their dependencies and joined    *)
(* with the recipes of the catalog, which says which artifacts a check     *)
(* reads and writes.  Every iteration of a loop is one step.               *)
(***************************************************************************)
EXTENDS Naturals, Sequences, FiniteSets

CONSTANTS
  Ids,       \* identifiers of checks, compared as numbers
  Artifacts, \* names of artifacts
  Inputs,    \* the requests: digests, catalog, checks, size of the report
  MaxChecks  \* load_plan's limit on the checks of a plan, 128

Languages == {"python", "rust"}

\* A recipe of the catalog, and a check of the project.  The language stands
\* for all that must agree between them besides the dependencies; `fits` for a
\* timeout of at most an hour and names of at most 128 characters, which the
\* harness demands and ExecutionRecipe::resolve does not.
Recipe == [id: Ids, language: Languages, deps: SUBSET Ids,
           ins: SUBSET Artifacts, outs: SUBSET Artifacts, fits: BOOLEAN]
Check == [id: Ids, language: Languages, deps: SUBSET Ids]

\* The binding digests agree with the toolchain, are of another toolchain, or
\* are not digests.
Digests == {"bound", "foreign", "malformed"}

ASSUME InputsAssumption ==
  /\ Ids \subseteq Nat \ {0} /\ IsFiniteSet(Ids) /\ MaxChecks \in Nat \ {0}
  /\ \A i \in Inputs :
       /\ i.digests \in Digests
       /\ i.recipes \subseteq Recipe /\ IsFiniteSet(i.recipes)
       /\ i.checks \subseteq Check /\ IsFiniteSet(i.checks)
       /\ i.large \in BOOLEAN

VARIABLES
  digests,  \* of the request
  recipes,  \* both adapters' catalogs
  checks,   \* the drafts of the project, then its governance IR
  large,    \* the report would be longer than the harness reads
  at,       \* next step
  emitted,  \* identifiers the current loop has emitted
  ordered,  \* checks in topological order
  demands,  \* <<recipe, artifact>> inputs still to be verified
  producer, \* the producer dependency_reaches looks for, 0 before
  pending,  \* its work list
  visited,  \* what it has expanded
  plan,     \* checks of the plan: bound recipes, in order
  result    \* None, PLANNED or an error code

vars == <<digests, recipes, checks, large, at, emitted, ordered, demands, producer,
          pending, visited, plan, result>>
input == <<digests, recipes, checks, large>>
search == <<demands, producer, pending, visited>>

None == "none"
Steps == {"request", "resolve", "emit", "graph", "artifacts", "search",
          "order", "bind", "load", "done"}
PlanErrors == {"PLAN_EMPTY", "PLAN_CATALOG_INVALID", "PLAN_CYCLE",
               "PLAN_UNKNOWN_CHECK", "PLAN_RECIPE_MISMATCH"}
Results == PlanErrors \cup
  {None, "PLANNED", "PLAN_INPUT_DIGEST_INVALID", "GIR_REJECTED",
   "DUPLICATE_IDENTIFIER", "UNKNOWN_IDENTIFIER",
   "PLAN_TOOLCHAIN_DIGEST_MISMATCH", "HARNESS_PLAN_SIZE_EXCEEDED",
   "HARNESS_PLAN_INVALID"}

Init ==
  /\ \E i \in Inputs : /\ digests = i.digests
                       /\ recipes = i.recipes
                       /\ checks = i.checks
                       /\ large = i.large
  /\ at = "request"
  /\ emitted = {} /\ ordered = <<>>
  /\ demands = {} /\ producer = 0 /\ pending = {} /\ visited = {}
  /\ plan = <<>>
  /\ result = None

-----------------------------------------------------------------------------

Named(S) == {x.id : x \in S}
Duplicated(S) == \E x, y \in S : x # y /\ x.id = y.id

Known(S) == \A x \in S : x.deps \subseteq Named(S)

\* The elements that can be emitted next, and the first of them by identifier.
Ready(S) == {x \in S : x.id \notin emitted /\ x.deps \subseteq emitted}
First(S) == CHOOSE x \in S : \A y \in S : x.id <= y.id

Reject(code) ==
  /\ at' = "done" /\ result' = code
  /\ UNCHANGED <<input, emitted, ordered, search, plan>>

Goto(step) ==
  /\ at' = step
  /\ UNCHANGED <<input, emitted, ordered, search, plan, result>>

(* build_plan *)

Request ==
  /\ at = "request"
  /\ IF digests = "malformed"
     THEN Reject("PLAN_INPUT_DIGEST_INVALID")
     ELSE Goto("resolve")

\* GovernanceIr::from_checks: unique identifiers, known dependencies.
FromChecks(S) ==
  IF Duplicated(S) THEN "DUPLICATE_IDENTIFIER"
  ELSE IF ~Known(S) THEN "UNKNOWN_IDENTIFIER" ELSE None

Part(language) == {c \in checks : c.language = language}

\* Each adapter resolves its own checks, then they are merged; then the
\* toolchain digests.
Resolve ==
  /\ at = "resolve"
  /\ IF \E l \in Languages : FromChecks(Part(l)) # None
     THEN Reject("GIR_REJECTED")
     ELSE IF FromChecks(checks) # None THEN Reject(FromChecks(checks))
     ELSE IF digests = "foreign" THEN Reject("PLAN_TOOLCHAIN_DIGEST_MISMATCH")
     ELSE Goto("emit")

(* PlanEmitter::emit *)

Emit ==
  /\ at = "emit"
  /\ IF checks = {} THEN Reject("PLAN_EMPTY")
     ELSE IF Duplicated(recipes) THEN Reject("PLAN_CATALOG_INVALID")
     ELSE Goto("graph")

\* Mutant of Contested: an artifact may have several producers.
Contested_Never == FALSE

\* Two recipes write the same artifact.
Contested == \E r, s \in recipes : r # s /\ r.outs \cap s.outs # {}

\* validate_recipe_graph: the topological loop, then the producers.
EmitRecipe ==
  /\ at = "graph"
  /\ IF Named(recipes) \subseteq emitted
     THEN IF Contested THEN Reject("PLAN_CATALOG_INVALID")
          ELSE /\ at' = "artifacts"
               /\ demands' = UNION {{r} \X r.ins : r \in recipes}
               /\ emitted' = {}
               /\ UNCHANGED <<input, ordered, producer, pending, visited,
                              plan, result>>
     ELSE IF Ready(recipes) = {} THEN Reject("PLAN_CATALOG_INVALID")
     ELSE /\ emitted' = emitted \cup {First(Ready(recipes)).id}
          /\ UNCHANGED <<input, at, ordered, search, plan, result>>

\* The next input: dependency_reaches starts from its consumer's dependencies.
TakeDemand ==
  /\ at = "artifacts"
  /\ IF demands = {} THEN Goto("order")
     ELSE \E d \in demands :
            IF \A r \in recipes : d[2] \notin r.outs
            THEN Reject("PLAN_CATALOG_INVALID")
            ELSE /\ at' = "search"
                 /\ demands' = demands \ {d}
                 /\ producer' = (CHOOSE r \in recipes : d[2] \in r.outs).id
                 /\ pending' = d[1].deps
                 /\ visited' = {}
                 /\ UNCHANGED <<input, emitted, ordered, plan, result>>

\* dependency_reaches takes i from its work list and expands it once.
Expand(i) ==
  IF i \in visited THEN pending' = pending \ {i} /\ UNCHANGED visited
  ELSE /\ visited' = visited \cup {i}
       /\ pending' = (pending \ {i}) \cup
                       UNION {r.deps : r \in {s \in recipes : s.id = i}}

\* One iteration of dependency_reaches.  Its stack is a set here: the order in
\* which identifiers leave it makes no difference to the answer.
Search ==
  /\ at = "search"
  /\ IF pending = {} THEN Reject("PLAN_CATALOG_INVALID")
     ELSE \E i \in pending :
            IF i = producer THEN Goto("artifacts")
            ELSE IF i \notin visited \cup Named(recipes)
            THEN Reject("PLAN_CATALOG_INVALID")
            ELSE /\ Expand(i)
                 /\ UNCHANGED <<input, at, emitted, ordered, demands, producer,
                                plan, result>>

\* Mutant of EmitCheck: one pass over the checks in the order of their names.
EmitCheck_OnePass ==
  /\ at = "order"
  /\ LET ready == {c \in Ready(checks) : \A e \in emitted : e < c.id}
     IN  IF Named(checks) \subseteq emitted THEN Goto("bind")
         ELSE IF ready = {} THEN Reject("PLAN_CYCLE")
         ELSE /\ ordered' = Append(ordered, First(ready))
              /\ emitted' = emitted \cup {First(ready).id}
              /\ UNCHANGED <<input, at, search, plan, result>>

\* Mutant of EmitCheck: one emitted dependency is enough.
EmitCheck_AnyDependency ==
  /\ at = "order"
  /\ LET ready == {c \in checks : /\ c.id \notin emitted
                                  /\ c.deps # {} => c.deps \cap emitted # {}}
     IN  IF Named(checks) \subseteq emitted THEN Goto("bind")
         ELSE IF ready = {} THEN Reject("PLAN_CYCLE")
         ELSE /\ ordered' = Append(ordered, First(ready))
              /\ emitted' = emitted \cup {First(ready).id}
              /\ UNCHANGED <<input, at, search, plan, result>>

\* topological_checks
EmitCheck ==
  /\ at = "order"
  /\ IF Named(checks) \subseteq emitted THEN Goto("bind")
     ELSE IF Ready(checks) = {} THEN Reject("PLAN_CYCLE")
     ELSE /\ ordered' = Append(ordered, First(Ready(checks)))
          /\ emitted' = emitted \cup {First(Ready(checks)).id}
          /\ UNCHANGED <<input, at, search, plan, result>>

\* Mutant of Agrees: the dependencies are not compared.
Agrees_Attributes(c, r) == c.language = r.language

\* bind: the recipe describes the check.
Agrees(c, r) == c.language = r.language /\ c.deps = r.deps

\* Mutant of Bind: checks without their recipe are left out of the plan.
Bind_Skips ==
  /\ at = "bind"
  /\ LET bound == SelectSeq(ordered, LAMBDA c : \E r \in recipes :
                                        r.id = c.id /\ Agrees(c, r))
     IN  plan' = [k \in DOMAIN bound |->
                    CHOOSE r \in recipes : r.id = bound[k].id]
  /\ at' = "load" /\ result' = "PLANNED" /\ emitted' = {}
  /\ UNCHANGED <<input, ordered, search>>

\* The next check of the order is joined with its recipe.
Bind ==
  /\ at = "bind"
  /\ LET k == Len(plan) + 1
         bound == {r \in recipes : r.id = ordered[k].id}
     IN  IF k > Len(ordered)
         THEN /\ at' = "load" /\ result' = "PLANNED" /\ emitted' = {}
              /\ UNCHANGED <<input, ordered, search, plan>>
         ELSE IF bound = {} THEN Reject("PLAN_UNKNOWN_CHECK")
         ELSE IF \E r \in bound : ~Agrees(ordered[k], r)
         THEN Reject("PLAN_RECIPE_MISMATCH")
         ELSE /\ plan' = Append(plan, CHOOSE r \in bound : TRUE)
              /\ UNCHANGED <<input, at, emitted, ordered, search, result>>

(* load_plan of the harness *)

Listed == {plan[k] : k \in DOMAIN plan}
Repeats == \E j, k \in DOMAIN plan : j # k /\ plan[j].id = plan[k].id

\* What only load_plan and _check limit; nothing in the emitter does.
Beyond == Len(plan) > MaxChecks \/ \E r \in Listed : ~r.fits

\* The limits and the shape of every check, then one round: everything that is
\* ready is done at once.
Load ==
  /\ at = "load"
  /\ IF large THEN Reject("HARNESS_PLAN_SIZE_EXCEEDED")
     ELSE IF plan = <<>> \/ Beyond \/ Repeats THEN Reject("HARNESS_PLAN_INVALID")
     ELSE IF Named(Listed) \subseteq emitted THEN Goto("done")
     ELSE IF Ready(Listed) = {} \/ ~Known(Listed)
     THEN Reject("HARNESS_PLAN_INVALID")
     ELSE /\ emitted' = emitted \cup Named(Ready(Listed))
          /\ UNCHANGED <<input, at, ordered, search, plan, result>>

Step ==
  \/ Request \/ Resolve \/ Emit \/ EmitRecipe \/ TakeDemand \/ Search
  \/ EmitCheck \/ Bind \/ Load

Done == at = "done" /\ UNCHANGED vars

Next == Step \/ Done

Safety == Init /\ [][Next]_vars

\* A function that is called runs to its end.
Spec == Safety /\ WF_vars(Step)

-----------------------------------------------------------------------------
(* Properties *)

TypeOK ==
  /\ digests \in Digests
  /\ recipes \subseteq Recipe /\ checks \subseteq Check /\ large \in BOOLEAN
  /\ at \in Steps
  /\ emitted \subseteq Ids
  /\ ordered \in Seq(checks) /\ Len(ordered) <= Cardinality(checks)
  /\ demands \subseteq recipes \X Artifacts
  /\ producer \in Ids \cup {0}
  /\ pending \subseteq Ids /\ visited \subseteq Ids
  /\ plan \in Seq(recipes)
  /\ result \in Results

Planned == result = "PLANNED"

\* A plan holds the checks of the project, each once and after everything it
\* depends on (contract of PlanEmitter::emit; the harness starts a check when
\* its dependencies have passed).
PlanOrdered ==
  Planned =>
    /\ {ordered[k] : k \in DOMAIN ordered} = checks
    /\ Len(plan) = Len(ordered)
    /\ \A k \in DOMAIN plan :
         /\ plan[k].id = ordered[k].id /\ plan[k].deps = ordered[k].deps
         /\ \A i \in plan[k].deps : \E j \in 1..(k - 1) : plan[j].id = i
         /\ \A j \in 1..(k - 1) : plan[j].id # plan[k].id

\* Whatever a check of a plan reads, exactly one check of the plan writes, and
\* that one comes earlier, although topological_checks looks at dependencies
\* only (contract agent-work-governor.closed-artifact-graph).
ArtifactsReady ==
  Planned =>
    \A k \in DOMAIN plan : \A a \in plan[k].ins :
      \E j \in 1..(k - 1) :
        /\ a \in plan[j].outs
        /\ \A i \in DOMAIN plan : a \in plan[i].outs => i = j

\* S depends on itself: no order of its elements exists.
Knotted(S) == S # {} /\ \A x \in S : x.deps \cap Named(S) # {}

\* PLAN_CYCLE is reported for cyclic checks and for nothing else.
CycleExact ==
  /\ result = "PLAN_CYCLE" => \E S \in SUBSET checks : Knotted(S)
  /\ Planned => \A S \in SUBSET checks : ~Knotted(S)

\* i depends on j through the catalog: j is in every set that holds what i
\* depends on and what its members depend on.
DependsOn(r, j) ==
  \A S \in SUBSET Named(recipes) :
    /\ r.deps \subseteq S
    /\ \A s \in recipes : s.id \in S => s.deps \subseteq S
    => j \in S

Closed ==
  /\ ~Duplicated(recipes)
  /\ Known(recipes)
  /\ \A S \in SUBSET recipes : ~Knotted(S)
  /\ \A a \in Artifacts :
       (\E r \in recipes : a \in r.ins \cup r.outs) =>
         \E p \in recipes :
           /\ \A s \in recipes : a \in s.outs <=> s = p
           /\ \A r \in recipes : a \in r.ins => DependsOn(r, p.id)

\* The catalog is accepted exactly if identifiers are unique, dependencies are
\* known and acyclic, and every artifact has one producer on which each of its
\* consumers depends; which input is examined first, and which way the search
\* turns, makes no difference (validate_recipe_graph).
CatalogExact ==
  /\ at \in {"order", "bind", "load"} => Closed
  /\ result = "PLAN_CATALOG_INVALID" => ~Closed

\* The harness turns an emitted plan down for its own limits and for nothing
\* else: in what both check, the graph of the checks above all, it finds no
\* fault with any plan of the emitter (load_plan, _check).  The emitter itself
\* keeps none of the limits.
HarnessAccepts ==
  /\ result = "HARNESS_PLAN_SIZE_EXCEEDED" => large
  /\ result = "HARNESS_PLAN_INVALID" => ~large /\ Beyond
  /\ at = "done" /\ Planned => ~large /\ ~Beyond

-----------------------------------------------------------------------------
(* The inductive invariant *)

\* The steps that only a request reaches which passed what comes before.
Resolved ==
  at \in {"emit", "graph", "artifacts", "search", "order", "bind", "load"}
CatalogOpen == at \in {"graph", "artifacts", "search", "order", "bind", "load"}
GraphClosed == at \in {"artifacts", "search", "order", "bind", "load"} \/ Planned
Accepted == at \in {"order", "bind", "load"} \/ Planned
Sorted == at \in {"bind", "load"} \/ Planned

\* Every input of r but those in open has a producer on which r depends.
Met(r, a) == \E p \in recipes : a \in p.outs /\ DependsOn(r, p.id)
AllMet(open) == \A r \in recipes : \A a \in r.ins : <<r, a>> \in open \/ Met(r, a)

StageInv ==
  /\ at \notin {"load", "done"} => result = None
  /\ at = "load" => Planned
  /\ at = "done" => result # None
  /\ Resolved \/ Planned => ~Duplicated(checks) /\ Known(checks)
  /\ CatalogOpen \/ Planned => checks # {} /\ ~Duplicated(recipes)
  /\ ~Sorted => plan = <<>> \/ at = "done"
  /\ ~Sorted => ordered = <<>> \/ at \in {"order", "done"}
  /\ at \notin {"graph", "order", "bind", "load", "done"} => emitted = {}

\* Nothing of a knot is ever emitted.
GraphInv ==
  /\ at = "graph" =>
       /\ emitted \subseteq Named(recipes)
       /\ \A r \in recipes : r.id \in emitted => r.deps \subseteq emitted
       /\ \A S \in SUBSET recipes : Knotted(S) => Named(S) \cap emitted = {}
  /\ GraphClosed =>
       /\ Known(recipes) /\ ~Contested
       /\ \A S \in SUBSET recipes : ~Knotted(S)

\* The search holds what its consumer depends on and nothing else.
SearchInv ==
  /\ at \in {"artifacts", "search"} => \A d \in demands : d[2] \in d[1].ins
  /\ at = "artifacts" => AllMet(demands)
  /\ at = "search" =>
       \E r \in recipes : \E a \in r.ins : \E p \in recipes :
         /\ AllMet(demands \cup {<<r, a>>})
         /\ a \in p.outs /\ producer = p.id /\ producer \notin visited
         /\ pending \cup visited \subseteq Named(recipes)
         /\ \A i \in pending : DependsOn(r, i)
         /\ r.deps \subseteq pending \cup visited
         /\ \A s \in recipes :
              s.id \in visited => s.deps \subseteq pending \cup visited
  /\ Accepted => AllMet({})

OrderInv ==
  /\ \A k \in DOMAIN ordered :
       /\ \A i \in ordered[k].deps : \E j \in 1..(k - 1) : ordered[j].id = i
       /\ \A j \in 1..(k - 1) : ordered[j].id # ordered[k].id
  /\ at = "order" =>
       /\ emitted = {ordered[k].id : k \in DOMAIN ordered}
       /\ Cardinality({ordered[k] : k \in DOMAIN ordered}) = Len(ordered)
       /\ \A S \in SUBSET checks : Knotted(S) => Named(S) \cap emitted = {}
  /\ Sorted =>
       /\ Named(checks) \subseteq {ordered[k].id : k \in DOMAIN ordered}
       /\ \A S \in SUBSET checks : ~Knotted(S)

PlanInv ==
  /\ Len(plan) <= Len(ordered)
  /\ Planned => Len(plan) = Len(ordered)
  /\ \A k \in DOMAIN plan :
       plan[k].id = ordered[k].id /\ plan[k].deps = ordered[k].deps

ResultInv ==
  /\ result = "PLAN_CATALOG_INVALID" => ~Closed
  /\ result = "PLAN_CYCLE" => \E S \in SUBSET checks : Knotted(S)
  /\ HarnessAccepts

IInv ==
  /\ TypeOK /\ IsFiniteSet(checks)
  /\ StageInv /\ GraphInv /\ SearchInv /\ OrderInv /\ PlanInv /\ ResultInv
=============================================================================
