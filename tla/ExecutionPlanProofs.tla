------------------------- MODULE ExecutionPlanProofs -------------------------
(***************************************************************************)
(* Safety of the emitter and of load_plan for every catalog and every set  *)
(* of checks.                                                              *)
(***************************************************************************)
EXTENDS ExecutionPlan, FiniteSetTheorems, WellFoundedInduction, TLAPS

LEMMA LeastExists ==
  ASSUME NEW S \in SUBSET Nat, S # {}
  PROVE  \E x \in S : \A y \in S : x <= y
  <1> DEFINE R == OpToRel(<, Nat)
  <1>1. \A x, y \in Nat : x < y => <<x, y>> \in R
    BY DEF OpToRel
  <1>2. IsWellFoundedOn(R, Nat)
    BY NatLessThanWellFounded
  <1> HIDE DEF R
  <1>3. \E x \in S : \A y \in S : ~ (<<y, x>> \in R)
    BY <1>2, WFMin, Zenon
  <1>4. PICK x \in S : \A y \in S : ~ (<<y, x>> \in R)
    BY <1>3
  <1>5. \A y \in S : ~ (y < x)
    BY <1>1, <1>4, Zenon
  <1>6. \A y \in S : x <= y
    BY <1>5, SMT
  <1> QED
    BY <1>6

\* First picks one of the elements, for they have numbers.
LEMMA FirstIn ==
  ASSUME NEW S, S # {}, \A x \in S : x.id \in Nat
  PROVE  First(S) \in S
  <1>1. PICK n \in Named(S) : \A m \in Named(S) : n <= m
    BY LeastExists DEF Named
  <1>2. \E x \in S : \A y \in S : x.id <= y.id
    BY <1>1 DEF Named
  <1> QED
    BY <1>2 DEF First

\* What is said of the request alone holds as long as the request is the same.
LEMMA Frame ==
  ASSUME UNCHANGED input
  PROVE  /\ digests' = digests /\ recipes' = recipes /\ checks' = checks
         /\ large' = large
         /\ Closed' <=> Closed
         /\ Contested' <=> Contested
         /\ \A r, j : DependsOn(r, j)' <=> DependsOn(r, j)
         /\ \A r, a : Met(r, a)' <=> Met(r, a)
         /\ \A open : AllMet(open)' <=> AllMet(open)
  <1>1. /\ digests' = digests /\ recipes' = recipes /\ checks' = checks
        /\ large' = large
    BY DEF input
  <1>2. \A r, j : DependsOn(r, j)' <=> DependsOn(r, j)
    BY <1>1 DEF DependsOn
  <1>3. \A r, a : Met(r, a)' <=> Met(r, a)
    BY <1>1, <1>2 DEF Met
  <1>4. \A open : AllMet(open)' <=> AllMet(open)
    BY <1>1, <1>3 DEF AllMet
  <1>5. Closed' <=> Closed
    BY <1>1, <1>2 DEF Closed
  <1>6. Contested' <=> Contested
    BY <1>1 DEF Contested
  <1> QED
    BY <1>1, <1>2, <1>3, <1>4, <1>5, <1>6

LEMMA InitInv == Init => IInv
  <1> SUFFICES ASSUME Init PROVE IInv
    OBVIOUS
  <1>1. /\ digests \in Digests
        /\ recipes \subseteq Recipe /\ checks \subseteq Check
        /\ IsFiniteSet(checks) /\ large \in BOOLEAN
    BY InputsAssumption DEF Init
  <1>2. /\ at = "request" /\ result = None
        /\ emitted = {} /\ ordered = <<>> /\ plan = <<>>
        /\ demands = {} /\ producer = 0 /\ pending = {} /\ visited = {}
    BY DEF Init
  <1>3. Cardinality(checks) \in Nat
    BY <1>1, FS_CardinalityType
  <1>4. TypeOK
    BY <1>1, <1>2, <1>3 DEF TypeOK, Steps, Results
  <1>5. StageInv /\ GraphInv /\ SearchInv /\ OrderInv /\ PlanInv /\ ResultInv
    BY <1>2 DEF StageInv, GraphInv, SearchInv, OrderInv, PlanInv, ResultInv,
       Resolved, CatalogOpen, GraphClosed, Accepted, Sorted, Planned, None,
       HarnessAccepts
  <1> QED
    BY <1>1, <1>4, <1>5 DEF IInv

\* A rejection ends the request and has to be right.
LEMMA RejectInv ==
  ASSUME IInv, at # "done",
         NEW code \in Results \ {None, "PLANNED"},
         Reject(code),
         code = "HARNESS_PLAN_SIZE_EXCEEDED" => large,
         code = "HARNESS_PLAN_INVALID" => ~large /\ Beyond,
         code = "PLAN_CATALOG_INVALID" => ~Closed,
         code = "PLAN_CYCLE" => \E S \in SUBSET checks : Knotted(S)
  PROVE  IInv'
  <1>1. /\ at' = "done" /\ result' = code /\ UNCHANGED input
        /\ UNCHANGED <<emitted, ordered, demands, producer, pending, visited, plan>>
    BY DEF Reject, search
  <1>2. /\ digests' = digests /\ recipes' = recipes /\ checks' = checks
        /\ large' = large
        /\ Closed' <=> Closed
    BY <1>1, Frame
  <1>3. TypeOK' /\ IsFiniteSet(checks)'
    BY <1>1, <1>2 DEF IInv, TypeOK, Steps
  <1>4. ~Planned' /\ ~Resolved' /\ ~CatalogOpen' /\ ~GraphClosed' /\ ~Accepted'
          /\ ~Sorted'
    BY <1>1 DEF Planned, Resolved, CatalogOpen, GraphClosed, Accepted, Sorted
  <1>5. StageInv' /\ GraphInv' /\ SearchInv'
    BY <1>1, <1>4 DEF StageInv, GraphInv, SearchInv
  <1>6. OrderInv' /\ PlanInv'
    BY <1>1, <1>4 DEF IInv, OrderInv, PlanInv
  <1>7. ResultInv'
    <2>1. Beyond' <=> Beyond
      BY <1>1 DEF Beyond, Listed
    <2> QED
      BY <1>1, <1>2, <1>4, <2>1 DEF ResultInv, HarnessAccepts
  <1> QED
    BY <1>3, <1>5, <1>6, <1>7 DEF IInv

LEMMA RequestInv ==
  ASSUME IInv, Request
  PROVE  IInv'
  <1>1. at = "request" /\ at # "done" /\ ~Sorted /\ ~Planned /\ result = None
    BY DEF Request, IInv, StageInv, Sorted, Planned, None
  <1>2. CASE digests = "malformed"
    <2>1. Reject("PLAN_INPUT_DIGEST_INVALID")
      BY <1>2 DEF Request
    <2> QED
      BY <1>1, <2>1, RejectInv DEF Results, None
  <1>3. CASE digests # "malformed"
    <2>1. /\ at' = "resolve" /\ UNCHANGED <<result, input>>
          /\ UNCHANGED <<emitted, ordered, demands, producer, pending, visited, plan>>
      BY <1>3 DEF Request, Goto, search
    <2>2. digests' = digests /\ recipes' = recipes /\ checks' = checks /\ large' = large
      BY <2>1, Frame
    <2>3. TypeOK' /\ IsFiniteSet(checks)'
      BY <2>1, <2>2 DEF IInv, TypeOK, Steps
    <2>4. StageInv' /\ GraphInv' /\ SearchInv' /\ OrderInv' /\ PlanInv' /\ ResultInv'
      BY <1>1, <2>1, <2>2 DEF IInv, StageInv, GraphInv, SearchInv, OrderInv,
         PlanInv, ResultInv, Resolved, CatalogOpen, GraphClosed, Accepted,
         Sorted, Planned, None, HarnessAccepts
    <2> QED
      BY <2>3, <2>4 DEF IInv
  <1> QED
    BY <1>2, <1>3

LEMMA ResolveInv ==
  ASSUME IInv, Resolve
  PROVE  IInv'
  <1>1. at = "resolve" /\ at # "done" /\ ~Sorted /\ ~Planned /\ result = None
    BY DEF Resolve, IInv, StageInv, Sorted, Planned, None
  <1> DEFINE rejected == \/ \E l \in Languages : FromChecks(Part(l)) # None
                         \/ FromChecks(checks) # None
                         \/ digests = "foreign"
  <1>2. CASE rejected
    <2>1. FromChecks(checks) \in {"DUPLICATE_IDENTIFIER", "UNKNOWN_IDENTIFIER", None}
      BY DEF FromChecks
    <2>2. PICK code \in {"GIR_REJECTED", "DUPLICATE_IDENTIFIER", "UNKNOWN_IDENTIFIER",
                         "PLAN_TOOLCHAIN_DIGEST_MISMATCH"} : Reject(code)
      BY <1>2, <2>1 DEF Resolve
    <2> QED
      BY <1>1, <2>2, RejectInv DEF Results, None
  <1>3. CASE ~rejected
    <2>1. /\ at' = "emit" /\ UNCHANGED <<result, input>>
          /\ UNCHANGED <<emitted, ordered, demands, producer, pending, visited, plan>>
          /\ ~Duplicated(checks) /\ Known(checks)
      BY <1>3 DEF Resolve, FromChecks, Goto, search, None
    <2>2. digests' = digests /\ recipes' = recipes /\ checks' = checks /\ large' = large
      BY <2>1, Frame
    <2>3. TypeOK' /\ IsFiniteSet(checks)'
      BY <2>1, <2>2 DEF IInv, TypeOK, Steps
    <2>4. ~Planned' /\ ~CatalogOpen' /\ ~GraphClosed' /\ ~Accepted' /\ ~Sorted'
      BY <1>1, <2>1 DEF Planned, CatalogOpen, GraphClosed, Accepted, Sorted, None
    <2>5. StageInv'
      BY <1>1, <2>1, <2>2, <2>4 DEF IInv, StageInv
    <2>6. GraphInv' /\ SearchInv' /\ OrderInv' /\ PlanInv' /\ ResultInv'
      BY <1>1, <2>1, <2>2, <2>4 DEF IInv, GraphInv, SearchInv, OrderInv,
         PlanInv, ResultInv, None, HarnessAccepts
    <2> QED
      BY <2>3, <2>5, <2>6 DEF IInv
  <1> QED
    BY <1>2, <1>3

LEMMA EmitInv ==
  ASSUME IInv, Emit
  PROVE  IInv'
  <1>1. at = "emit" /\ at # "done" /\ ~Sorted /\ ~Planned /\ result = None
    BY DEF Emit, IInv, StageInv, Sorted, Planned, None
  <1>2. CASE checks = {}
    <2>1. Reject("PLAN_EMPTY")
      BY <1>2 DEF Emit
    <2> QED
      BY <1>1, <2>1, RejectInv DEF Results, PlanErrors, None
  <1>3. CASE checks # {} /\ Duplicated(recipes)
    <2>1. Reject("PLAN_CATALOG_INVALID") /\ ~Closed
      BY <1>3 DEF Emit, Closed
    <2> QED
      BY <1>1, <2>1, RejectInv DEF Results, PlanErrors, None
  <1>4. CASE checks # {} /\ ~Duplicated(recipes)
    <2>1. /\ at' = "graph" /\ UNCHANGED <<result, input>>
          /\ UNCHANGED <<emitted, ordered, demands, producer, pending, visited, plan>>
      BY <1>4 DEF Emit, Goto, search
    <2>2. digests' = digests /\ recipes' = recipes /\ checks' = checks /\ large' = large
      BY <2>1, Frame
    <2>3. TypeOK' /\ IsFiniteSet(checks)'
      BY <2>1, <2>2 DEF IInv, TypeOK, Steps
    <2>4. ~Planned' /\ ~GraphClosed' /\ ~Accepted' /\ ~Sorted'
      BY <1>1, <2>1 DEF Planned, GraphClosed, Accepted, Sorted, None
    <2>5. StageInv' /\ emitted = {}
      BY <1>1, <1>4, <2>1, <2>2, <2>4 DEF IInv, StageInv, Resolved
    <2>6. GraphInv' /\ SearchInv' /\ OrderInv' /\ PlanInv' /\ ResultInv'
      BY <1>1, <2>1, <2>2, <2>4, <2>5 DEF IInv, GraphInv, SearchInv, OrderInv,
         PlanInv, ResultInv, None, HarnessAccepts
    <2> QED
      BY <2>3, <2>5, <2>6 DEF IInv
  <1> QED
    BY <1>2, <1>3, <1>4

\* What is ready is an element with a number.
LEMMA ReadyIn ==
  ASSUME NEW S, Ready(S) # {}, \A x \in S : x.id \in Nat
  PROVE  /\ First(Ready(S)) \in S
         /\ First(Ready(S)).id \notin emitted
         /\ First(Ready(S)).deps \subseteq emitted
  <1>1. \A x \in Ready(S) : x.id \in Nat
    BY DEF Ready
  <1>2. First(Ready(S)) \in Ready(S)
    BY <1>1, FirstIn
  <1> QED
    BY <1>2 DEF Ready

\* If nothing is ready before everything is emitted, the rest is a knot.
LEMMA StuckIsKnotted ==
  ASSUME NEW S, Known(S), Ready(S) = {}, ~(Named(S) \subseteq emitted)
  PROVE  Knotted({x \in S : x.id \notin emitted})
  <1> DEFINE T == {x \in S : x.id \notin emitted}
  <1>1. T # {}
    BY DEF Named
  <1>2. ASSUME NEW x \in T PROVE x.deps \cap Named(T) # {}
    <2>1. PICK i \in x.deps : i \notin emitted
      BY DEF Ready
    <2>2. i \in Named(T)
      BY <2>1 DEF Known, Named
    <2> QED
      BY <2>1, <2>2
  <1> QED
    BY <1>1, <1>2 DEF Knotted

\* Emitting what is ready emits nothing of a knot.
LEMMA KnotStays ==
  ASSUME NEW S, ~Duplicated(S), NEW x \in S, x.deps \subseteq emitted,
         NEW T \in SUBSET S, Knotted(T), Named(T) \cap emitted = {}
  PROVE  Named(T) \cap (emitted \cup {x.id}) = {}
  <1>1. x \notin T
    BY DEF Knotted
  <1>2. x.id \notin Named(T)
    BY <1>1 DEF Named, Duplicated
  <1> QED
    BY <1>2

LEMMA EmitRecipeInv ==
  ASSUME IInv, EmitRecipe
  PROVE  IInv'
  <1>1. /\ at = "graph" /\ at # "done" /\ ~Sorted /\ ~Planned /\ result = None
        /\ ordered = <<>> /\ plan = <<>>
    BY DEF EmitRecipe, IInv, StageInv, Sorted, Planned, None
  <1>2. /\ checks # {} /\ ~Duplicated(recipes) /\ ~Duplicated(checks)
        /\ Known(checks)
    BY <1>1 DEF IInv, StageInv, Resolved, CatalogOpen
  <1>3. \A r \in recipes : r.id \in Nat /\ r.id \in Ids
    BY InputsAssumption DEF IInv, TypeOK, Recipe
  <1>4. CASE Named(recipes) \subseteq emitted /\ Contested
    <2>1. Reject("PLAN_CATALOG_INVALID")
      BY <1>4 DEF EmitRecipe
    <2>2. PICK r \in recipes, s \in recipes, a \in Artifacts :
             r # s /\ a \in r.outs /\ a \in s.outs
      BY <1>4 DEF Contested, IInv, TypeOK, Recipe
    <2>3. ~Closed
      BY <2>2 DEF Closed
    <2> QED
      BY <1>1, <2>1, <2>3, RejectInv DEF Results, PlanErrors, None
  <1>5. CASE Named(recipes) \subseteq emitted /\ ~Contested
    <2>1. /\ at' = "artifacts" /\ UNCHANGED <<input, result, ordered, plan>>
          /\ UNCHANGED <<producer, pending, visited>>
          /\ emitted' = {}
          /\ demands' = UNION {{r} \X r.ins : r \in recipes}
      BY <1>1, <1>5 DEF EmitRecipe
    <2>2. /\ digests' = digests /\ recipes' = recipes /\ checks' = checks
          /\ large' = large
          /\ Contested' <=> Contested
      BY <2>1, Frame
    <2>3. /\ demands' \subseteq recipes \X Artifacts
          /\ \A d \in demands' : d[2] \in d[1].ins
          /\ \A r \in recipes : \A a \in r.ins : <<r, a>> \in demands'
      BY <2>1 DEF IInv, TypeOK, Recipe
    <2>4. TypeOK' /\ IsFiniteSet(checks)'
      BY <2>1, <2>2, <2>3 DEF IInv, TypeOK, Steps
    <2>5. ~Planned' /\ ~Accepted' /\ ~Sorted'
      BY <1>1, <2>1 DEF Planned, Accepted, Sorted, None
    <2>6. StageInv'
      BY <1>1, <1>2, <2>1, <2>2, <2>5 DEF StageInv
    <2>7. \A S \in SUBSET recipes : ~Knotted(S)
      <3>1. SUFFICES ASSUME NEW S \in SUBSET recipes, Knotted(S) PROVE FALSE
        OBVIOUS
      <3>2. Named(S) \cap emitted = {}
        BY <1>1, <3>1 DEF IInv, GraphInv
      <3>3. PICK x \in S : x.id \in Named(S) /\ x.id \in Named(recipes)
        BY <3>1 DEF Knotted, Named
      <3> QED
        BY <1>5, <3>2, <3>3
    <2>8. Known(recipes)
      BY <1>1, <1>5 DEF IInv, GraphInv, Known, Named
    <2>9. GraphInv'
      BY <1>5, <2>1, <2>2, <2>7, <2>8 DEF GraphInv
    <2>10. SearchInv'
      BY <2>1, <2>2, <2>3, <2>5 DEF SearchInv, AllMet
    <2>11. OrderInv' /\ PlanInv' /\ ResultInv'
      BY <1>1, <2>1, <2>2, <2>5 DEF OrderInv, PlanInv, ResultInv, None,
         HarnessAccepts
    <2> QED
      BY <2>4, <2>6, <2>9, <2>10, <2>11 DEF IInv
  <1>6. CASE ~(Named(recipes) \subseteq emitted) /\ Ready(recipes) = {}
    <2>1. Reject("PLAN_CATALOG_INVALID")
      BY <1>6 DEF EmitRecipe
    <2>2. ~Closed
      <3>1. SUFFICES ASSUME Known(recipes) PROVE \E S \in SUBSET recipes : Knotted(S)
        BY DEF Closed, Known
      <3>2. {r \in recipes : r.id \notin emitted} \in SUBSET recipes
        OBVIOUS
      <3> QED
        BY <1>6, <3>1, <3>2, StuckIsKnotted
    <2> QED
      BY <1>1, <2>1, <2>2, RejectInv DEF Results, PlanErrors, None
  <1>7. CASE ~(Named(recipes) \subseteq emitted) /\ Ready(recipes) # {}
    <2> DEFINE x == First(Ready(recipes))
    <2>1. /\ UNCHANGED <<at, input, result, ordered, plan>>
          /\ UNCHANGED <<demands, producer, pending, visited>>
          /\ emitted' = emitted \cup {x.id}
      BY <1>7 DEF EmitRecipe, search
    <2>2. digests' = digests /\ recipes' = recipes /\ checks' = checks /\ large' = large
      BY <2>1, Frame
    <2>3. x \in recipes /\ x.deps \subseteq emitted
      BY <1>3, <1>7, ReadyIn
    <2> HIDE DEF x
    <2>4. TypeOK' /\ IsFiniteSet(checks)'
      BY <1>3, <2>1, <2>2, <2>3 DEF IInv, TypeOK
    <2>5. ~Planned' /\ ~GraphClosed' /\ ~Accepted' /\ ~Sorted' /\ Resolved'
            /\ CatalogOpen'
      BY <1>1, <2>1 DEF Planned, GraphClosed, Accepted, Sorted, Resolved,
         CatalogOpen, None
    <2>6. StageInv'
      BY <1>1, <1>2, <2>1, <2>2, <2>5 DEF StageInv
    <2>7. \A S \in SUBSET recipes : Knotted(S) => Named(S) \cap emitted' = {}
      BY <1>1, <1>2, <2>1, <2>3, KnotStays DEF IInv, GraphInv
    <2>8. \A r \in recipes : r.id \in emitted' => r.deps \subseteq emitted'
      <3>1. \A r \in recipes : r.id = x.id => r = x
        BY <1>2, <2>3 DEF Duplicated
      <3> QED
        BY <1>1, <2>1, <2>3, <3>1 DEF IInv, GraphInv
    <2>9. emitted' \subseteq Named(recipes)
      BY <1>1, <2>1, <2>3 DEF IInv, GraphInv, Named
    <2>10. GraphInv'
      BY <2>2, <2>5, <2>7, <2>8, <2>9 DEF GraphInv
    <2>11. SearchInv' /\ OrderInv' /\ PlanInv' /\ ResultInv'
      BY <1>1, <2>1, <2>2, <2>5 DEF SearchInv, OrderInv, PlanInv, ResultInv,
         None, HarnessAccepts
    <2> QED
      BY <2>4, <2>6, <2>10, <2>11 DEF IInv
  <1> QED
    BY <1>4, <1>5, <1>6, <1>7

LEMMA TakeDemandInv ==
  ASSUME IInv, TakeDemand
  PROVE  IInv'
  <1>1. /\ at = "artifacts" /\ at # "done" /\ ~Sorted /\ ~Planned
        /\ result = None /\ emitted = {} /\ ordered = <<>> /\ plan = <<>>
    BY DEF TakeDemand, IInv, StageInv, Sorted, Planned, None
  <1>2. /\ checks # {} /\ ~Duplicated(recipes) /\ ~Duplicated(checks)
        /\ Known(checks) /\ Known(recipes) /\ ~Contested
        /\ \A S \in SUBSET recipes : ~Knotted(S)
        /\ AllMet(demands) /\ \A d \in demands : d[2] \in d[1].ins
    BY <1>1 DEF IInv, StageInv, GraphInv, SearchInv, Resolved, CatalogOpen,
       GraphClosed
  <1>3. CASE demands = {}
    <2>1. /\ at' = "order" /\ UNCHANGED <<input, result, ordered, plan>>
          /\ UNCHANGED <<demands, producer, pending, visited, emitted>>
      BY <1>3 DEF TakeDemand, Goto, search
    <2>2. /\ digests' = digests /\ recipes' = recipes /\ checks' = checks
          /\ large' = large
          /\ Contested' <=> Contested
          /\ AllMet({})' <=> AllMet({})
      BY <2>1, Frame
    <2>3. TypeOK' /\ IsFiniteSet(checks)'
      BY <2>1, <2>2 DEF IInv, TypeOK, Steps
    <2>4. ~Planned' /\ ~Sorted'
      BY <1>1, <2>1 DEF Planned, Sorted, None
    <2>5. StageInv' /\ GraphInv' /\ SearchInv'
      BY <1>1, <1>2, <1>3, <2>1, <2>2, <2>4 DEF StageInv, GraphInv, SearchInv
    <2>6. OrderInv'
      <3>1. DOMAIN ordered = {} /\ Len(ordered) = 0
        BY <1>1
      <3>2. {ordered[k] : k \in DOMAIN ordered} = {}
        BY <3>1
      <3>3. Cardinality({ordered[k] : k \in DOMAIN ordered}) = Len(ordered)
        BY <3>1, <3>2, FS_EmptySet
      <3> QED
        BY <1>1, <2>1, <2>2, <2>4, <3>1, <3>3 DEF OrderInv
    <2>7. PlanInv' /\ ResultInv'
      BY <1>1, <2>1, <2>2, <2>4 DEF PlanInv, ResultInv, None, HarnessAccepts
    <2> QED
      BY <2>3, <2>5, <2>6, <2>7 DEF IInv
  <1>4. CASE demands # {}
    <2>1. PICK d \in demands :
            IF \A r \in recipes : d[2] \notin r.outs
            THEN Reject("PLAN_CATALOG_INVALID")
            ELSE /\ at' = "search"
                 /\ demands' = demands \ {d}
                 /\ producer' = (CHOOSE r \in recipes : d[2] \in r.outs).id
                 /\ pending' = d[1].deps
                 /\ visited' = {}
                 /\ UNCHANGED <<input, emitted, ordered, plan, result>>
      BY <1>4 DEF TakeDemand
    <2>2. /\ d[1] \in recipes /\ d[2] \in Artifacts /\ d[2] \in d[1].ins
          /\ d = <<d[1], d[2]>>
      BY <1>2 DEF IInv, TypeOK
    <2>3. CASE \A r \in recipes : d[2] \notin r.outs
      <3>1. Reject("PLAN_CATALOG_INVALID")
        BY <2>1, <2>3
      <3>2. ~Closed
        BY <2>2, <2>3 DEF Closed
      <3> QED
        BY <1>1, <3>1, <3>2, RejectInv DEF Results, PlanErrors, None
    <2>4. CASE ~(\A r \in recipes : d[2] \notin r.outs)
      <3>1. PICK p \in recipes : d[2] \in p.outs /\ producer' = p.id
        BY <2>1, <2>4
      <3>2. /\ at' = "search" /\ demands' = demands \ {d}
            /\ pending' = d[1].deps /\ visited' = {}
            /\ UNCHANGED <<input, emitted, ordered, plan, result>>
        BY <2>1, <2>4
      <3>3. /\ digests' = digests /\ recipes' = recipes /\ checks' = checks
            /\ large' = large
            /\ Contested' <=> Contested
            /\ \A r, a : Met(r, a)' <=> Met(r, a)
            /\ \A r, j : DependsOn(r, j)' <=> DependsOn(r, j)
        BY <3>2, Frame
      <3>4. p.id \in Ids /\ d[1].deps \subseteq Ids
        BY <2>2 DEF IInv, TypeOK, Recipe
      <3>5. TypeOK' /\ IsFiniteSet(checks)'
        BY <3>1, <3>2, <3>3, <3>4 DEF IInv, TypeOK, Steps
      <3>6. ~Planned' /\ ~Sorted' /\ ~Accepted'
        BY <1>1, <3>2 DEF Planned, Sorted, Accepted, None
      <3>7. StageInv' /\ GraphInv'
        BY <1>1, <1>2, <3>2, <3>3, <3>6 DEF StageInv, GraphInv
      <3>8. demands' \cup {<<d[1], d[2]>>} = demands
        BY <2>2, <3>2
      <3>9. AllMet(demands \cup {<<d[1], d[2]>>})'
        <4>1. \A r \in recipes : \A a \in r.ins : <<r, a>> \in demands \/ Met(r, a)
          BY <1>2 DEF AllMet
        <4> QED
          BY <3>3, <3>8, <4>1 DEF AllMet
      <3>10. \A i \in pending' : DependsOn(d[1], i)'
        BY <3>2, <3>3 DEF DependsOn
      <3>11. pending' \cup visited' \subseteq Named(recipes)
        BY <1>2, <2>2, <3>2 DEF Known
      <3>12. SearchInv'
        BY <1>2, <2>2, <3>1, <3>2, <3>3, <3>6, <3>9, <3>10, <3>11 DEF SearchInv
      <3>13. OrderInv' /\ PlanInv' /\ ResultInv'
        BY <1>1, <3>2, <3>3, <3>6 DEF OrderInv, PlanInv, ResultInv, None,
           HarnessAccepts
      <3> QED
        BY <3>5, <3>7, <3>12, <3>13 DEF IInv
    <2> QED
      BY <2>3, <2>4
  <1> QED
    BY <1>3, <1>4

LEMMA SearchStepInv ==
  ASSUME IInv, Search
  PROVE  IInv'
  <1>1. /\ at = "search" /\ at # "done" /\ ~Sorted /\ ~Planned
        /\ result = None /\ emitted = {} /\ ordered = <<>> /\ plan = <<>>
    BY DEF Search, IInv, StageInv, Sorted, Planned, None
  <1>2. /\ checks # {} /\ ~Duplicated(recipes) /\ ~Duplicated(checks)
        /\ Known(checks) /\ Known(recipes) /\ ~Contested
        /\ \A S \in SUBSET recipes : ~Knotted(S)
        /\ \A d \in demands : d[2] \in d[1].ins
    BY <1>1 DEF IInv, StageInv, GraphInv, SearchInv, Resolved, CatalogOpen,
       GraphClosed
  <1>3. PICK r \in recipes : \E a \in r.ins : \E p \in recipes :
          /\ AllMet(demands \cup {<<r, a>>})
          /\ a \in p.outs /\ producer = p.id /\ producer \notin visited
          /\ pending \cup visited \subseteq Named(recipes)
          /\ \A i \in pending : DependsOn(r, i)
          /\ r.deps \subseteq pending \cup visited
          /\ \A s \in recipes :
               s.id \in visited => s.deps \subseteq pending \cup visited
    BY <1>1 DEF IInv, SearchInv
  <1>4. PICK a \in r.ins, p \in recipes :
          /\ AllMet(demands \cup {<<r, a>>})
          /\ a \in p.outs /\ producer = p.id /\ producer \notin visited
          /\ pending \cup visited \subseteq Named(recipes)
          /\ \A i \in pending : DependsOn(r, i)
          /\ r.deps \subseteq pending \cup visited
          /\ \A s \in recipes :
               s.id \in visited => s.deps \subseteq pending \cup visited
    BY <1>3
  <1>5. a \in Artifacts /\ p.id \in Ids
    BY DEF IInv, TypeOK, Recipe
  <1>6. CASE pending = {}
    <2>1. Reject("PLAN_CATALOG_INVALID")
      BY <1>6 DEF Search
    <2>2. ~DependsOn(r, p.id)
      <3>1. visited \in SUBSET Named(recipes)
        BY <1>4
      <3> QED
        BY <1>4, <1>6, <3>1 DEF DependsOn
    <2>3. ~Closed
      BY <1>4, <1>5, <2>2 DEF Closed
    <2> QED
      BY <1>1, <2>1, <2>3, RejectInv DEF Results, PlanErrors, None
  <1>7. CASE pending # {}
    <2>1. PICK i \in pending :
            IF i = producer THEN Goto("artifacts")
            ELSE IF i \notin visited \cup Named(recipes)
            THEN Reject("PLAN_CATALOG_INVALID")
            ELSE /\ Expand(i)
                 /\ UNCHANGED <<input, at, emitted, ordered, demands, producer,
                                plan, result>>
      BY <1>7 DEF Search
    <2>2. i \in Named(recipes) /\ DependsOn(r, i)
      BY <1>4
    <2>3. CASE i = producer
      <3>1. /\ at' = "artifacts" /\ UNCHANGED <<input, result, ordered, plan>>
            /\ UNCHANGED <<demands, producer, pending, visited, emitted>>
        BY <2>1, <2>3 DEF Goto, search
      <3>2. /\ digests' = digests /\ recipes' = recipes /\ checks' = checks
            /\ large' = large
            /\ Contested' <=> Contested
            /\ \A x, y : Met(x, y)' <=> Met(x, y)
        BY <3>1, Frame
      <3>3. TypeOK' /\ IsFiniteSet(checks)'
        BY <3>1, <3>2 DEF IInv, TypeOK, Steps
      <3>4. ~Planned' /\ ~Sorted' /\ ~Accepted'
        BY <1>1, <3>1 DEF Planned, Sorted, Accepted, None
      <3>5. StageInv' /\ GraphInv'
        BY <1>1, <1>2, <3>1, <3>2, <3>4 DEF StageInv, GraphInv
      <3>6. Met(r, a)
        BY <1>4, <2>2, <2>3 DEF Met
      <3>7. AllMet(demands)'
        BY <1>4, <3>1, <3>2, <3>6 DEF AllMet
      <3>8. SearchInv'
        BY <1>2, <3>1, <3>4, <3>7 DEF SearchInv
      <3>9. OrderInv' /\ PlanInv' /\ ResultInv'
        BY <1>1, <3>1, <3>2, <3>4 DEF OrderInv, PlanInv, ResultInv, None,
           HarnessAccepts
      <3> QED
        BY <3>3, <3>5, <3>8, <3>9 DEF IInv
    <2>4. CASE i # producer
      <3>1. /\ Expand(i)
            /\ UNCHANGED <<input, at, emitted, ordered, demands, producer,
                           plan, result>>
        BY <2>1, <2>2, <2>4
      <3>2. /\ digests' = digests /\ recipes' = recipes /\ checks' = checks
            /\ large' = large
            /\ Contested' <=> Contested
            /\ \A open : AllMet(open)' <=> AllMet(open)
            /\ \A x, y : Met(x, y)' <=> Met(x, y)
            /\ \A x, j : DependsOn(x, j)' <=> DependsOn(x, j)
        BY <3>1, Frame
      <3> DEFINE next == UNION {s.deps : s \in {t \in recipes : t.id = i}}
      <3>3. /\ visited' = visited \cup {i}
            /\ pending' \subseteq pending \cup next
            /\ pending \cup visited \subseteq pending' \cup visited'
            /\ i \notin visited => next \subseteq pending'
        BY <3>1 DEF Expand
      <3>4. next \subseteq Named(recipes) /\ next \subseteq Ids
        BY <1>2 DEF Known, IInv, TypeOK, Recipe
      <3>5. \A j \in next : DependsOn(r, j)
        BY <2>2 DEF DependsOn
      <3>6. \A s \in recipes : s.id = i => s.deps \subseteq pending' \cup visited'
        <4>1. CASE i \in visited
          BY <1>4, <3>3, <4>1
        <4>2. CASE i \notin visited
          BY <3>3, <4>2
        <4> QED
          BY <4>1, <4>2
      <3>7. pending' \subseteq Ids /\ visited' \subseteq Ids
        BY <3>3, <3>4 DEF IInv, TypeOK
      <3>8. /\ producer \notin visited'
            /\ pending' \cup visited' \subseteq Named(recipes)
            /\ \A j \in pending' : DependsOn(r, j)
            /\ r.deps \subseteq pending' \cup visited'
            /\ \A s \in recipes :
                 s.id \in visited' => s.deps \subseteq pending' \cup visited'
        <4> HIDE DEF next
        <4> QED
          BY <1>4, <2>2, <2>4, <3>3, <3>4, <3>5, <3>6
      <3>9. TypeOK' /\ IsFiniteSet(checks)'
        BY <3>1, <3>2, <3>7 DEF IInv, TypeOK
      <3>10. ~Planned' /\ ~Sorted' /\ ~Accepted'
        BY <1>1, <3>1 DEF Planned, Sorted, Accepted, None
      <3>11. StageInv' /\ GraphInv'
        BY <1>1, <1>2, <3>1, <3>2, <3>10 DEF StageInv, GraphInv
      <3>12. AllMet(demands \cup {<<r, a>>})'
        BY <1>4, <3>1, <3>2 DEF AllMet
      <3>13. SearchInv'
        <4>1. /\ a \in p.outs /\ producer' = p.id
              /\ \A j \in pending' : DependsOn(r, j)'
          BY <1>4, <3>1, <3>2, <3>8
        <4>2. at' = "search" /\ recipes' = recipes /\ demands' = demands
              /\ producer' = producer
          BY <1>1, <3>1, <3>2
        <4> QED
          BY <1>2, <3>8, <3>10, <3>12, <4>1, <4>2 DEF SearchInv
      <3>14. OrderInv' /\ PlanInv' /\ ResultInv'
        BY <1>1, <3>1, <3>2, <3>10 DEF OrderInv, PlanInv, ResultInv, None,
           HarnessAccepts
      <3> QED
        BY <3>9, <3>11, <3>13, <3>14 DEF IInv
    <2> QED
      BY <2>3, <2>4
  <1> QED
    BY <1>6, <1>7

LEMMA EmitCheckInv ==
  ASSUME IInv, EmitCheck
  PROVE  IInv'
  <1>1. /\ at = "order" /\ at # "done" /\ ~Sorted /\ ~Planned
        /\ result = None /\ plan = <<>>
    BY DEF EmitCheck, IInv, StageInv, Sorted, Planned, None
  <1>2. /\ checks # {} /\ ~Duplicated(recipes) /\ ~Duplicated(checks)
        /\ Known(checks) /\ Known(recipes) /\ ~Contested
        /\ \A S \in SUBSET recipes : ~Knotted(S)
        /\ AllMet({})
    BY <1>1 DEF IInv, StageInv, GraphInv, SearchInv, Resolved, CatalogOpen,
       GraphClosed, Accepted
  <1>3. /\ emitted = {ordered[k].id : k \in DOMAIN ordered}
        /\ Cardinality({ordered[k] : k \in DOMAIN ordered}) = Len(ordered)
        /\ \A S \in SUBSET checks : Knotted(S) => Named(S) \cap emitted = {}
    BY <1>1 DEF IInv, OrderInv
  <1>4. \A c \in checks : c.id \in Nat /\ c.id \in Ids
    BY InputsAssumption DEF IInv, TypeOK, Check
  <1>5. CASE Named(checks) \subseteq emitted
    <2>1. /\ at' = "bind" /\ UNCHANGED <<input, result, ordered, plan>>
          /\ UNCHANGED <<demands, producer, pending, visited, emitted>>
      BY <1>5 DEF EmitCheck, Goto, search
    <2>2. /\ digests' = digests /\ recipes' = recipes /\ checks' = checks
          /\ large' = large
          /\ Contested' <=> Contested
          /\ AllMet({})' <=> AllMet({})
      BY <2>1, Frame
    <2>3. TypeOK' /\ IsFiniteSet(checks)'
      BY <2>1, <2>2 DEF IInv, TypeOK, Steps
    <2>4. ~Planned'
      BY <1>1, <2>1 DEF Planned, None
    <2>5. StageInv' /\ GraphInv' /\ SearchInv'
      BY <1>1, <1>2, <2>1, <2>2, <2>4 DEF StageInv, GraphInv, SearchInv, Sorted
    <2>6. \A S \in SUBSET checks : ~Knotted(S)
      <3>1. SUFFICES ASSUME NEW S \in SUBSET checks, Knotted(S) PROVE FALSE
        OBVIOUS
      <3>2. PICK x \in S : x.id \in Named(S) /\ x.id \in Named(checks)
        BY <3>1 DEF Knotted, Named
      <3> QED
        BY <1>3, <1>5, <3>1, <3>2
    <2>7. OrderInv'
      BY <1>3, <1>5, <2>1, <2>2, <2>6 DEF IInv, OrderInv
    <2>8. PlanInv' /\ ResultInv'
      BY <1>1, <2>1, <2>2, <2>4 DEF IInv, PlanInv, ResultInv, None,
         HarnessAccepts
    <2> QED
      BY <2>3, <2>5, <2>7, <2>8 DEF IInv
  <1>6. CASE ~(Named(checks) \subseteq emitted) /\ Ready(checks) = {}
    <2>1. Reject("PLAN_CYCLE")
      BY <1>6 DEF EmitCheck
    <2>2. {c \in checks : c.id \notin emitted} \in SUBSET checks
      OBVIOUS
    <2>3. \E S \in SUBSET checks : Knotted(S)
      BY <1>2, <1>6, <2>2, StuckIsKnotted
    <2> QED
      BY <1>1, <2>1, <2>3, RejectInv DEF Results, PlanErrors, None
  <1>7. CASE ~(Named(checks) \subseteq emitted) /\ Ready(checks) # {}
    <2> DEFINE x == First(Ready(checks))
               n == Len(ordered)
    <2>1. /\ UNCHANGED <<at, input, result, plan>>
          /\ UNCHANGED <<demands, producer, pending, visited>>
          /\ ordered' = Append(ordered, x)
          /\ emitted' = emitted \cup {x.id}
      BY <1>7 DEF EmitCheck, search
    <2>2. /\ digests' = digests /\ recipes' = recipes /\ checks' = checks
          /\ large' = large
          /\ Contested' <=> Contested
          /\ AllMet({})' <=> AllMet({})
      BY <2>1, Frame
    <2>3. x \in checks /\ x.id \notin emitted /\ x.deps \subseteq emitted
      BY <1>4, <1>7, ReadyIn
    <2> HIDE DEF x
    <2>4. /\ ordered \in Seq(checks) /\ n \in Nat /\ DOMAIN ordered = 1..n
          /\ ordered' \in Seq(checks) /\ Len(ordered') = n + 1
          /\ DOMAIN ordered' = 1..(n + 1)
          /\ ordered'[n + 1] = x
          /\ \A k \in 1..n : ordered'[k] = ordered[k]
      BY <2>1, <2>3 DEF IInv, TypeOK
    <2> HIDE DEF n
    <2>5. {ordered'[k] : k \in DOMAIN ordered'} =
            {ordered[k] : k \in DOMAIN ordered} \cup {x}
      BY <2>4
    <2>6. {ordered'[k].id : k \in DOMAIN ordered'} = emitted'
      <3>1. emitted = {ordered[k].id : k \in 1..n}
        BY <1>3, <2>4
      <3>2. {ordered'[k].id : k \in 1..n} = {ordered[k].id : k \in 1..n}
        BY <2>4
      <3>3. 1..(n + 1) = 1..n \cup {n + 1}
        BY <2>4
      <3>4. {ordered'[k].id : k \in 1..(n + 1)} =
              {ordered'[k].id : k \in 1..n} \cup {ordered'[n + 1].id}
        BY <3>3
      <3> QED
        BY <2>1, <2>4, <3>1, <3>2, <3>4
    <2>7. Cardinality({ordered'[k] : k \in DOMAIN ordered'}) = n + 1
          /\ n + 1 <= Cardinality(checks)
      <3> DEFINE old == {ordered[k] : k \in DOMAIN ordered}
      <3>1. old \in SUBSET checks /\ x \notin old
        <4>1. \A k \in DOMAIN ordered : ordered[k] \in checks
          BY <2>4
        <4>2. \A k \in DOMAIN ordered : ordered[k].id \in emitted
          BY <1>3
        <4> QED
          BY <2>3, <4>1, <4>2
      <3>2. IsFiniteSet(old) /\ IsFiniteSet(checks)
        BY <3>1, FS_Subset DEF IInv
      <3>3. Cardinality(old) = n
        BY <1>3 DEF n
      <3> HIDE DEF old
      <3>4. Cardinality(old \cup {x}) = n + 1
        BY <3>1, <3>2, <3>3, FS_AddElement
      <3>5. Cardinality(old \cup {x}) <= Cardinality(checks)
        <4>1. old \cup {x} \in SUBSET checks
          BY <2>3, <3>1
        <4> QED
          BY <3>2, <4>1, FS_Subset
      <3> QED
        BY <2>5, <3>4, <3>5 DEF old
    <2>8. TypeOK' /\ IsFiniteSet(checks)'
      BY <1>4, <2>1, <2>2, <2>3, <2>4, <2>7 DEF IInv, TypeOK
    <2>9. ~Planned' /\ ~Sorted'
      BY <1>1, <2>1 DEF Planned, Sorted, None
    <2>10. StageInv' /\ GraphInv' /\ SearchInv'
      BY <1>1, <1>2, <2>1, <2>2, <2>9 DEF StageInv, GraphInv, SearchInv
    <2>11. \A S \in SUBSET checks : Knotted(S) => Named(S) \cap emitted' = {}
      BY <1>2, <1>3, <2>1, <2>3, KnotStays
    <2>12. \A k \in DOMAIN ordered' :
             /\ \A i \in ordered'[k].deps :
                  \E j \in 1..(k - 1) : ordered'[j].id = i
             /\ \A j \in 1..(k - 1) : ordered'[j].id # ordered'[k].id
      <3>1. ASSUME NEW k \in 1..n
            PROVE  /\ \A i \in ordered'[k].deps :
                        \E j \in 1..(k - 1) : ordered'[j].id = i
                   /\ \A j \in 1..(k - 1) : ordered'[j].id # ordered'[k].id
        <4>1. \A j \in 1..(k - 1) : ordered'[j] = ordered[j]
          BY <2>4
        <4>2. ordered'[k] = ordered[k]
          BY <2>4
        <4>3. /\ \A i \in ordered[k].deps :
                   \E j \in 1..(k - 1) : ordered[j].id = i
              /\ \A j \in 1..(k - 1) : ordered[j].id # ordered[k].id
          BY <2>4 DEF IInv, OrderInv
        <4> QED
          BY <4>1, <4>2, <4>3
      <3>2. \A i \in x.deps : \E j \in 1..n : ordered'[j].id = i
        <4>1. \A i \in emitted : \E j \in 1..n : ordered[j].id = i
          BY <1>3, <2>4
        <4> QED
          BY <2>3, <2>4, <4>1
      <3>3. \A j \in 1..n : ordered'[j].id # x.id
        BY <1>3, <2>3, <2>4
      <3>4. /\ \A i \in ordered'[n + 1].deps :
                 \E j \in 1..((n + 1) - 1) : ordered'[j].id = i
            /\ \A j \in 1..((n + 1) - 1) : ordered'[j].id # ordered'[n + 1].id
        BY <2>4, <3>2, <3>3
      <3> QED
        BY <2>4, <3>1, <3>4
    <2>13. OrderInv'
      BY <2>2, <2>4, <2>6, <2>7, <2>9, <2>11, <2>12 DEF OrderInv
    <2>14. PlanInv' /\ ResultInv'
      BY <1>1, <2>1, <2>2, <2>4, <2>9 DEF IInv, PlanInv, ResultInv, None,
         HarnessAccepts
    <2> QED
      BY <2>8, <2>10, <2>13, <2>14 DEF IInv
  <1> QED
    BY <1>5, <1>6, <1>7

LEMMA BindInv ==
  ASSUME IInv, Bind
  PROVE  IInv'
  <1>1. /\ at = "bind" /\ at # "done" /\ ~Planned /\ result = None
    BY DEF Bind, IInv, StageInv, Planned, None
  <1>2. /\ checks # {} /\ ~Duplicated(recipes) /\ ~Duplicated(checks)
        /\ Known(checks) /\ Known(recipes) /\ ~Contested
        /\ \A S \in SUBSET recipes : ~Knotted(S)
        /\ AllMet({})
        /\ Named(checks) \subseteq {ordered[k].id : k \in DOMAIN ordered}
        /\ \A S \in SUBSET checks : ~Knotted(S)
    BY <1>1 DEF IInv, StageInv, GraphInv, SearchInv, OrderInv, Resolved,
       CatalogOpen, GraphClosed, Accepted, Sorted
  <1>3. /\ ordered \in Seq(checks) /\ plan \in Seq(recipes)
        /\ Len(ordered) \in Nat /\ Len(plan) \in Nat
        /\ Len(plan) <= Len(ordered)
    BY DEF IInv, TypeOK, PlanInv
  <1> DEFINE k == Len(plan) + 1
             bound == {r \in recipes : r.id = ordered[k].id}
  <1>4. CASE k > Len(ordered)
    <2>1. /\ at' = "load" /\ result' = "PLANNED" /\ emitted' = {}
          /\ UNCHANGED <<input, ordered, plan>>
          /\ UNCHANGED <<demands, producer, pending, visited>>
      BY <1>4 DEF Bind, search
    <2>2. /\ digests' = digests /\ recipes' = recipes /\ checks' = checks
          /\ large' = large
          /\ Contested' <=> Contested
          /\ AllMet({})' <=> AllMet({})
      BY <2>1, Frame
    <2>3. TypeOK' /\ IsFiniteSet(checks)'
      BY <2>1, <2>2 DEF IInv, TypeOK, Steps, Results
    <2>4. Planned' /\ Sorted'
      BY <2>1 DEF Planned, Sorted
    <2>5. StageInv' /\ GraphInv' /\ SearchInv'
      BY <1>2, <2>1, <2>2, <2>4 DEF StageInv, GraphInv, SearchInv
    <2>6. OrderInv'
      BY <1>2, <2>1, <2>2 DEF IInv, OrderInv
    <2>7. PlanInv' /\ ResultInv'
      BY <1>3, <1>4, <2>1, <2>2 DEF IInv, PlanInv, ResultInv, HarnessAccepts
    <2> QED
      BY <2>3, <2>5, <2>6, <2>7 DEF IInv
  <1>5. CASE k <= Len(ordered) /\ bound = {}
    <2>1. Reject("PLAN_UNKNOWN_CHECK")
      BY <1>3, <1>5 DEF Bind
    <2> QED
      BY <1>1, <2>1, RejectInv DEF Results, PlanErrors, None
  <1>6. CASE k <= Len(ordered) /\ bound # {} /\ \E r \in bound : ~Agrees(ordered[k], r)
    <2>1. Reject("PLAN_RECIPE_MISMATCH")
      BY <1>3, <1>6 DEF Bind
    <2> QED
      BY <1>1, <2>1, RejectInv DEF Results, PlanErrors, None
  <1>7. CASE k <= Len(ordered) /\ bound # {} /\ ~ \E r \in bound : ~Agrees(ordered[k], r)
    <2>1. PICK r \in bound : plan' = Append(plan, r)
      BY <1>3, <1>7 DEF Bind
    <2>2. /\ UNCHANGED <<input, at, emitted, ordered, result>>
          /\ UNCHANGED <<demands, producer, pending, visited>>
      BY <1>3, <1>7 DEF Bind, search
    <2>3. /\ digests' = digests /\ recipes' = recipes /\ checks' = checks
          /\ large' = large
          /\ Contested' <=> Contested
          /\ AllMet({})' <=> AllMet({})
      BY <2>2, Frame
    <2>4. r \in recipes /\ r.id = ordered[k].id /\ r.deps = ordered[k].deps
      BY <1>7, <2>1 DEF Agrees
    <2>5. /\ plan' \in Seq(recipes) /\ Len(plan') = k
          /\ DOMAIN plan' = 1..k /\ DOMAIN plan = 1..(k - 1)
          /\ plan'[k] = r
          /\ \A j \in 1..(k - 1) : plan'[j] = plan[j]
      BY <1>3, <2>1, <2>4
    <2>6. TypeOK' /\ IsFiniteSet(checks)'
      BY <2>2, <2>3, <2>5 DEF IInv, TypeOK
    <2>7. ~Planned' /\ Sorted'
      BY <1>1, <2>2 DEF Planned, Sorted
    <2>8. StageInv' /\ GraphInv' /\ SearchInv'
      BY <1>1, <1>2, <2>2, <2>3, <2>7 DEF StageInv, GraphInv, SearchInv
    <2>9. OrderInv'
      BY <1>1, <1>2, <2>2, <2>3 DEF IInv, OrderInv
    <2>10. PlanInv'
      <3>1. ASSUME NEW j \in 1..k
            PROVE  plan'[j].id = ordered[j].id /\ plan'[j].deps = ordered[j].deps
        <4>1. CASE j = k
          BY <2>4, <2>5, <4>1
        <4>2. CASE j # k
          <5>1. j \in 1..(k - 1)
            BY <1>3, <4>2
          <5> QED
            BY <2>5, <5>1 DEF IInv, PlanInv
        <4> QED
          BY <4>1, <4>2
      <3>2. Len(plan') <= Len(ordered')
        BY <1>7, <2>2, <2>5
      <3> QED
        BY <2>2, <2>5, <2>7, <3>1, <3>2 DEF PlanInv
    <2>11. ResultInv'
      BY <1>1, <2>2 DEF ResultInv, None, HarnessAccepts
    <2> QED
      BY <2>6, <2>8, <2>9, <2>10, <2>11 DEF IInv
  <1> QED
    BY <1>3, <1>4, <1>5, <1>6, <1>7

LEMMA OrderedFromInv ==
  ASSUME IInv
  PROVE  PlanOrdered
  <1> SUFFICES ASSUME Planned
      PROVE  /\ {ordered[k] : k \in DOMAIN ordered} = checks
             /\ Len(plan) = Len(ordered)
             /\ \A k \in DOMAIN plan :
                  /\ plan[k].id = ordered[k].id /\ plan[k].deps = ordered[k].deps
                  /\ \A i \in plan[k].deps : \E j \in 1..(k - 1) : plan[j].id = i
                  /\ \A j \in 1..(k - 1) : plan[j].id # plan[k].id
    BY DEF PlanOrdered
  <1>1. /\ ~Duplicated(checks)
        /\ Named(checks) \subseteq {ordered[k].id : k \in DOMAIN ordered}
        /\ Len(plan) = Len(ordered)
    BY DEF IInv, StageInv, OrderInv, PlanInv, Sorted
  <1>2. /\ ordered \in Seq(checks) /\ plan \in Seq(recipes)
        /\ DOMAIN plan = 1..Len(ordered) /\ DOMAIN ordered = 1..Len(ordered)
    BY <1>1 DEF IInv, TypeOK
  <1>3. {ordered[k] : k \in DOMAIN ordered} = checks
    <2>1. ASSUME NEW c \in checks PROVE \E k \in DOMAIN ordered : ordered[k] = c
      <3>1. PICK k \in DOMAIN ordered : ordered[k].id = c.id
        BY <1>1 DEF Named
      <3> QED
        BY <1>1, <1>2, <3>1 DEF Duplicated
    <2>2. \A k \in DOMAIN ordered : ordered[k] \in checks
      BY <1>2
    <2> QED
      BY <2>1, <2>2
  <1>4. ASSUME NEW k \in DOMAIN plan
        PROVE  /\ plan[k].id = ordered[k].id /\ plan[k].deps = ordered[k].deps
               /\ \A i \in plan[k].deps : \E j \in 1..(k - 1) : plan[j].id = i
               /\ \A j \in 1..(k - 1) : plan[j].id # plan[k].id
    <2>1. \A j \in DOMAIN plan :
            plan[j].id = ordered[j].id /\ plan[j].deps = ordered[j].deps
      BY DEF IInv, PlanInv
    <2>2. /\ \A i \in ordered[k].deps : \E j \in 1..(k - 1) : ordered[j].id = i
          /\ \A j \in 1..(k - 1) : ordered[j].id # ordered[k].id
      BY <1>2 DEF IInv, OrderInv
    <2>3. Len(ordered) \in Nat /\ \A j \in 1..(k - 1) : j \in DOMAIN plan
      BY <1>2
    <2> QED
      BY <2>1, <2>2, <2>3
  <1> QED
    BY <1>1, <1>3, <1>4

\* What the harness reads is complete and can be ordered, because the plan is
\* the project, reordered.
LEMMA LoadedPlan ==
  ASSUME IInv, at = "load"
  PROVE  /\ plan # <<>> /\ ~Repeats /\ Known(Listed)
         /\ ~(Named(Listed) \subseteq emitted) => Ready(Listed) # {}
  <1>1. /\ Planned /\ Sorted /\ checks # {} /\ ~Duplicated(checks)
        /\ \A S \in SUBSET checks : ~Knotted(S)
    BY DEF IInv, StageInv, OrderInv, CatalogOpen, Resolved, Sorted
  <1>2. /\ {ordered[k] : k \in DOMAIN ordered} = checks
        /\ Len(plan) = Len(ordered)
        /\ \A k \in DOMAIN plan :
             /\ plan[k].id = ordered[k].id /\ plan[k].deps = ordered[k].deps
             /\ \A i \in plan[k].deps : \E j \in 1..(k - 1) : plan[j].id = i
             /\ \A j \in 1..(k - 1) : plan[j].id # plan[k].id
    BY <1>1, OrderedFromInv DEF PlanOrdered
  <1>3. /\ ordered \in Seq(checks) /\ plan \in Seq(recipes)
        /\ Len(ordered) \in Nat /\ DOMAIN ordered = 1..Len(ordered)
        /\ DOMAIN plan = 1..Len(ordered)
    BY <1>2 DEF IInv, TypeOK
  <1>4. plan # <<>>
    <2>1. PICK k \in DOMAIN ordered : TRUE
      BY <1>1, <1>2
    <2> QED
      BY <1>3, <2>1
  <1>5. ~Repeats
    <2>1. SUFFICES ASSUME NEW j \in DOMAIN plan, NEW k \in DOMAIN plan,
                          j # k, plan[j].id = plan[k].id
                   PROVE  FALSE
      BY DEF Repeats
    <2>2. CASE j < k
      <3>1. j \in 1..(k - 1)
        BY <1>3, <2>2
      <3>2. plan[j].id # plan[k].id
        BY <1>2, <3>1, Zenon
      <3> QED
        BY <2>1, <3>2
    <2>3. CASE k < j
      <3>1. k \in 1..(j - 1)
        BY <1>3, <2>3
      <3>2. plan[k].id # plan[j].id
        BY <1>2, <3>1, Zenon
      <3> QED
        BY <2>1, <3>2
    <2> QED
      BY <1>3, <2>1, <2>2, <2>3
  <1>6. Known(Listed)
    <2>1. SUFFICES ASSUME NEW k \in DOMAIN plan, NEW i \in plan[k].deps
                   PROVE  i \in Named(Listed)
      BY DEF Known, Listed
    <2>2. PICK j \in 1..(k - 1) : plan[j].id = i
      BY <1>2
    <2>3. j \in DOMAIN plan
      BY <1>3
    <2> QED
      BY <2>2, <2>3 DEF Named, Listed
  <1>7. ASSUME ~(Named(Listed) \subseteq emitted), Ready(Listed) = {} PROVE FALSE
    <2> DEFINE T == {r \in Listed : r.id \notin emitted}
               C == {c \in checks : c.id \in Named(T)}
    <2>1. Knotted(T)
      BY <1>6, <1>7, StuckIsKnotted
    <2>2. \A r \in T : \E c \in C : c.id = r.id /\ c.deps = r.deps
      <3>1. SUFFICES ASSUME NEW r \in T PROVE \E c \in C : c.id = r.id /\ c.deps = r.deps
        OBVIOUS
      <3>2. PICK k \in DOMAIN plan : r = plan[k]
        BY DEF Listed
      <3>3. ordered[k] \in checks /\ ordered[k].id = r.id /\ ordered[k].deps = r.deps
        BY <1>2, <1>3, <3>2
      <3>4. ordered[k] \in C
        BY <3>3 DEF Named
      <3> QED
        BY <3>3, <3>4
    <2> HIDE DEF T
    <2>3. C # {} /\ Named(T) \subseteq Named(C)
      BY <2>1, <2>2 DEF Knotted, Named
    <2>4. ASSUME NEW c \in C PROVE c.deps \cap Named(C) # {}
      <3>1. PICK r \in T : r.id = c.id
        BY DEF Named
      <3>2. PICK d \in C : d.id = r.id /\ d.deps = r.deps
        BY <2>2
      <3>3. d = c
        BY <1>1, <3>1, <3>2 DEF Duplicated
      <3> QED
        BY <2>1, <2>3, <3>2, <3>3 DEF Knotted
    <2>5. Knotted(C)
      BY <2>3, <2>4 DEF Knotted
    <2> QED
      BY <1>1, <2>5
  <1> QED
    BY <1>4, <1>5, <1>6, <1>7

LEMMA LoadInv ==
  ASSUME IInv, Load
  PROVE  IInv'
  <1>1. at = "load" /\ at # "done" /\ Planned /\ Sorted /\ Accepted /\ GraphClosed
    BY DEF Load, IInv, StageInv, Sorted, Accepted, GraphClosed
  <1>2. /\ plan # <<>> /\ ~Repeats /\ Known(Listed)
        /\ ~(Named(Listed) \subseteq emitted) => Ready(Listed) # {}
    BY <1>1, LoadedPlan
  <1>3. CASE large
    <2>1. Reject("HARNESS_PLAN_SIZE_EXCEEDED")
      BY <1>3 DEF Load
    <2> QED
      BY <1>1, <1>3, <2>1, RejectInv DEF Results, None
  <1>4. CASE ~large /\ Beyond
    <2>1. Reject("HARNESS_PLAN_INVALID")
      BY <1>4 DEF Load
    <2> QED
      BY <1>1, <1>4, <2>1, RejectInv DEF Results, None
  <1>5. CASE ~large /\ ~Beyond
    <2>1. \/ at' = "done" /\ emitted' = emitted
          \/ at' = "load" /\ emitted' = emitted \cup Named(Ready(Listed))
      BY <1>1, <1>2, <1>5 DEF Load, Goto
    <2>2. /\ UNCHANGED <<input, result, ordered, plan>>
          /\ UNCHANGED <<demands, producer, pending, visited>>
      BY <1>2, <1>5 DEF Load, Goto, search
    <2>3. /\ digests' = digests /\ recipes' = recipes /\ checks' = checks
          /\ large' = large
          /\ Contested' <=> Contested
          /\ AllMet({})' <=> AllMet({})
      BY <2>2, Frame
    <2>4. emitted' \subseteq Ids
      <3>1. Listed \subseteq recipes
        BY DEF IInv, TypeOK, Listed
      <3>2. \A r \in Ready(Listed) : r.id \in Ids
        BY <3>1 DEF Ready, IInv, TypeOK, Recipe
      <3> QED
        BY <2>1, <3>2 DEF Named, IInv, TypeOK
    <2>5. TypeOK' /\ IsFiniteSet(checks)'
      BY <2>1, <2>2, <2>3, <2>4 DEF IInv, TypeOK, Steps
    <2>6. Planned' /\ Sorted'
      BY <1>1, <2>2 DEF Planned, Sorted
    <2>7. StageInv'
      BY <1>1, <2>1, <2>2, <2>3, <2>6 DEF IInv, StageInv, Planned, None
    <2>8. GraphInv' /\ SearchInv' /\ OrderInv' /\ PlanInv'
      BY <1>1, <2>1, <2>2, <2>3, <2>6 DEF IInv, GraphInv, SearchInv, OrderInv,
         PlanInv, Planned
    <2>9. ResultInv'
      <3>1. Beyond' <=> Beyond
        BY <2>2 DEF Beyond, Listed
      <3> QED
        BY <1>5, <2>3, <2>6, <3>1 DEF ResultInv, HarnessAccepts, Planned
    <2> QED
      BY <2>5, <2>7, <2>8, <2>9 DEF IInv
  <1> QED
    BY <1>3, <1>4, <1>5

LEMMA StutterInv ==
  ASSUME IInv, UNCHANGED vars
  PROVE  IInv'
  <1>1. /\ UNCHANGED <<digests, recipes, checks, large, at, emitted, ordered, demands>>
        /\ UNCHANGED <<producer, pending, visited, plan, result, input>>
    BY DEF vars, input
  <1>2. /\ Closed' <=> Closed
        /\ Contested' <=> Contested
        /\ \A open : AllMet(open)' <=> AllMet(open)
        /\ \A r, a : Met(r, a)' <=> Met(r, a)
        /\ \A r, j : DependsOn(r, j)' <=> DependsOn(r, j)
    BY <1>1, Frame
  <1>3. TypeOK' /\ StageInv' /\ OrderInv' /\ PlanInv' /\ ResultInv' /\ GraphInv'
    BY <1>1, <1>2 DEF IInv, TypeOK, StageInv, OrderInv, PlanInv, ResultInv,
       GraphInv, HarnessAccepts, Beyond, Listed, Planned, Resolved, CatalogOpen,
       GraphClosed, Sorted
  <1>4. SearchInv'
    BY <1>1, <1>2 DEF IInv, SearchInv, Accepted, Planned, AllMet
  <1> QED
    BY <1>1, <1>3, <1>4 DEF IInv

LEMMA NextInv ==
  ASSUME IInv, [Next]_vars
  PROVE  IInv'
  BY RequestInv, ResolveInv, EmitInv, EmitRecipeInv, TakeDemandInv,
     SearchStepInv, EmitCheckInv, BindInv, LoadInv, StutterInv
     DEF Next, Step, Done

\* The inductive invariant of planning, loop by loop (PlanEmitter, load_plan).
THEOREM Invariance == Spec => []IInv
  <1>1. Init => IInv
    BY InitInv
  <1>2. IInv /\ [Next]_vars => IInv'
    BY NextInv
  <1> QED
    BY <1>1, <1>2, PTL DEF Spec, Safety

\* The state keeps its types, and no check is ordered twice
\* (topological_checks).
THEOREM TypeCorrect == Spec => []TypeOK
  <1>1. IInv => TypeOK
    BY DEF IInv
  <1> QED
    BY <1>1, Invariance, PTL

\* Every plan is the project's checks, once each and dependencies first, for
\* every catalog and project (PlanEmitter::emit).
THEOREM PlansAreOrdered == Spec => []PlanOrdered
  <1>1. IInv => PlanOrdered
    BY OrderedFromInv
  <1> QED
    BY <1>1, Invariance, PTL

\* In every plan an artifact is written, by one check, before it is read
\* (validate_recipe_graph and bind).
THEOREM ArtifactsAreReady == Spec => []ArtifactsReady
  <1>1. IInv => ArtifactsReady
    <2> SUFFICES ASSUME IInv, Planned, NEW k \in DOMAIN plan, NEW a \in plan[k].ins
                 PROVE  \E j \in 1..(k - 1) :
                          /\ a \in plan[j].outs
                          /\ \A i \in DOMAIN plan : a \in plan[i].outs => i = j
      BY DEF ArtifactsReady
    <2>1. /\ AllMet({}) /\ ~Contested /\ ~Duplicated(recipes)
      BY DEF IInv, StageInv, SearchInv, GraphInv, Accepted, GraphClosed
    <2>2. /\ Len(plan) = Len(ordered)
          /\ \A n \in DOMAIN plan :
               /\ \A i \in plan[n].deps : \E j \in 1..(n - 1) : plan[j].id = i
               /\ \A j \in 1..(n - 1) : plan[j].id # plan[n].id
      BY OrderedFromInv DEF PlanOrdered
    <2>3. /\ plan \in Seq(recipes) /\ Len(plan) \in Nat
          /\ DOMAIN plan = 1..Len(plan) /\ recipes \subseteq Recipe
      BY DEF IInv, TypeOK
    <2>4. plan[k] \in recipes /\ a \in Artifacts
      BY <2>3 DEF Recipe
    <2>5. PICK p \in recipes : a \in p.outs /\ DependsOn(plan[k], p.id)
      BY <2>1, <2>4 DEF AllMet, Met
    <2> DEFINE S == {plan[j].id : j \in 1..(k - 1)}
    <2>6. S \in SUBSET Named(recipes)
      BY <2>3 DEF Named
    <2>7. plan[k].deps \subseteq S
      BY <2>2
    <2>8. ASSUME NEW s \in recipes, s.id \in S PROVE s.deps \subseteq S
      <3>1. PICK j \in 1..(k - 1) : plan[j].id = s.id
        BY <2>8
      <3>2. j \in DOMAIN plan /\ plan[j] \in recipes
        BY <2>3
      <3>3. plan[j] = s
        BY <2>1, <3>1, <3>2 DEF Duplicated
      <3>4. \A i \in s.deps : \E n \in 1..(j - 1) : plan[n].id = i
        BY <2>2, <3>2, <3>3
      <3>5. \A n \in 1..(j - 1) : n \in 1..(k - 1)
        BY <2>3
      <3> QED
        BY <3>4, <3>5
    <2>9. p.id \in S
      BY <2>5, <2>6, <2>7, <2>8 DEF DependsOn
    <2>10. PICK j \in 1..(k - 1) : plan[j].id = p.id
      BY <2>9
    <2>11. j \in DOMAIN plan /\ plan[j] \in recipes
      BY <2>3
    <2>12. plan[j] = p
      BY <2>1, <2>10, <2>11 DEF Duplicated
    <2>13. ASSUME NEW i \in DOMAIN plan, a \in plan[i].outs PROVE i = j
      <3>1. plan[i] \in recipes
        BY <2>3
      <3>2. plan[i] = p
        BY <2>1, <2>5, <2>13, <3>1 DEF Contested
      <3>3. ~(i < j) /\ ~(j < i)
        BY <2>2, <2>3, <2>11, <2>12, <3>2
      <3> QED
        BY <2>3, <2>11, <3>3
    <2> QED
      BY <2>5, <2>12, <2>13
  <1> QED
    BY <1>1, Invariance, PTL

\* PLAN_CYCLE names exactly the projects that have no order
\* (topological_checks).
THEOREM CyclesAreExact == Spec => []CycleExact
  <1>1. IInv => CycleExact
    BY DEF IInv, OrderInv, ResultInv, CycleExact, Sorted
  <1> QED
    BY <1>1, Invariance, PTL

\* The catalog is accepted exactly if it is closed (validate_recipe_graph).
THEOREM CatalogsAreExact == Spec => []CatalogExact
  <1>1. IInv => CatalogExact
    <2> SUFFICES ASSUME IInv, at \in {"order", "bind", "load"} PROVE Closed
      BY DEF CatalogExact, IInv, ResultInv
    <2>1. /\ AllMet({}) /\ ~Contested /\ ~Duplicated(recipes) /\ Known(recipes)
          /\ \A S \in SUBSET recipes : ~Knotted(S)
      BY DEF IInv, StageInv, SearchInv, GraphInv, Accepted, GraphClosed,
         CatalogOpen
    <2>2. ASSUME NEW a \in Artifacts, NEW q \in recipes, a \in q.ins \cup q.outs
          PROVE  \E p \in recipes :
                   /\ \A s \in recipes : a \in s.outs <=> s = p
                   /\ \A r \in recipes : a \in r.ins => DependsOn(r, p.id)
      <3>1. PICK p \in recipes : a \in p.outs
        BY <2>1, <2>2 DEF AllMet, Met
      <3>2. \A s \in recipes : a \in s.outs <=> s = p
        BY <2>1, <3>1 DEF Contested
      <3>3. \A r \in recipes : a \in r.ins => DependsOn(r, p.id)
        BY <2>1, <3>2 DEF AllMet, Met
      <3> QED
        BY <3>2, <3>3
    <2> QED
      BY <2>1, <2>2 DEF Closed, Known
  <1> QED
    BY <1>1, Invariance, PTL

\* Of what was emitted the harness turns down only a report or a plan beyond its
\* own limits, and all of those (load_plan, _check).
THEOREM HarnessAcceptsPlans == Spec => []HarnessAccepts
  <1>1. IInv => HarnessAccepts
    BY DEF IInv, ResultInv
  <1> QED
    BY <1>1, Invariance, PTL
=============================================================================
