--------------------------- MODULE MCExecutionPlan ---------------------------
(* Requests over three identifiers and one artifact, and a few over four, one  *)
(* more than the harness takes.                                                *)
EXTENDS ExecutionPlan

Core == {1, 2, 3}

A == CHOOSE a \in Artifacts : TRUE

\* What a recipe does with the artifact.
Uses == {[ins |-> {}, outs |-> {}], [ins |-> {A}, outs |-> {}],
         [ins |-> {}, outs |-> {A}]}

Rec(i, l, d, u) ==
  [id |-> i, language |-> l, deps |-> d, ins |-> u.ins, outs |-> u.outs,
   fits |-> TRUE]
Plain(r) == [id |-> r.id, language |-> r.language, deps |-> r.deps]
Project(catalog) == {Plain(r) : r \in catalog}

Catalog(deps, uses) == {Rec(i, "python", deps[i], uses[i]) : i \in DOMAIN deps}

\* The project has every recipe of the catalog, whatever that is, but a recipe
\* that depends on itself is alone.
Dependencies ==
  UNION {{d \in [I -> SUBSET Core] : \A i \in I : i \notin d[i]} :
           I \in SUBSET Core}
    \cup [{1} -> {{1}}]

Whole ==
  UNION {{[digests |-> "bound", recipes |-> Catalog(d, u), large |-> FALSE,
           checks |-> Project(Catalog(d, u))] : u \in [DOMAIN d -> Uses]} :
         d \in Dependencies}

\* Catalogs that can be ordered: without artifacts, or with one that goes from
\* the second recipe to the first.
Nothing == [ins |-> {}, outs |-> {}]
Idle == [i \in Core |-> Nothing]
Back == <<[ins |-> {A}, outs |-> {}], [ins |-> {}, outs |-> {A}], Nothing>>
Orderable(uses) ==
  {Catalog(d, uses) : d \in {e \in [Core -> SUBSET Core] :
     \E f \in [Core -> Core] : \A i \in Core : \A j \in e[i] : f[j] < f[i]}}

\* A project may have some of the recipes, and one check that differs from its
\* recipe or that no catalog has.
Partial ==
  UNION {{[digests |-> "bound", recipes |-> c, large |-> FALSE, checks |-> Project(part)] :
            part \in SUBSET c} : c \in Orderable(Idle)}

Deviating ==
  UNION {{[digests |-> "bound", recipes |-> c, large |-> FALSE,
           checks |-> {x \in Project(c) : x.id # y.id} \cup {y}] :
            y \in {k \in Check : k.id \in Core /\ k.deps \subseteq Core}} :
         c \in Orderable(Idle) \cup Orderable(Back)}

Unlisted ==
  UNION {{[i EXCEPT !.recipes = {r \in @ : r.id # n}] : n \in Core} :
         i \in Deviating}

\* One identifier in both languages, in the catalog or in the project, and
\* digests that do not bind.
Twice ==
  UNION {{[digests |-> "bound", recipes |-> c \cup {Rec(n, "rust", {}, Nothing)},
           large |-> FALSE,
           checks |-> Project(c)],
          [digests |-> "bound", recipes |-> c, large |-> FALSE,
           checks |-> Project(c) \cup {Plain(Rec(n, "rust", {}, Nothing))}],
          [digests |-> "foreign", recipes |-> c, large |-> FALSE, checks |-> Project(c)],
          [digests |-> "malformed", recipes |-> c, large |-> FALSE, checks |-> Project(c)]} :
         c \in Orderable(Idle), n \in Core}

\* Four checks in any order, recipes the harness does not take, of the project
\* or of the rest of the catalog, and a report that is too long.
Four ==
  {Catalog(d, [i \in Ids |-> Nothing]) :
     d \in {[i \in Ids |-> {}], [i \in Ids |-> Ids \cap {i - 1}]}}

Limits ==
  UNION {{[digests |-> "bound", checks |-> Project(part), large |-> l,
           recipes |-> {[r EXCEPT !.fits = r.id # n] : r \in c}] :
            part \in SUBSET c, l \in BOOLEAN, n \in Core \cup {0}} :
         c \in Four \cup Orderable(Back)}

SmallInputs ==
  Whole \cup Partial \cup Deviating \cup Unlisted \cup Twice \cup Limits
=============================================================================
