----------------------- MODULE ReceiptTransportProofs -----------------------
(***************************************************************************)
(* The decision of rust/src/verification.rs against its reference          *)
(* definition, for every plan, evidence and receipt, and what it means for *)
(* receipts that are altered on their way any number of times.             *)
(***************************************************************************)
EXTENDS ReceiptTransport, FiniteSetTheorems, TLAPS

Digests == {"other", Malformed} \cup UNION {Range(e) : e \in Expectations}

Reports ==
  [identifier : Nat, path : Nat, digest : Contents \cup {Malformed},
   bytes : Nat, outcome : Outcomes]

Artifacts == [path : Nat, content : Contents]

Receipts ==
  [form : {"supported", "oversized", "unparsable", "unsupported"},
   claims : [Fields -> Digests], checks : Seq(Reports)]

TypeOK ==
  /\ planned \in BOOLEAN
  /\ expected \in [Fields -> Digests]
  /\ receipt \in Receipts
  /\ evidence \in Seq(Artifacts)
  /\ edits \in Nat

-----------------------------------------------------------------------------
(* Numbers and counting *)

\* A set of numbers that is not empty has the member Min chooses.
LEMMA LeastMember ==
  ASSUME NEW S \in SUBSET Nat, S # {}
  PROVE  Min(S) \in S
  <1> DEFINE R == OpToRel(<, Nat)
  <1>1. \A x, y \in Nat : x < y => <<x, y>> \in R
    BY DEF OpToRel
  <1>2. IsWellFoundedOn(R, Nat)
    BY NatLessThanWellFounded
  <1> HIDE DEF R
  <1>3. PICK x \in S : \A y \in S : ~ (<<y, x>> \in R)
    BY <1>2, WFMin, Zenon
  <1>4. \A y \in S : ~ (y < x)
    BY <1>1, <1>3, Zenon
  <1>5. \A y \in S : x <= y
    BY <1>4
  <1> QED
    BY <1>5, Zenon DEF Min

\* The positions of a sequence can be counted.
LEMMA Positions ==
  ASSUME NEW S, NEW s \in Seq(S)
  PROVE  /\ DOMAIN s = 1..Len(s)
         /\ Len(s) \in Nat
         /\ IsFiniteSet(DOMAIN s)
         /\ Cardinality(DOMAIN s) = Len(s)
         /\ \A k \in DOMAIN s : s[k] \in S
  <1>1. DOMAIN s = 1..Len(s) /\ Len(s) \in Nat /\ \A k \in DOMAIN s : s[k] \in S
    OBVIOUS
  <1>2. IsFiniteSet(1..Len(s)) /\ Cardinality(1..Len(s)) = Len(s)
    BY <1>1, FS_Interval
  <1> QED
    BY <1>1, <1>2

\* As many targets as sources: one to one means onto.
LEMMA Counted ==
  ASSUME NEW S, NEW T, IsFiniteSet(S), IsFiniteSet(T),
         NEW f \in [S -> T], \A x, y \in S : f[x] = f[y] => x = y
  PROVE  Cardinality(S) = Cardinality(T) <=> \A t \in T : \E x \in S : f[x] = t
  <1>1. f \in Injection(S, T)
    BY Zenon DEF Injection, IsInjective
  <1>2. Cardinality(S) = Cardinality(T) <=> f \in Surjection(S, T)
    BY <1>1, FS_Injection
  <1>3. f \in Surjection(S, T) <=> \A t \in T : \E x \in S : f[x] = t
    BY Zenon DEF Surjection
  <1> QED
    BY <1>2, <1>3

\* As many values as arguments: no two arguments share a value.
LEMMA Distinct ==
  ASSUME NEW S, IsFiniteSet(S), NEW f, f = [x \in S |-> f[x]], NEW T,
         T = {f[x] : x \in S}
  PROVE  /\ IsFiniteSet(T)
         /\ Cardinality(T) = Cardinality(S) <=>
              \A x, y \in S : f[x] = f[y] => x = y
  <1>1. f \in [S -> T]
    OBVIOUS
  <1>2. f \in Surjection(S, T)
    BY <1>1, Zenon DEF Surjection
  <1>3. IsFiniteSet(T) /\ (Cardinality(T) = Cardinality(S) <=> f \in Injection(S, T))
    BY <1>2, FS_Surjection
  <1>4. f \in Injection(S, T) <=> \A x, y \in S : f[x] = f[y] => x = y
    BY <1>1, Zenon DEF Injection, IsInjective
  <1> QED
    BY <1>3, <1>4

-----------------------------------------------------------------------------
(* The reasons, in the order of the code *)

LEMMA FieldsBound ==
  Fields = {FieldOrder[k] : k \in 1..9} /\ DOMAIN FieldOrder = 1..9
  <1>1. DOMAIN FieldOrder = 1..9
    BY DEF FieldOrder
  <1> QED
    BY <1>1 DEF Fields, Range

\* invalid_run_digest and binding_mismatch pass exactly the expected claims.
LEMMA BindingExact ==
  ASSUME NEW r \in Receipts, NEW x \in [Fields -> Digests]
  PROVE  BindingReason(r, x) = None <=>
           r.claims = x /\ Malformed \notin Range(x)
  <1> DEFINE differ == {k \in DOMAIN FieldOrder :
                          r.claims[FieldOrder[k]] # x[FieldOrder[k]]}
  <1>1. r.claims \in [Fields -> Digests]
    BY DEF Receipts
  <1>2. differ = {} <=> \A f \in Fields : r.claims[f] = x[f]
    BY FieldsBound
  <1>3. differ = {} <=> r.claims = x
    BY <1>1, <1>2
  <1>4. ASSUME differ # {} PROVE MismatchReasons[Min(differ)] # None
    <2>1. differ \in SUBSET Nat
      BY FieldsBound
    <2>2. Min(differ) \in 1..9
      BY <1>4, <2>1, LeastMember, FieldsBound
    <2> QED
      BY <2>2 DEF MismatchReasons, None
  <1>5. BindingReason(r, x) = IF \E f \in Fields : r.claims[f] = Malformed
                              THEN "RECEIPT_DIGEST_INVALID"
                              ELSE IF differ = {} THEN None
                              ELSE MismatchReasons[Min(differ)]
    BY Zenon DEF BindingReason
  <1>6. Malformed \in Range(x) <=> \E f \in Fields : x[f] = Malformed
    BY DEF Range
  <1> HIDE DEF differ
  <1>7. None # "RECEIPT_DIGEST_INVALID"
    BY DEF None
  <1> QED
    BY <1>3, <1>4, <1>5, <1>6, <1>7

\* verify_receipt passes a well-formed expectation that the receipt repeats.
LEMMA BoundExact ==
  ASSUME NEW r \in Receipts, NEW x \in [Fields -> Digests]
  PROVE  /\ ExpectationReason(x) = None
         /\ FormReason(r) = None
         /\ BindingReason(r, x) = None
         <=> /\ r.form = "supported"
             /\ r.claims = x
             /\ Malformed \notin Range(x)
  <1>1. "harness" \in Fields /\ "invocation" \in Fields
    <2>1. FieldOrder[7] = "harness" /\ FieldOrder[8] = "invocation"
      BY DEF FieldOrder
    <2> QED
      BY <2>1, FieldsBound
  <1>2. Malformed \notin Range(x) => ExpectationReason(x) = None
    BY <1>1 DEF Range, ExpectationReason
  <1>3. FormReason(r) = None <=> r.form = "supported"
    BY DEF FormReason, None, Receipts
  <1> QED
    BY <1>2, <1>3, BindingExact

\* index_checks passes exactly one report for every planned check, and no other.
LEMMA CoverageExact ==
  ASSUME NEW s \in Seq(Reports)
  PROVE  CoverageReason(s) = None <=>
           /\ \A c \in Planned : \E k \in DOMAIN s : At(s, c) = {k}
           /\ Cardinality(DOMAIN s) = Cardinality(Planned)
  <1> DEFINE One(c) == \E k \in DOMAIN s : At(s, c) = {k}
  <1>1. /\ IsFiniteSet(DOMAIN s)
        /\ \A k \in DOMAIN s : s[k] \in Reports
    BY Positions, Zenon
  <1>2. ASSUME NEW c PROVE Cardinality(At(s, c)) = 1 <=> One(c)
    <2>1. At(s, c) \subseteq DOMAIN s
      BY DEF At
    <2>2. IsFiniteSet(At(s, c))
      BY <1>1, <2>1, FS_Subset
    <2>3. Cardinality(At(s, c)) = 1 <=> \E k : At(s, c) = {k}
      BY <2>2, FS_Singleton
    <2> QED
      BY <2>1, <2>3
  <1>3. CoverageReason(s) = None <=>
          /\ \A c \in Reported(s) : One(c)
          /\ Reported(s) = Planned
    <2>1. CoverageReason(s) = None <=>
            /\ \A c \in Reported(s) : Cardinality(At(s, c)) = 1
            /\ Reported(s) \subseteq Planned
            /\ Planned \subseteq Reported(s)
      BY DEF CoverageReason, None
    <2> QED
      BY <1>2, <2>1, Zenon
  <1>4. ASSUME \A c \in Planned : One(c)
        PROVE  /\ Planned \subseteq Reported(s)
               /\ Cardinality(DOMAIN s) = Cardinality(Planned) <=>
                    Reported(s) \subseteq Planned
    <2> DEFINE g == [c \in Planned |-> CHOOSE k \in DOMAIN s : At(s, c) = {k}]
    <2>1. \A c \in Planned : g[c] \in DOMAIN s /\ At(s, c) = {g[c]}
      BY <1>4, Zenon
    <2>2. \A c \in Planned : s[g[c]].identifier = c
      BY <2>1 DEF At
    <2>3. g \in [Planned -> DOMAIN s]
      BY <2>1
    <2>4. \A c, d \in Planned : g[c] = g[d] => c = d
      BY <2>2, Zenon
    <2>5. IsFiniteSet(Planned)
      BY VerifierAssumption
    <2> HIDE DEF g
    <2>6. Cardinality(Planned) = Cardinality(DOMAIN s) <=>
            \A k \in DOMAIN s : \E c \in Planned : g[c] = k
      BY <1>1, <2>3, <2>4, <2>5, Counted
    <2>7. \A k \in DOMAIN s : \A c \in Planned :
            g[c] = k <=> s[k].identifier = c
      BY <2>1 DEF At
    <2>8. Cardinality(Planned) = Cardinality(DOMAIN s) <=>
            \A k \in DOMAIN s : s[k].identifier \in Planned
      BY <2>6, <2>7, Zenon
    <2> QED
      BY <2>1, <2>2, <2>8 DEF Reported
  <1> HIDE DEF One
  <1>5. CoverageReason(s) = None <=>
          (\A c \in Planned : One(c)) /\ Cardinality(DOMAIN s) = Cardinality(Planned)
    <2>1. ASSUME CoverageReason(s) = None
          PROVE  (\A c \in Planned : One(c)) /\ Cardinality(DOMAIN s) = Cardinality(Planned)
      BY <1>3, <1>4, <2>1
    <2>2. ASSUME \A c \in Planned : One(c), Cardinality(DOMAIN s) = Cardinality(Planned)
          PROVE  CoverageReason(s) = None
      <3>1. Reported(s) = Planned
        BY <1>4, <2>2
      <3> QED
        BY <1>3, <2>2, <3>1
    <2> QED
      BY <2>1, <2>2
  <1> QED
    BY <1>5, Zenon DEF One

LEMMA ReportFields ==
  ASSUME NEW s \in Seq(Reports), NEW k \in DOMAIN s
  PROVE  /\ s[k] \in Reports
         /\ s[k].path \in Nat
         /\ s[k].digest \in Contents \cup {Malformed}
         /\ s[k].bytes \in Nat
         /\ s[k].outcome \in Outcomes
  <1>1. s[k] \in Reports
    BY Positions, Zenon
  <1> QED
    BY <1>1 DEF Reports

\* What CoverageReason = None says of the reports, one for one.
Covered(s) ==
  /\ \A k \in DOMAIN s : s[k].identifier \in Planned
  /\ \A c \in Planned : \E k \in DOMAIN s : s[k].identifier = c
  /\ \A j, k \in DOMAIN s : s[j].identifier = s[k].identifier => j = k

LEMMA CoveredReports ==
  ASSUME NEW s \in Seq(Reports), CoverageReason(s) = None
  PROVE  /\ Covered(s)
         /\ \A k \in DOMAIN s : Entry(s, s[k].identifier) = s[k]
  <1>1. /\ \A c \in Planned : \E k \in DOMAIN s : At(s, c) = {k}
        /\ Reported(s) = Planned
    <2>1. \A c \in Planned : \E k \in DOMAIN s : At(s, c) = {k}
      BY CoverageExact
    <2> QED
      BY <2>1 DEF CoverageReason, None
  <1>2. ASSUME NEW k \in DOMAIN s
        PROVE  At(s, s[k].identifier) = {k}
    <2>1. s[k].identifier \in Planned
      BY <1>1 DEF Reported
    <2>2. PICK j \in DOMAIN s : At(s, s[k].identifier) = {j}
      BY <1>1, <2>1
    <2>3. k \in At(s, s[k].identifier)
      BY DEF At
    <2> QED
      BY <2>2, <2>3
  <1>3. \A k \in DOMAIN s : Entry(s, s[k].identifier) = s[k]
    BY <1>2 DEF Entry
  <1>4. Covered(s)
    <2>1. \A k \in DOMAIN s : s[k].identifier \in Planned
      BY <1>1 DEF Reported
    <2>2. \A c \in Planned : \E k \in DOMAIN s : s[k].identifier = c
      BY <1>1 DEF Reported
    <2>3. ASSUME NEW j \in DOMAIN s, NEW k \in DOMAIN s,
                 s[j].identifier = s[k].identifier
          PROVE  j = k
      <3>1. j \in At(s, s[k].identifier)
        BY <2>3 DEF At
      <3> QED
        BY <1>2, <3>1
    <2> QED
      BY <2>1, <2>2, <2>3 DEF Covered
  <1> QED
    BY <1>3, <1>4

\* validate_indexed_checks visits the reports in the order of identifiers; it
\* passes when it objects to none.
LEMMA ClaimsExact ==
  ASSUME NEW s \in Seq(Reports), CoverageReason(s) = None
  PROVE  LeastReason(Planned, LAMBDA c : ClaimReason(Entry(s, c))) = None <=>
           \A k \in DOMAIN s : ClaimReason(s[k]) = None
  <1> DEFINE bad == {c \in Planned : ClaimReason(Entry(s, c)) # None}
  <1>1. bad # {} => ClaimReason(Entry(s, Min(bad))) # None
    <2>1. bad \in SUBSET Nat
      BY VerifierAssumption
    <2>2. bad # {} => Min(bad) \in bad
      BY <2>1, LeastMember, Zenon
    <2> QED
      BY <2>2
  <1>2. LeastReason(Planned, LAMBDA c : ClaimReason(Entry(s, c)))
          = IF bad = {} THEN None ELSE ClaimReason(Entry(s, Min(bad)))
    BY Zenon DEF LeastReason
  <1>3. bad = {} <=> \A k \in DOMAIN s : ClaimReason(s[k]) = None
    <2>1. \A c \in Planned : \E k \in DOMAIN s : s[k].identifier = c
      BY CoveredReports DEF Covered
    <2>2. \A k \in DOMAIN s : s[k].identifier \in Planned
      BY CoveredReports DEF Covered
    <2>3. \A k \in DOMAIN s : Entry(s, s[k].identifier) = s[k]
      BY CoveredReports
    <2> QED
      BY <2>1, <2>2, <2>3
  <1> HIDE DEF bad
  <1> QED
    BY <1>1, <1>2, <1>3

\* The verdict on bound evidence is a pass when every report is of exit zero.
LEMMA OutcomesExact ==
  ASSUME NEW s \in Seq(Reports), CoverageReason(s) = None
  PROVE  OutcomeReason(s) = None <=>
           \A k \in DOMAIN s : s[k].outcome = "exit_zero"
  <1> DEFINE Why(c) == CASE Entry(s, c).outcome = "timed_out" ->
                              "RECEIPT_CHECK_TIMED_OUT"
                         [] Entry(s, c).outcome = "exit_nonzero" ->
                              "RECEIPT_CHECK_EXIT_NONZERO"
                         [] OTHER -> None
             bad == {c \in Planned : Why(c) # None}
  <1>1. \A k \in DOMAIN s : s[k].outcome \in Outcomes
    BY ReportFields
  <1>2. ASSUME NEW k \in DOMAIN s
        PROVE  Why(s[k].identifier) = None <=> s[k].outcome = "exit_zero"
    <2>1. Entry(s, s[k].identifier) = s[k]
      BY CoveredReports
    <2> QED
      BY <1>1, <2>1 DEF Outcomes, None
  <1>3. OutcomeReason(s) = IF bad = {} THEN None ELSE Why(Min(bad))
    BY Zenon DEF OutcomeReason, LeastReason
  <1> HIDE DEF Why
  <1>4. bad # {} => Why(Min(bad)) # None
    <2>1. bad \in SUBSET Nat
      BY VerifierAssumption
    <2>2. bad # {} => Min(bad) \in bad
      BY <2>1, LeastMember, Zenon
    <2> QED
      BY <2>2
  <1>5. bad = {} <=> \A k \in DOMAIN s : Why(s[k].identifier) = None
    <2>1. \A c \in Planned : \E k \in DOMAIN s : s[k].identifier = c
      BY CoveredReports DEF Covered
    <2>2. \A k \in DOMAIN s : s[k].identifier \in Planned
      BY CoveredReports DEF Covered
    <2> QED
      BY <2>1, <2>2
  <1> HIDE DEF bad
  <1> QED
    BY <1>2, <1>3, <1>4, <1>5

\* index_evidence passes artifacts with safe paths that differ.
LEMMA SuppliedExact ==
  ASSUME NEW e \in Seq(Artifacts)
  PROVE  SuppliedReason(e) = None <=>
           /\ \A k \in DOMAIN e : e[k].path \in SafePaths
           /\ \A j, k \in DOMAIN e : e[j].path = e[k].path => j = k
  <1> DEFINE Unsafe(k) == e[k].path \notin SafePaths
             Repeats(k) == \E j \in 1..(k - 1) : e[j].path = e[k].path
             bad == {k \in DOMAIN e : Unsafe(k) \/ Repeats(k)}
  <1>1. SuppliedReason(e) = IF bad = {} THEN None
                            ELSE IF Unsafe(Min(bad))
                            THEN "RECEIPT_EVIDENCE_PATH_UNSAFE"
                            ELSE "RECEIPT_EVIDENCE_DUPLICATE"
    BY Zenon DEF SuppliedReason
  <1>2. SuppliedReason(e) = None <=> bad = {}
    BY <1>1 DEF None
  <1>3. DOMAIN e = 1..Len(e) /\ Len(e) \in Nat
    BY Positions, Zenon
  <1>4. (\A k \in DOMAIN e : ~Repeats(k)) <=>
          \A j, k \in DOMAIN e : e[j].path = e[k].path => j = k
    <2>1. ASSUME \A k \in DOMAIN e : ~Repeats(k),
                 NEW j \in DOMAIN e, NEW k \in DOMAIN e, e[j].path = e[k].path
          PROVE  j = k
      <3>1. ~ (j \in 1..(k - 1)) /\ ~ (k \in 1..(j - 1))
        BY <2>1
      <3> QED
        BY <1>3, <3>1
    <2>2. ASSUME \A j, k \in DOMAIN e : e[j].path = e[k].path => j = k,
                 NEW k \in DOMAIN e
          PROVE  ~Repeats(k)
      <3>1. \A j \in 1..(k - 1) : j \in DOMAIN e /\ j # k
        BY <1>3
      <3> QED
        BY <2>2, <3>1
    <2> QED
      BY <2>1, <2>2
  <1> QED
    BY <1>2, <1>4

\* validate_evidence, once the paths of either side differ: it passes when both
\* sides have the same paths and every content is what its report says.
LEMMA MatchExact ==
  ASSUME NEW s \in Seq(Reports), NEW e \in Seq(Artifacts),
         \A j, k \in DOMAIN s : s[j].path = s[k].path => j = k,
         \A j, k \in DOMAIN e : e[j].path = e[k].path => j = k
  PROVE  MatchReason(s, e) = None <=>
           /\ SuppliedPaths(e) = ClaimedPaths(s)
           /\ \A k \in DOMAIN s, j \in DOMAIN e :
                s[k].path = e[j].path => ContentReason(s[k], e[j].content) = None
  <1> DEFINE Why(p) == ContentReason(ClaimOf(s, p), SupplyOf(e, p))
             bad == {p \in ClaimedPaths(s) : Why(p) # None}
  <1>1. \A k \in DOMAIN s : ClaimOf(s, s[k].path) = s[k]
    BY DEF ClaimOf
  <1>2. \A j \in DOMAIN e : SupplyOf(e, e[j].path) = e[j].content
    BY DEF SupplyOf
  <1>3. \A k \in DOMAIN s : s[k].path \in Nat
    BY ReportFields
  <1>4. MatchReason(s, e) =
          IF ~(SuppliedPaths(e) \subseteq ClaimedPaths(s))
          THEN "RECEIPT_EVIDENCE_EXTRA"
          ELSE IF ~(ClaimedPaths(s) \subseteq SuppliedPaths(e))
          THEN "RECEIPT_EVIDENCE_MISSING"
          ELSE IF bad = {} THEN None ELSE Why(Min(bad))
    BY Zenon DEF MatchReason, LeastReason
  <1>5. \A k \in DOMAIN s, j \in DOMAIN e : s[k].path = e[j].path =>
          (Why(s[k].path) = None <=> ContentReason(s[k], e[j].content) = None)
    BY <1>1, <1>2
  <1> HIDE DEF Why
  <1>6. bad # {} => Why(Min(bad)) # None
    <2>1. bad \in SUBSET Nat
      BY <1>3 DEF ClaimedPaths
    <2>2. bad # {} => Min(bad) \in bad
      BY <2>1, LeastMember, Zenon
    <2> QED
      BY <2>2
  <1>7. MatchReason(s, e) = None <=>
          SuppliedPaths(e) = ClaimedPaths(s) /\ bad = {}
    <2> HIDE DEF bad
    <2>1. CASE bad = {}
      BY <1>4, <2>1 DEF None
    <2>2. CASE bad # {}
      BY <1>4, <1>6, <2>2 DEF None
    <2> QED
      BY <2>1, <2>2
  <1>8. ASSUME SuppliedPaths(e) = ClaimedPaths(s)
        PROVE  bad = {} <=>
                 \A k \in DOMAIN s, j \in DOMAIN e :
                   s[k].path = e[j].path => ContentReason(s[k], e[j].content) = None
    <2>1. ASSUME NEW k \in DOMAIN s
          PROVE  \E j \in DOMAIN e : s[k].path = e[j].path
      <3>1. s[k].path \in ClaimedPaths(s)
        BY DEF ClaimedPaths
      <3> QED
        BY <1>8, <3>1 DEF SuppliedPaths
    <2>2. bad = {} <=> \A k \in DOMAIN s : Why(s[k].path) = None
      BY DEF ClaimedPaths
    <2> QED
      BY <1>5, <2>1, <2>2
  <1> QED
    BY <1>7, <1>8

\* The evidence side of the reference definition, report by report.
Accounted(s, e) ==
  /\ \A j, k \in DOMAIN s : s[j].path = s[k].path => j = k
  /\ \A k \in DOMAIN s : \E j \in DOMAIN e :
       /\ {i \in DOMAIN e : e[i].path = s[k].path} = {j}
       /\ s[k].digest = e[j].content
       /\ s[k].bytes = Size[e[j].content]
  /\ Cardinality(DOMAIN e) = Cardinality(DOMAIN s)

LEMMA ArtifactFields ==
  ASSUME NEW e \in Seq(Artifacts), NEW j \in DOMAIN e
  PROVE  e[j].path \in Nat /\ e[j].content \in Contents
  <1>1. e[j] \in Artifacts
    BY Positions, Zenon
  <1> QED
    BY <1>1 DEF Artifacts

\* Claims that were not objected to and that the evidence meets.
LEMMA ContentExact ==
  ASSUME NEW s \in Seq(Reports), NEW e \in Seq(Artifacts),
         NEW k \in DOMAIN s, NEW j \in DOMAIN e, ClaimReason(s[k]) = None
  PROVE  ContentReason(s[k], e[j].content) = None <=>
           s[k].digest = e[j].content /\ s[k].bytes = Size[e[j].content]
  <1>1. s[k].bytes \in Nat /\ ~ (s[k].bytes > MaxBytes)
    BY ReportFields DEF ClaimReason, None
  <1>2. Size[e[j].content] \in Nat
    BY ArtifactFields, VerifierAssumption
  <1>3. MaxBytes \in Nat
    BY VerifierAssumption
  <1> QED
    BY <1>1, <1>2, <1>3 DEF ContentReason, None

\* validate_evidence passes exactly one artifact, with the claimed bytes, for
\* every report.
LEMMA EvidenceExact ==
  ASSUME NEW s \in Seq(Reports), NEW e \in Seq(Artifacts),
         \A k \in DOMAIN s : ClaimReason(s[k]) = None
  PROVE  EvidenceReason(s, e) = None <=> Accounted(s, e)
  <1> DEFINE claimed == [k \in DOMAIN s |-> s[k].path]
             supplied == [j \in DOMAIN e |-> e[j].path]
             OwnPaths == \A j, k \in DOMAIN s : s[j].path = s[k].path => j = k
             OwnFiles == \A j, k \in DOMAIN e : e[j].path = e[k].path => j = k
             Meets == \A k \in DOMAIN s, j \in DOMAIN e : s[k].path = e[j].path =>
                        s[k].digest = e[j].content /\ s[k].bytes = Size[e[j].content]
  <1>1. IsFiniteSet(DOMAIN s) /\ IsFiniteSet(DOMAIN e)
    BY Positions, Zenon
  <1>2. ClaimedPaths(s) = {claimed[k] : k \in DOMAIN s}
    BY DEF ClaimedPaths
  <1>3. SuppliedPaths(e) = {supplied[j] : j \in DOMAIN e}
    BY DEF SuppliedPaths
  <1>4. /\ IsFiniteSet(ClaimedPaths(s))
        /\ Cardinality(ClaimedPaths(s)) = Cardinality(DOMAIN s) <=> OwnPaths
    <2>1. claimed = [k \in DOMAIN s |-> claimed[k]]
      OBVIOUS
    <2>2. OwnPaths <=> \A j, k \in DOMAIN s : claimed[j] = claimed[k] => j = k
      OBVIOUS
    <2> HIDE DEF claimed
    <2> QED
      BY <1>1, <1>2, <2>1, <2>2, Distinct
  <1>5. /\ IsFiniteSet(SuppliedPaths(e))
        /\ Cardinality(SuppliedPaths(e)) = Cardinality(DOMAIN e) <=> OwnFiles
    <2>1. supplied = [k \in DOMAIN e |-> supplied[k]]
      OBVIOUS
    <2>2. OwnFiles <=> \A j, k \in DOMAIN e : supplied[j] = supplied[k] => j = k
      OBVIOUS
    <2> HIDE DEF supplied
    <2> QED
      BY <1>1, <1>3, <2>1, <2>2, Distinct
  <1>6. EvidenceReason(s, e) = None <=>
          /\ OwnPaths
          /\ SuppliedReason(e) = None
          /\ MatchReason(s, e) = None
    BY <1>4 DEF EvidenceReason, OrElse, None
  <1>7. ASSUME EvidenceReason(s, e) = None PROVE Accounted(s, e)
    <2>1. OwnPaths /\ OwnFiles
      BY <1>6, <1>7, SuppliedExact
    <2>2. SuppliedPaths(e) = ClaimedPaths(s) /\ Meets
      BY <1>6, <1>7, <2>1, MatchExact, ContentExact
    <2>3. Cardinality(DOMAIN e) = Cardinality(DOMAIN s)
      BY <1>4, <1>5, <2>1, <2>2
    <2>4. ASSUME NEW k \in DOMAIN s
          PROVE  \E j \in DOMAIN e :
                   /\ {i \in DOMAIN e : e[i].path = s[k].path} = {j}
                   /\ s[k].digest = e[j].content
                   /\ s[k].bytes = Size[e[j].content]
      <3>1. s[k].path \in SuppliedPaths(e)
        BY <2>2 DEF ClaimedPaths
      <3>2. PICK j \in DOMAIN e : e[j].path = s[k].path
        BY <3>1 DEF SuppliedPaths
      <3>3. {i \in DOMAIN e : e[i].path = s[k].path} = {j}
        BY <2>1, <3>2
      <3> QED
        BY <2>2, <3>2, <3>3
    <2> QED
      BY <2>1, <2>3, <2>4 DEF Accounted
  <1>8. ASSUME Accounted(s, e) PROVE EvidenceReason(s, e) = None
    <2> DEFINE At1(k, j) == {i \in DOMAIN e : e[i].path = s[k].path} = {j}
               h == [k \in DOMAIN s |-> CHOOSE j \in DOMAIN e : At1(k, j)]
    <2>1. OwnPaths
      BY <1>8 DEF Accounted
    <2>2. ASSUME NEW k \in DOMAIN s
          PROVE  /\ h[k] \in DOMAIN e
                 /\ At1(k, h[k])
                 /\ e[h[k]].path = s[k].path
                 /\ s[k].digest = e[h[k]].content
                 /\ s[k].bytes = Size[e[h[k]].content]
      <3>1. PICK j \in DOMAIN e : /\ At1(k, j)
                                  /\ s[k].digest = e[j].content
                                  /\ s[k].bytes = Size[e[j].content]
        BY <1>8 DEF Accounted
      <3>2. h[k] \in DOMAIN e /\ At1(k, h[k])
        BY <3>1, Zenon
      <3> HIDE DEF h
      <3>3. h[k] = j
        BY <3>1, <3>2
      <3>4. e[h[k]].path = s[k].path
        BY <3>2
      <3> QED
        BY <3>1, <3>2, <3>3, <3>4
    <2>3. h \in [DOMAIN s -> DOMAIN e]
      BY <2>2
    <2> HIDE DEF h
    <2>4. \A j, k \in DOMAIN s : h[j] = h[k] => j = k
      BY <2>1, <2>2
    <2>5. \A j \in DOMAIN e : \E k \in DOMAIN s : h[k] = j
      BY <1>1, <1>8, <2>3, <2>4, Counted DEF Accounted
    <2>6. \A j \in DOMAIN e : \E k \in DOMAIN s :
            h[k] = j /\ e[j].path = s[k].path
      <3>1. \A k \in DOMAIN s : e[h[k]].path = s[k].path
        BY <2>2
      <3> QED
        BY <2>5, <3>1
    <2>7. OwnFiles
      BY <2>1, <2>6
    <2>8. \A j \in DOMAIN e : e[j].path \in SafePaths
      <3>1. \A k \in DOMAIN s : s[k].path \in SafePaths
        BY DEF ClaimReason, None
      <3> QED
        BY <2>6, <3>1
    <2>9. SuppliedPaths(e) = ClaimedPaths(s)
      <3>1. \A j \in DOMAIN e : \E k \in DOMAIN s : e[j].path = s[k].path
        BY <2>6
      <3>2. \A k \in DOMAIN s : \E j \in DOMAIN e : e[j].path = s[k].path
        BY <2>2
      <3>3. SuppliedPaths(e) \subseteq ClaimedPaths(s)
        BY <3>1, Zenon DEF SuppliedPaths, ClaimedPaths
      <3>4. ClaimedPaths(s) \subseteq SuppliedPaths(e)
        BY <3>2, Zenon DEF SuppliedPaths, ClaimedPaths
      <3> QED
        BY <3>3, <3>4
    <2>10. Meets
      BY <2>1, <2>2, <2>7
    <2>11. MatchReason(s, e) = None
      BY <2>1, <2>7, <2>9, <2>10, MatchExact, ContentExact
    <2> QED
      BY <1>6, <2>1, <2>7, <2>8, <2>11, SuppliedExact
  <1> QED
    BY <1>7, <1>8

-----------------------------------------------------------------------------
(* The decision *)

\* verify_receipt rejects exactly what is no faithful account.
LEMMA RejectExact ==
  ASSUME NEW x \in [Fields -> Digests], NEW r \in Receipts,
         NEW e \in Seq(Artifacts)
  PROVE  /\ RejectReason(x, r, e) = None <=> Faithful(TRUE, x, r, e)
         /\ RejectReason(x, r, e) = None => CoverageReason(r.checks) = None
  <1> DEFINE s == r.checks
             claim == LeastReason(Planned, LAMBDA c : ClaimReason(Entry(s, c)))
             Bound == r.form = "supported" /\ r.claims = x
                      /\ Malformed \notin Range(x)
             Fair == \A k \in DOMAIN s : ClaimReason(s[k]) = None
  <1>1. s \in Seq(Reports)
    BY DEF Receipts
  <1>2. RejectReason(x, r, e) = None <=>
          /\ ExpectationReason(x) = None
          /\ FormReason(r) = None
          /\ BindingReason(r, x) = None
          /\ CoverageReason(s) = None
          /\ claim = None
          /\ EvidenceReason(s, e) = None
    BY Zenon DEF RejectReason, OrElse
  <1> HIDE DEF s
  <1>3. CoverageReason(s) = None => (claim = None <=> Fair)
    BY <1>1, ClaimsExact
  <1> HIDE DEF claim
  <1>4. RejectReason(x, r, e) = None <=>
          Bound /\ CoverageReason(s) = None /\ Fair /\ Accounted(s, e)
    BY <1>1, <1>2, <1>3, BoundExact, EvidenceExact
  <1> DEFINE Good(k) ==
               /\ s[k].path \in SafePaths
               /\ \E j \in DOMAIN e :
                    /\ {i \in DOMAIN e : e[i].path = s[k].path} = {j}
                    /\ s[k].digest = e[j].content
                    /\ s[k].bytes = Size[e[j].content]
               /\ s[k].bytes <= MaxBytes
               /\ \A i \in DOMAIN s \ {k} : s[i].path # s[k].path
             Each == \A c \in Planned : \E k \in DOMAIN s :
                       At(s, c) = {k} /\ Good(k)
  <1>5. Faithful(TRUE, x, r, e) <=>
          /\ Bound
          /\ Each
          /\ Cardinality(DOMAIN s) = Cardinality(Planned)
          /\ Cardinality(DOMAIN e) = Cardinality(Planned)
    BY Zenon DEF Faithful, s
  <1>6. ASSUME CoverageReason(s) = None
        PROVE  Each <=> \A k \in DOMAIN s : Good(k)
    <2> HIDE DEF Good
    <2>1. Covered(s)
      BY <1>1, <1>6, CoveredReports
    <2>2. \A c \in Planned : \E k \in DOMAIN s : At(s, c) = {k}
      BY <1>1, <1>6, CoverageExact
    <2>3. ASSUME Each, NEW k \in DOMAIN s PROVE Good(k)
      <3>1. PICK i \in DOMAIN s : At(s, s[k].identifier) = {i} /\ Good(i)
        BY <2>1, <2>3 DEF Covered
      <3>2. k \in At(s, s[k].identifier)
        BY DEF At
      <3> QED
        BY <3>1, <3>2
    <2> QED
      BY <2>2, <2>3
  <1>7. ASSUME NEW k \in DOMAIN s
        PROVE  ClaimReason(s[k]) = None <=>
                 /\ s[k].path \in SafePaths
                 /\ s[k].digest # Malformed
                 /\ s[k].bytes <= MaxBytes
    <2>1. s[k].bytes \in Nat /\ MaxBytes \in Nat
      BY <1>1, ReportFields, VerifierAssumption
    <2> QED
      BY <2>1 DEF ClaimReason, None
  <1>8. \A j \in DOMAIN e : e[j].content # Malformed
    BY ArtifactFields, VerifierAssumption DEF Malformed
  <1>9. (\A k \in DOMAIN s : Good(k)) /\ Cardinality(DOMAIN e) = Cardinality(DOMAIN s)
          <=> Fair /\ Accounted(s, e)
    <2>1. (\A k \in DOMAIN s : \A i \in DOMAIN s \ {k} : s[i].path # s[k].path)
            <=> \A j, k \in DOMAIN s : s[j].path = s[k].path => j = k
      OBVIOUS
    <2>2. ASSUME \A k \in DOMAIN s : Good(k),
                 Cardinality(DOMAIN e) = Cardinality(DOMAIN s)
          PROVE  Fair /\ Accounted(s, e)
      BY <1>7, <1>8, <2>1, <2>2 DEF Accounted
    <2>3. ASSUME Fair, Accounted(s, e)
          PROVE  /\ \A k \in DOMAIN s : Good(k)
                 /\ Cardinality(DOMAIN e) = Cardinality(DOMAIN s)
      BY <1>7, <2>1, <2>3 DEF Accounted
    <2> QED
      BY <2>2, <2>3
  <1>10. Each /\ Cardinality(DOMAIN s) = Cardinality(Planned) =>
           CoverageReason(s) = None
    BY <1>1, CoverageExact
  <1>11. CoverageReason(s) = None => Cardinality(DOMAIN s) = Cardinality(Planned)
    BY <1>1, CoverageExact
  <1> HIDE DEF Good, Each, Fair, Bound
  <1>12. RejectReason(x, r, e) = None <=> Faithful(TRUE, x, r, e)
    BY <1>4, <1>5, <1>6, <1>9, <1>10, <1>11
  <1> QED
    BY <1>4, <1>12 DEF s

\* verify_receipt, for every plan, expectation, receipt and evidence: PASS for a
\* faithful account of checks that exited with zero, FAIL for another faithful
\* account, rejection of everything else.
THEOREM DecisionExact ==
  ASSUME NEW p \in BOOLEAN, NEW x \in [Fields -> Digests],
         NEW r \in Receipts, NEW e \in Seq(Artifacts)
  PROVE  /\ Decision(p, x, r, e).outcome = "VERIFIED_PASS" <=>
              Faithful(p, x, r, e) /\ ReportsOnly(r, {"exit_zero"})
         /\ Decision(p, x, r, e).outcome = "VERIFIED_FAIL" <=>
              Faithful(p, x, r, e) /\ ~ReportsOnly(r, {"exit_zero"})
  <1>1. r.checks \in Seq(Reports)
    BY DEF Receipts
  <1>2. Faithful(p, x, r, e) <=> p /\ RejectReason(x, r, e) = None
    <2>1. Faithful(p, x, r, e) <=> p /\ Faithful(TRUE, x, r, e)
      BY Zenon DEF Faithful
    <2> QED
      BY <2>1, RejectExact
  <1>3. RejectReason(x, r, e) = None =>
          (OutcomeReason(r.checks) = None <=> ReportsOnly(r, {"exit_zero"}))
    <2>1. RejectReason(x, r, e) = None => CoverageReason(r.checks) = None
      BY RejectExact
    <2>2. ReportsOnly(r, {"exit_zero"}) <=>
            \A k \in DOMAIN r.checks : r.checks[k].outcome = "exit_zero"
      BY DEF ReportsOnly
    <2> QED
      BY <1>1, <2>1, <2>2, OutcomesExact
  <1>4. Decision(p, x, r, e).outcome =
          IF p /\ RejectReason(x, r, e) = None
          THEN IF OutcomeReason(r.checks) = None
               THEN "VERIFIED_PASS" ELSE "VERIFIED_FAIL"
          ELSE "RECEIPT_REJECTED"
    BY DEF Decision, Reject, Fail, Pass
  <1> QED
    BY <1>2, <1>3, <1>4

-----------------------------------------------------------------------------
(* Receipts on their way *)

LEMMA RemovedAt ==
  ASSUME NEW S, NEW s \in Seq(S), NEW k \in DOMAIN s
  PROVE  RemoveAt(s, k) \in Seq(S) /\ Len(RemoveAt(s, k)) = Len(s) - 1
  <1>1. DOMAIN s = 1..Len(s) /\ Len(s) \in Nat /\ k \in 1..Len(s)
    OBVIOUS
  <1>2. SubSeq(s, 1, k - 1) \in Seq(S) /\ Len(SubSeq(s, 1, k - 1)) = k - 1
    BY <1>1
  <1>3. /\ SubSeq(s, k + 1, Len(s)) \in Seq(S)
        /\ Len(SubSeq(s, k + 1, Len(s))) = Len(s) - k
    BY <1>1
  <1> QED
    BY <1>1, <1>2, <1>3 DEF RemoveAt

LEMMA Reversed ==
  ASSUME NEW S, NEW s \in Seq(S)
  PROVE  /\ Reverse(s) \in Seq(S)
         /\ DOMAIN Reverse(s) = DOMAIN s
         /\ \A k \in DOMAIN s : \E j \in DOMAIN s : Reverse(s)[j] = s[k]
  <1>1. DOMAIN s = 1..Len(s) /\ Len(s) \in Nat /\ \A k \in 1..Len(s) : s[k] \in S
    OBVIOUS
  <1>2. \A i \in 1..Len(s) : (Len(s) - i) + 1 \in 1..Len(s)
    BY <1>1
  <1>3. Reverse(s) \in [1..Len(s) -> S]
    BY <1>1, <1>2 DEF Reverse
  <1>4. Reverse(s) \in Seq(S) /\ DOMAIN Reverse(s) = DOMAIN s
    BY <1>1, <1>3
  <1>5. ASSUME NEW k \in DOMAIN s
        PROVE  \E j \in DOMAIN s : Reverse(s)[j] = s[k]
    <2>1. (Len(s) - k) + 1 \in DOMAIN s /\ (Len(s) - ((Len(s) - k) + 1)) + 1 = k
      BY <1>1, <1>2
    <2>2. Reverse(s)[(Len(s) - k) + 1] = s[(Len(s) - ((Len(s) - k) + 1)) + 1]
      BY <1>1, <2>1 DEF Reverse
    <2> QED
      BY <2>1, <2>2
  <1> QED
    BY <1>4, <1>5

\* What AlterReport makes of the reports: one field of one of them is replaced.
Altered(s, t) ==
  \E k \in DOMAIN s :
    \/ \E c \in Nat : t = [s EXCEPT ![k].identifier = c]
    \/ \E p \in Nat : t = [s EXCEPT ![k].path = p]
    \/ \E d \in Contents \cup {Malformed} : t = [s EXCEPT ![k].digest = d]
    \/ \E b \in Nat : t = [s EXCEPT ![k].bytes = b]
    \/ \E o \in Outcomes : t = [s EXCEPT ![k].outcome = o]

LEMMA AlteredReports ==
  ASSUME NEW s \in Seq(Reports), NEW t, Altered(s, t)
  PROVE  /\ t \in Seq(Reports)
         /\ DOMAIN t = DOMAIN s
         /\ \/ \A k \in DOMAIN s : t[k].outcome = s[k].outcome
            \/ \E k \in DOMAIN s : t = [s EXCEPT ![k].outcome = t[k].outcome]
  <1>1. DOMAIN s = 1..Len(s) /\ Len(s) \in Nat /\ \A k \in DOMAIN s : s[k] \in Reports
    OBVIOUS
  <1>2. ASSUME NEW k \in DOMAIN s, NEW r \in Reports
        PROVE  [s EXCEPT ![k] = r] \in Seq(Reports)
    <2>1. [s EXCEPT ![k] = r] \in [1..Len(s) -> Reports]
      BY <1>1
    <2> QED
      BY <1>1, <2>1
  <1>3. PICK k \in DOMAIN s :
          \/ \E c \in Nat : t = [s EXCEPT ![k].identifier = c]
          \/ \E p \in Nat : t = [s EXCEPT ![k].path = p]
          \/ \E d \in Contents \cup {Malformed} : t = [s EXCEPT ![k].digest = d]
          \/ \E b \in Nat : t = [s EXCEPT ![k].bytes = b]
          \/ \E o \in Outcomes : t = [s EXCEPT ![k].outcome = o]
    BY DEF Altered
  <1>4. s[k] \in Reports
    BY <1>1
  <1>5. CASE \E c \in Nat : t = [s EXCEPT ![k].identifier = c]
    <2>1. PICK c \in Nat : t = [s EXCEPT ![k].identifier = c]
      BY <1>5
    <2>2. [s[k] EXCEPT !.identifier = c] \in Reports
          /\ [s[k] EXCEPT !.identifier = c].outcome = s[k].outcome
      BY <1>4 DEF Reports
    <2> QED
      BY <1>1, <1>2, <2>1, <2>2
  <1>6. CASE \E p \in Nat : t = [s EXCEPT ![k].path = p]
    <2>1. PICK p \in Nat : t = [s EXCEPT ![k].path = p]
      BY <1>6
    <2>2. [s[k] EXCEPT !.path = p] \in Reports
          /\ [s[k] EXCEPT !.path = p].outcome = s[k].outcome
      BY <1>4 DEF Reports
    <2> QED
      BY <1>1, <1>2, <2>1, <2>2
  <1>7. CASE \E d \in Contents \cup {Malformed} : t = [s EXCEPT ![k].digest = d]
    <2>1. PICK d \in Contents \cup {Malformed} : t = [s EXCEPT ![k].digest = d]
      BY <1>7
    <2>2. [s[k] EXCEPT !.digest = d] \in Reports
          /\ [s[k] EXCEPT !.digest = d].outcome = s[k].outcome
      BY <1>4 DEF Reports
    <2> QED
      BY <1>1, <1>2, <2>1, <2>2
  <1>8. CASE \E b \in Nat : t = [s EXCEPT ![k].bytes = b]
    <2>1. PICK b \in Nat : t = [s EXCEPT ![k].bytes = b]
      BY <1>8
    <2>2. [s[k] EXCEPT !.bytes = b] \in Reports
          /\ [s[k] EXCEPT !.bytes = b].outcome = s[k].outcome
      BY <1>4 DEF Reports
    <2> QED
      BY <1>1, <1>2, <2>1, <2>2
  <1>9. CASE \E o \in Outcomes : t = [s EXCEPT ![k].outcome = o]
    <2>1. PICK o \in Outcomes : t = [s EXCEPT ![k].outcome = o]
      BY <1>9
    <2>2. [s[k] EXCEPT !.outcome = o] \in Reports
      BY <1>4, <2>1 DEF Reports
    <2>3. t[k].outcome = o
      BY <1>1, <1>4, <2>1 DEF Reports
    <2> QED
      BY <1>1, <1>2, <2>1, <2>2, <2>3
  <1> QED
    BY <1>3, <1>5, <1>6, <1>7, <1>8, <1>9

\* The alterations, sorted by what they touch.
LEMMA Alterations ==
  ASSUME TypeOK, Next
  PROVE  /\ edits' = edits + 1
         /\ planned' = planned
         /\ expected' = expected
         /\ \/ /\ evidence' = evidence
               /\ receipt' \in Receipts
               /\ receipt'.checks = receipt.checks
            \/ /\ evidence' = evidence
               /\ receipt' = [receipt EXCEPT !.checks = receipt'.checks]
               /\ \/ \E k \in DOMAIN receipt.checks :
                       \/ receipt'.checks = RemoveAt(receipt.checks, k)
                       \/ receipt'.checks = Append(receipt.checks, receipt.checks[k])
                  \/ receipt'.checks = Reverse(receipt.checks)
                  \/ Altered(receipt.checks, receipt'.checks)
            \/ /\ receipt' = receipt
               /\ evidence' \in Seq(Artifacts)
  <1>1. receipt \in Receipts /\ evidence \in Seq(Artifacts)
    BY DEF TypeOK
  <1>2. receipt = [form |-> receipt.form, claims |-> receipt.claims,
                   checks |-> receipt.checks]
    BY <1>1 DEF Receipts
  <1>3. ASSUME NEW s, EditChecks(s)
        PROVE  /\ edits' = edits + 1 /\ planned' = planned /\ expected' = expected
               /\ evidence' = evidence
               /\ receipt' = [receipt EXCEPT !.checks = receipt'.checks]
               /\ receipt'.checks = s
    BY <1>2, <1>3 DEF EditChecks, Edit
  <1>4. ASSUME NEW e \in Seq(Artifacts), EditEvidence(e)
        PROVE  /\ edits' = edits + 1 /\ planned' = planned /\ expected' = expected
               /\ receipt' = receipt /\ evidence' \in Seq(Artifacts)
    BY <1>4 DEF EditEvidence, Edit
  <1>5. CASE Garble
    BY <1>1, <1>5 DEF Garble, Edit, Receipts
  <1>6. CASE Rebind
    <2>1. {"other", Malformed} \subseteq Digests
      BY DEF Digests
    <2>2. PICK f \in Fields, d \in Digests :
            receipt' = [receipt EXCEPT !.claims[f] = d]
      BY <1>6, <2>1 DEF Rebind
    <2>3. receipt' \in Receipts /\ receipt'.checks = receipt.checks
      BY <1>1, <2>2 DEF Receipts
    <2> QED
      BY <1>6, <2>3 DEF Rebind, Edit
  <1>7. CASE Reorder
    <2>1. Reverse(evidence) \in Seq(Artifacts)
      BY <1>1, Reversed
    <2> QED
      BY <1>3, <1>4, <1>7, <2>1 DEF Reorder
  <1>8. CASE LoseReport
    BY <1>3, <1>8 DEF LoseReport
  <1>9. CASE RepeatReport
    <2>1. PICK k \in DOMAIN receipt.checks :
            EditChecks(Append(receipt.checks, receipt.checks[k]))
      BY <1>9, Zenon DEF RepeatReport
    <2>2. \A s : EditChecks(s) =>
            /\ edits' = edits + 1 /\ planned' = planned /\ expected' = expected
            /\ evidence' = evidence
            /\ receipt' = [receipt EXCEPT !.checks = receipt'.checks]
            /\ receipt'.checks = s
      BY <1>3, Zenon
    <2> DEFINE s == Append(receipt.checks, receipt.checks[k])
    <2>3. /\ edits' = edits + 1 /\ planned' = planned /\ expected' = expected
          /\ evidence' = evidence
          /\ receipt' = [receipt EXCEPT !.checks = receipt'.checks]
          /\ receipt'.checks = s
      BY <2>1, <2>2, Zenon
    <2> QED
      BY <2>3
  <1>10. CASE AlterReport
    <2>1. Planned \cup {Strange} \subseteq Nat /\ Planned \cup {Strange, 0} \subseteq Nat
      BY VerifierAssumption, TransportAssumption
    <2>2. 0..(MaxBytes + 1) \subseteq Nat
      BY VerifierAssumption
    <2>3. PICK k \in DOMAIN receipt.checks :
            \/ \E c \in Planned \cup {Strange} :
                 EditChecks([receipt.checks EXCEPT ![k].identifier = c])
            \/ \E p \in Planned \cup {Strange, 0} :
                 EditChecks([receipt.checks EXCEPT ![k].path = p])
            \/ \E d \in Contents \cup {Malformed} :
                 EditChecks([receipt.checks EXCEPT ![k].digest = d])
            \/ \E b \in 0..(MaxBytes + 1) :
                 EditChecks([receipt.checks EXCEPT ![k].bytes = b])
            \/ \E o \in Outcomes :
                 EditChecks([receipt.checks EXCEPT ![k].outcome = o])
      BY <1>10 DEF AlterReport
    <2>4. \E s : EditChecks(s) /\ Altered(receipt.checks, s)
      BY <2>1, <2>2, <2>3, Zenon DEF Altered
    <2> QED
      BY <1>3, <2>4
  <1>11. CASE LoseArtifact
    <2>1. PICK k \in DOMAIN evidence : EditEvidence(RemoveAt(evidence, k))
      BY <1>11 DEF LoseArtifact
    <2>2. RemoveAt(evidence, k) \in Seq(Artifacts)
      BY <1>1, RemovedAt
    <2> QED
      BY <1>4, <2>1, <2>2
  <1>12. CASE RepeatArtifact
    <2>1. PICK k \in DOMAIN evidence : EditEvidence(Append(evidence, evidence[k]))
      BY <1>12 DEF RepeatArtifact
    <2>2. Append(evidence, evidence[k]) \in Seq(Artifacts)
      BY <1>1
    <2> QED
      BY <1>4, <2>1, <2>2
  <1>13. CASE AlterArtifact
    <2>1. PICK k \in DOMAIN evidence :
            \/ \E p \in Planned \cup {Strange, 0} :
                 EditEvidence([evidence EXCEPT ![k].path = p])
            \/ \E content \in Contents :
                 EditEvidence([evidence EXCEPT ![k].content = content])
      BY <1>13 DEF AlterArtifact
    <2>2. \A p \in Planned \cup {Strange, 0} : p \in Nat
      BY VerifierAssumption, TransportAssumption
    <2>3. DOMAIN evidence = 1..Len(evidence) /\ Len(evidence) \in Nat
          /\ \A i \in DOMAIN evidence : evidence[i] \in Artifacts
      BY <1>1
    <2>4. ASSUME NEW a \in Artifacts
          PROVE  [evidence EXCEPT ![k] = a] \in Seq(Artifacts)
      <3>1. [evidence EXCEPT ![k] = a] \in [1..Len(evidence) -> Artifacts]
        BY <1>1, <2>3
      <3> QED
        BY <2>3, <3>1
    <2>5. ASSUME NEW p \in Nat
          PROVE  [evidence EXCEPT ![k].path = p] \in Seq(Artifacts)
      <3>1. [evidence[k] EXCEPT !.path = p] \in Artifacts
        BY <2>3 DEF Artifacts
      <3> QED
        BY <2>4, <3>1
    <2>6. ASSUME NEW content \in Contents
          PROVE  [evidence EXCEPT ![k].content = content] \in Seq(Artifacts)
      <3>1. [evidence[k] EXCEPT !.content = content] \in Artifacts
        BY <2>3 DEF Artifacts
      <3> QED
        BY <2>4, <3>1
    <2> QED
      BY <1>4, <2>1, <2>2, <2>5, <2>6
  <1> QED
    BY <1>5, <1>6, <1>7, <1>8, <1>9, <1>10, <1>11, <1>12, <1>13 DEF Next

LEMMA TypeInit == Init => TypeOK
  <1> SUFFICES ASSUME Init PROVE TypeOK
    OBVIOUS
  <1> DEFINE order == SetToSeq(Planned)
  <1>1. order \in [1..Cardinality(Planned) -> Planned]
    <2>1. IsFiniteSet(Planned)
      BY VerifierAssumption
    <2>2. ExistsBijection(1..Cardinality(Planned), Planned)
      BY <2>1, FS_CardinalityType
    <2>3. \E f \in [1..Cardinality(Planned) -> Planned] : IsInjective(f)
      BY <2>2, Zenon DEF ExistsBijection, Bijection, Injection
    <2> QED
      BY <2>3, Zenon DEF SetToSeq
  <1>2. Cardinality(Planned) \in Nat
    BY VerifierAssumption, FS_CardinalityType
  <1> HIDE DEF order
  <1>3. PICK output \in [Planned -> Writable], outcome \in [Planned -> Outcomes] :
          /\ receipt =
               [form |-> "supported", claims |-> expected,
                checks |-> [k \in DOMAIN order |->
                  Honest(order[k], output[order[k]], outcome[order[k]])]]
          /\ evidence = [k \in DOMAIN order |->
               [path |-> order[k], content |-> output[order[k]]]]
    BY Zenon DEF Init, order
  <1>4. expected \in [Fields -> Digests]
    <2>1. expected \in Expectations /\ expected = [f \in Fields |-> expected[f]]
      BY TransportAssumption DEF Init
    <2>2. ASSUME NEW f \in Fields PROVE expected[f] \in Digests
      <3>1. DOMAIN expected = Fields
        BY <2>1
      <3>2. expected[f] \in Range(expected)
        BY <3>1, Zenon DEF Range
      <3> QED
        BY <2>1, <3>2 DEF Digests
    <2> QED
      BY <2>1, <2>2
  <1>5. ASSUME NEW c \in Planned
        PROVE  /\ Honest(c, output[c], outcome[c]) \in Reports
               /\ [path |-> c, content |-> output[c]] \in Artifacts
    <2>1. c \in Nat /\ output[c] \in Contents /\ outcome[c] \in Outcomes
      BY VerifierAssumption DEF Writable
    <2>2. Size[output[c]] \in Nat
      BY <2>1, VerifierAssumption
    <2> QED
      BY <2>1, <2>2 DEF Honest, Reports, Artifacts
  <1>6. DOMAIN order = 1..Cardinality(Planned)
        /\ \A k \in DOMAIN order : order[k] \in Planned
    BY <1>1
  <1>7. receipt.checks \in Seq(Reports)
    <2>1. receipt.checks \in [1..Cardinality(Planned) -> Reports]
      BY <1>3, <1>5, <1>6
    <2> QED
      BY <1>2, <2>1
  <1>8. evidence \in Seq(Artifacts)
    <2>1. evidence \in [1..Cardinality(Planned) -> Artifacts]
      BY <1>3, <1>5, <1>6
    <2> QED
      BY <1>2, <2>1
  <1>9. receipt \in Receipts
    BY <1>3, <1>4, <1>7 DEF Receipts
  <1> QED
    BY <1>4, <1>8, <1>9 DEF Init, TypeOK

LEMMA TypeStep == TypeOK /\ [Next]_vars => TypeOK'
  <1> SUFFICES ASSUME TypeOK, [Next]_vars PROVE TypeOK'
    OBVIOUS
  <1>1. CASE UNCHANGED vars
    BY <1>1 DEF vars, TypeOK
  <1>2. CASE Next
    <2>1. receipt \in Receipts /\ receipt.checks \in Seq(Reports)
      BY DEF TypeOK, Receipts
    <2>2. \A s \in Seq(Reports) : [receipt EXCEPT !.checks = s] \in Receipts
      BY <2>1 DEF Receipts
    <2>3. Reverse(receipt.checks) \in Seq(Reports)
      BY <2>1, Reversed
    <2>4. ASSUME NEW k \in DOMAIN receipt.checks
          PROVE  /\ RemoveAt(receipt.checks, k) \in Seq(Reports)
                 /\ Append(receipt.checks, receipt.checks[k]) \in Seq(Reports)
      BY <2>1, RemovedAt
    <2>5. Altered(receipt.checks, receipt'.checks) =>
            receipt'.checks \in Seq(Reports)
      BY <2>1, AlteredReports
    <2>6. receipt' \in Receipts
      BY <1>2, <2>1, <2>2, <2>3, <2>4, <2>5, Alterations
    <2>7. evidence' \in Seq(Artifacts) /\ planned' \in BOOLEAN
          /\ expected' \in [Fields -> Digests] /\ edits' \in Nat
      BY <1>2, Alterations DEF TypeOK
    <2> QED
      BY <2>6, <2>7 DEF TypeOK
  <1> QED
    BY <1>1, <1>2

\* Type correctness: what is altered stays a receipt and evidence the verifier
\* can be handed.
THEOREM Types == Spec => []TypeOK
  BY TypeInit, TypeStep, PTL DEF Spec

\* The ordered early returns of verification.rs decide exactly the reference
\* definition, for every plan and any number of alterations.
THEOREM DecidesExactly == Spec => []VerdictExact
  <1>1. TypeOK => VerdictExact
    <2> SUFFICES ASSUME TypeOK PROVE VerdictExact
      OBVIOUS
    <2>1. /\ planned \in BOOLEAN
          /\ expected \in [Fields -> Digests]
          /\ receipt \in Receipts
          /\ evidence \in Seq(Artifacts)
      BY DEF TypeOK
    <2> QED
      BY <2>1, DecisionExact, Zenon DEF VerdictExact, Verdict, IsFaithful
  <1> QED
    BY <1>1, Types, PTL

\* A receipt that is not rejected has one report for every planned check.
LEMMA NotRejected ==
  ASSUME NEW p \in BOOLEAN, NEW x \in [Fields -> Digests],
         NEW r \in Receipts, NEW e \in Seq(Artifacts),
         Decision(p, x, r, e).outcome \in {"VERIFIED_PASS", "VERIFIED_FAIL"}
  PROVE  /\ Len(r.checks) = Cardinality(Planned)
         /\ Decision(p, x, r, e).outcome = "VERIFIED_PASS" <=>
              \A k \in DOMAIN r.checks : r.checks[k].outcome = "exit_zero"
  <1>1. /\ Faithful(p, x, r, e)
        /\ Decision(p, x, r, e).outcome = "VERIFIED_PASS" <=>
             ReportsOnly(r, {"exit_zero"})
    BY DecisionExact
  <1>2. r.checks \in Seq(Reports)
    BY DEF Receipts
  <1>3. Cardinality(DOMAIN r.checks) = Cardinality(Planned)
    BY <1>1, Zenon DEF Faithful
  <1> QED
    BY <1>1, <1>2, <1>3, Positions DEF ReportsOnly

\* No alteration turns a failed run into a pass, except one of a recorded
\* outcome itself, for every plan and any number of alterations.
THEOREM FailureNotHidden == Spec => FailureSticks
  <1>1. ASSUME TypeOK, TypeOK', [Next]_vars,
               Verdict.outcome = "VERIFIED_FAIL",
               Verdict'.outcome = "VERIFIED_PASS"
        PROVE  /\ evidence' = evidence
               /\ Len(receipt'.checks) = Len(receipt.checks)
               /\ \E k \in DOMAIN receipt.checks :
                    receipt'.checks = [receipt.checks EXCEPT ![k].outcome =
                                         receipt'.checks[k].outcome]
    <2> DEFINE s == receipt.checks
               t == receipt'.checks
    <2>1. /\ Len(s) = Cardinality(Planned)
          /\ \E k \in DOMAIN s : s[k].outcome # "exit_zero"
      <3>1. /\ planned \in BOOLEAN
            /\ expected \in [Fields -> Digests]
            /\ receipt \in Receipts
            /\ evidence \in Seq(Artifacts)
        BY <1>1 DEF TypeOK
      <3>2. Decision(planned, expected, receipt, evidence).outcome = "VERIFIED_FAIL"
        BY <1>1 DEF Verdict
      <3> QED
        BY <3>1, <3>2, NotRejected
    <2>2. /\ Len(t) = Cardinality(Planned)
          /\ \A k \in DOMAIN t : t[k].outcome = "exit_zero"
      <3>1. /\ planned' \in BOOLEAN
            /\ expected' \in [Fields -> Digests]
            /\ receipt' \in Receipts
            /\ evidence' \in Seq(Artifacts)
        BY <1>1 DEF TypeOK
      <3>2. Decision(planned', expected', receipt', evidence').outcome
              = "VERIFIED_PASS"
        BY <1>1 DEF Verdict
      <3> QED
        BY <3>1, <3>2, NotRejected
    <2>3. s \in Seq(Reports) /\ t # s
      BY <1>1, <2>1, <2>2 DEF TypeOK, Receipts
    <2>4. ASSUME NEW k \in DOMAIN s
          PROVE  t # RemoveAt(s, k) /\ t # Append(s, s[k])
      <3>1. Len(RemoveAt(s, k)) = Len(s) - 1
        BY <2>3, RemovedAt
      <3>2. Len(Append(s, s[k])) = Len(s) + 1
        BY <2>3
      <3>3. Len(s) \in Nat
        BY <2>3
      <3> QED
        BY <2>1, <2>2, <3>1, <3>2, <3>3
    <2>5. t # Reverse(s)
      <3>1. PICK k \in DOMAIN s : s[k].outcome # "exit_zero"
        BY <2>1
      <3>2. PICK j \in DOMAIN s : Reverse(s)[j] = s[k]
        BY <2>3, Reversed
      <3>3. j \in DOMAIN Reverse(s) /\ Reverse(s)[j].outcome # "exit_zero"
        BY <2>3, <3>1, <3>2, Reversed
      <3> HIDE DEF t
      <3> QED
        BY <2>2, <3>3
    <2>6. Next
      BY <1>1, <2>3 DEF vars
    <2> HIDE DEF s, t
    <2>7. evidence' = evidence /\ Altered(s, t)
      BY <1>1, <2>3, <2>4, <2>5, <2>6, Alterations DEF s, t
    <2>8. \E k \in DOMAIN s : t = [s EXCEPT ![k].outcome = t[k].outcome]
      <3>1. DOMAIN t = DOMAIN s
        BY <2>3, <2>7, AlteredReports
      <3>2. ~ \A k \in DOMAIN s : t[k].outcome = s[k].outcome
        BY <2>1, <2>2, <3>1
      <3> QED
        BY <2>3, <2>7, <3>2, AlteredReports
    <2> QED
      BY <2>1, <2>2, <2>7, <2>8 DEF s, t
  <1>2. TypeOK /\ TypeOK' /\ [Next]_vars =>
          [Verdict.outcome = "VERIFIED_FAIL" /\ Verdict'.outcome = "VERIFIED_PASS"
             => /\ evidence' = evidence
                /\ Len(receipt'.checks) = Len(receipt.checks)
                /\ \E k \in DOMAIN receipt.checks :
                     receipt'.checks = [receipt.checks EXCEPT ![k].outcome =
                                          receipt'.checks[k].outcome]]_vars
    BY <1>1
  <1> QED
    BY <1>2, Types, PTL DEF Spec, FailureSticks
=============================================================================
