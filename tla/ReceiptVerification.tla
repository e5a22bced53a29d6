------------------------ MODULE ReceiptVerification ------------------------
(***************************************************************************)
(* rust/src/verification.rs: the decision the verifier takes on one        *)
(* untrusted aggregate receipt and the evidence bytes supplied beside it.  *)
(*                                                                         *)
(* Identifiers and evidence paths are numbers: the code only compares them *)
(* and walks them in string order.  Evidence bytes are members of Contents *)
(* told apart by their SHA-256, so a well-formed digest of evidence is the *)
(* content it belongs to (no collisions).                                  *)
(***************************************************************************)
EXTENDS Naturals, Sequences, FiniteSets, FiniteSetsExt

CONSTANTS
  Planned,   \* check identifiers of the recomputed plan
  SafePaths, \* paths accepted by safe_evidence_path
  Contents,  \* evidence bytes
  Size,      \* [Contents -> Nat]
  MaxBytes   \* MAX_CHECK_OUTPUT_BYTES

ASSUME VerifierAssumption ==
  /\ Planned \subseteq Nat /\ IsFiniteSet(Planned) /\ Planned # {}
  /\ SafePaths \subseteq Nat
  /\ Size \in [Contents -> Nat]
  /\ "malformed" \notin Contents
  /\ MaxBytes \in Nat

None == "none"
Malformed == "malformed" \* a digest that is not 64 lowercase hex characters

Outcomes == {"exit_zero", "exit_nonzero", "timed_out"}

\* What a receipt binds itself to, in the order binding_mismatch compares.
FieldOrder ==
  <<"repository", "revision", "policy", "toolchain", "environment",
    "plan", "harness", "invocation", "coverage">>

Fields == Range(FieldOrder)

MismatchReasons ==
  <<"RECEIPT_REPOSITORY_MISMATCH", "RECEIPT_REVISION_MISMATCH",
    "RECEIPT_POLICY_MISMATCH", "RECEIPT_TOOLCHAIN_MISMATCH",
    "RECEIPT_ENVIRONMENT_MISMATCH", "RECEIPT_PLAN_MISMATCH",
    "RECEIPT_HARNESS_MISMATCH", "RECEIPT_INVOCATION_STALE",
    "RECEIPT_COVERAGE_MISMATCH">>

Pass == [outcome |-> "VERIFIED_PASS", reason |-> None]
Fail(r) == [outcome |-> "VERIFIED_FAIL", reason |-> r]
Reject(r) == [outcome |-> "RECEIPT_REJECTED", reason |-> r]

\* The first reason in the order of the code: a when there is one, else b.
OrElse(a, b) == IF a # None THEN a ELSE b

\* The reason for the least member of S that has one (BTreeMap order).
LeastReason(S, ReasonFor(_)) ==
  LET bad == {x \in S : ReasonFor(x) # None}
  IN  IF bad = {} THEN None ELSE ReasonFor(Min(bad))

-----------------------------------------------------------------------------
\* verify_receipt: the verifier's own expectations.
ExpectationReason(expected) ==
  IF expected["harness"] = Malformed THEN "VERIFY_HARNESS_DIGEST_INVALID"
  ELSE IF expected["invocation"] = Malformed
       THEN "VERIFY_INVOCATION_DIGEST_INVALID" ELSE None

\* The receipt's bytes: over one mebibyte, not the closed schema, or another
\* schema version.
FormReason(receipt) ==
  CASE receipt.form = "oversized" -> "RECEIPT_SIZE_EXCEEDED"
    [] receipt.form = "unparsable" -> "RECEIPT_MALFORMED"
    [] receipt.form = "unsupported" -> "RECEIPT_SCHEMA_UNSUPPORTED"
    [] OTHER -> None

\* invalid_run_digest and binding_mismatch.
BindingReason(receipt, expected) ==
  IF \E f \in Fields : receipt.claims[f] = Malformed
  THEN "RECEIPT_DIGEST_INVALID"
  ELSE LET differ == {k \in DOMAIN FieldOrder :
             receipt.claims[FieldOrder[k]] # expected[FieldOrder[k]]}
       IN  IF differ = {} THEN None
           ELSE MismatchReasons[Min(differ)]

\* The positions at which a receipt reports check c.
At(checks, c) == {k \in DOMAIN checks : checks[k].identifier = c}
Entry(checks, c) == checks[CHOOSE k \in At(checks, c) : TRUE]
Reported(checks) == {checks[k].identifier : k \in DOMAIN checks}

\* index_checks: exactly one report for every planned check.
CoverageReason(checks) ==
  IF \E c \in Reported(checks) : Cardinality(At(checks, c)) # 1
  THEN "RECEIPT_CHECK_DUPLICATE"
  ELSE IF ~(Reported(checks) \subseteq Planned) THEN "RECEIPT_CHECK_EXTRA"
  ELSE IF ~(Planned \subseteq Reported(checks)) THEN "RECEIPT_CHECK_MISSING"
  ELSE None

\* validate_indexed_checks: what each report claims about its evidence.
ClaimReason(entry) ==
  IF entry.path \notin SafePaths THEN "RECEIPT_EVIDENCE_PATH_UNSAFE"
  ELSE IF entry.digest = Malformed THEN "RECEIPT_OUTPUT_DIGEST_INVALID"
  ELSE IF entry.bytes > MaxBytes THEN "RECEIPT_OUTPUT_SIZE_EXCEEDED"
  ELSE None

\* index_evidence: in the order the artifacts were supplied.
SuppliedReason(evidence) ==
  LET Unsafe(k) == evidence[k].path \notin SafePaths
      Repeats(k) == \E j \in 1..(k - 1) : evidence[j].path = evidence[k].path
      bad == {k \in DOMAIN evidence : Unsafe(k) \/ Repeats(k)}
  IN  IF bad = {} THEN None
      ELSE IF Unsafe(Min(bad)) THEN "RECEIPT_EVIDENCE_PATH_UNSAFE"
      ELSE "RECEIPT_EVIDENCE_DUPLICATE"

\* One supplied content against the report that claims its path.
ContentReason(entry, content) ==
  IF Size[content] > MaxBytes THEN "RECEIPT_OUTPUT_SIZE_EXCEEDED"
  ELSE IF Size[content] # entry.bytes THEN "RECEIPT_OUTPUT_SIZE_MISMATCH"
  ELSE IF content # entry.digest THEN "RECEIPT_OUTPUT_DIGEST_MISMATCH"
  ELSE None

ClaimedPaths(checks) == {checks[k].path : k \in DOMAIN checks}
SuppliedPaths(evidence) == {evidence[k].path : k \in DOMAIN evidence}
ClaimOf(checks, p) == checks[CHOOSE k \in DOMAIN checks : checks[k].path = p]
SupplyOf(evidence, p) ==
  evidence[CHOOSE k \in DOMAIN evidence : evidence[k].path = p].content

\* Mutant of MatchReason: surplus evidence is ignored.
MatchReason_NoSurplus(checks, evidence) ==
  IF ~(ClaimedPaths(checks) \subseteq SuppliedPaths(evidence))
  THEN "RECEIPT_EVIDENCE_MISSING"
  ELSE LeastReason(ClaimedPaths(checks),
         LAMBDA p : ContentReason(ClaimOf(checks, p), SupplyOf(evidence, p)))

\* validate_evidence once both sides are indexed by path.
MatchReason(checks, evidence) ==
  IF ~(SuppliedPaths(evidence) \subseteq ClaimedPaths(checks))
  THEN "RECEIPT_EVIDENCE_EXTRA"
  ELSE IF ~(ClaimedPaths(checks) \subseteq SuppliedPaths(evidence))
  THEN "RECEIPT_EVIDENCE_MISSING"
  ELSE LeastReason(ClaimedPaths(checks),
         LAMBDA p : ContentReason(ClaimOf(checks, p), SupplyOf(evidence, p)))

EvidenceReason(checks, evidence) ==
  IF Cardinality(ClaimedPaths(checks)) # Cardinality(DOMAIN checks)
  THEN "RECEIPT_EVIDENCE_DUPLICATE"
  ELSE OrElse(SuppliedReason(evidence), MatchReason(checks, evidence))

\* Mutant of OutcomeReason: only the last report is looked at.
OutcomeReason_Last(checks) ==
  IF checks[Len(checks)].outcome = "exit_zero" THEN None
  ELSE "RECEIPT_CHECK_EXIT_NONZERO"

\* The verdict on bound evidence.
OutcomeReason(checks) ==
  LeastReason(Planned,
    LAMBDA c : CASE Entry(checks, c).outcome = "timed_out" ->
                      "RECEIPT_CHECK_TIMED_OUT"
                 [] Entry(checks, c).outcome = "exit_nonzero" ->
                      "RECEIPT_CHECK_EXIT_NONZERO"
                 [] OTHER -> None)

\* validate_receipt and validate_checks: why the receipt is rejected, if it is.
RejectReason(expected, receipt, evidence) ==
  LET checks == receipt.checks
  IN  OrElse(ExpectationReason(expected),
      OrElse(FormReason(receipt),
      OrElse(BindingReason(receipt, expected),
      OrElse(CoverageReason(checks),
      OrElse(LeastReason(Planned, LAMBDA c : ClaimReason(Entry(checks, c))),
             EvidenceReason(checks, evidence))))))

\* verify_receipt on a recomputed plan (planned is FALSE when it was rejected).
Decision(planned, expected, receipt, evidence) ==
  IF ~planned THEN Reject("RECEIPT_PLAN_RECOMPUTE_REJECTED")
  ELSE IF RejectReason(expected, receipt, evidence) # None
  THEN Reject(RejectReason(expected, receipt, evidence))
  ELSE IF OutcomeReason(receipt.checks) # None
  THEN Fail(OutcomeReason(receipt.checks))
  ELSE Pass

-----------------------------------------------------------------------------
\* Reference definition, without an order of checks or an early return: the
\* receipt is bound to the expectation and is a faithful account of exactly the
\* supplied bytes, one report and one artifact for every planned check.
Faithful(planned, expected, receipt, evidence) ==
  /\ planned
  /\ receipt.form = "supported"
  /\ receipt.claims = expected
  /\ Malformed \notin Range(expected)
  /\ \A c \in Planned : \E k \in DOMAIN receipt.checks :
       LET entry == receipt.checks[k]
       IN  /\ At(receipt.checks, c) = {k}
           /\ entry.path \in SafePaths
           /\ \E j \in DOMAIN evidence :
                /\ {i \in DOMAIN evidence : evidence[i].path = entry.path} = {j}
                /\ entry.digest = evidence[j].content
                /\ entry.bytes = Size[evidence[j].content]
           /\ entry.bytes <= MaxBytes
           /\ \A i \in DOMAIN receipt.checks \ {k} :
                receipt.checks[i].path # entry.path
  /\ Cardinality(DOMAIN receipt.checks) = Cardinality(Planned)
  /\ Cardinality(DOMAIN evidence) = Cardinality(Planned)

ReportsOnly(receipt, outcomes) ==
  \A k \in DOMAIN receipt.checks : receipt.checks[k].outcome \in outcomes
=============================================================================
