-------------------------- MODULE ReceiptTransport --------------------------
(***************************************************************************)
(* The verifier trusts nothing it is handed.  A harness writes one receipt *)
(* and its evidence; before they are verified, up to MaxEdits alterations  *)
(* lose, repeat, reorder, relabel or replace pieces of them.               *)
(***************************************************************************)
EXTENDS ReceiptVerification, SequencesExt

CONSTANTS
  Expectations, \* the [Fields -> digests] the verifier may be told
  Strange,      \* an identifier that is not planned, and its path
  MaxEdits      \* bound on the alterations

ASSUME TransportAssumption ==
  /\ \A e \in Expectations : e = [f \in Fields |-> e[f]]
  /\ Strange \in Nat \ Planned
  /\ MaxEdits \in Nat

VARIABLES
  planned,  \* the verifier's own plan recomputation succeeded
  expected, \* what the verifier was told or recomputed
  receipt,  \* the receipt's bytes, as the verifier parses them
  evidence, \* the artifacts supplied, in order
  edits     \* alterations so far

vars == <<planned, expected, receipt, evidence, edits>>

\* _execute_check's report of a check that wrote content.
Honest(c, content, outcome) ==
  [identifier |-> c, path |-> c, digest |-> content,
   bytes |-> Size[content], outcome |-> outcome]

Writable == {content \in Contents : Size[content] <= MaxBytes}

Init ==
  /\ planned \in BOOLEAN
  /\ expected \in Expectations
  /\ \E output \in [Planned -> Writable], outcome \in [Planned -> Outcomes] :
       LET order == SetToSeq(Planned)
       IN  /\ receipt =
                [form |-> "supported", claims |-> expected,
                 checks |-> [k \in DOMAIN order |->
                   Honest(order[k], output[order[k]], outcome[order[k]])]]
           /\ evidence = [k \in DOMAIN order |->
                [path |-> order[k], content |-> output[order[k]]]]
  /\ edits = 0

Edit == edits < MaxEdits /\ edits' = edits + 1 /\ UNCHANGED <<planned, expected>>

EditChecks(checks) ==
  Edit /\ receipt' = [receipt EXCEPT !.checks = checks] /\ UNCHANGED evidence

\* Bytes that are too long, cut short, or of another schema version.
Garble ==
  /\ Edit
  /\ \E form \in {"oversized", "unparsable", "unsupported"} :
       receipt' = [receipt EXCEPT !.form = form]
  /\ UNCHANGED evidence

\* A receipt of another subject, plan, harness or invocation.
Rebind ==
  /\ Edit
  /\ \E f \in Fields, d \in {"other", Malformed} :
       receipt' = [receipt EXCEPT !.claims[f] = d]
  /\ UNCHANGED evidence

LoseReport ==
  \E k \in DOMAIN receipt.checks : EditChecks(RemoveAt(receipt.checks, k))

RepeatReport ==
  \E k \in DOMAIN receipt.checks :
    EditChecks(Append(receipt.checks, receipt.checks[k]))

\* A report is relabelled or its claim about the evidence altered.
AlterReport ==
  \E k \in DOMAIN receipt.checks :
    LET With(field, v) ==
          EditChecks([receipt.checks EXCEPT ![k] = [@ EXCEPT ![field] = v]])
    IN  \/ \E c \in Planned \cup {Strange} : With("identifier", c)
        \/ \E p \in Planned \cup {Strange, 0} : With("path", p)
        \/ \E d \in Contents \cup {Malformed} : With("digest", d)
        \/ \E b \in 0..(MaxBytes + 1) : With("bytes", b)
        \/ \E o \in Outcomes : With("outcome", o)

EditEvidence(artifacts) ==
  Edit /\ evidence' = artifacts /\ UNCHANGED receipt

LoseArtifact ==
  \E k \in DOMAIN evidence : EditEvidence(RemoveAt(evidence, k))

RepeatArtifact ==
  \E k \in DOMAIN evidence : EditEvidence(Append(evidence, evidence[k]))

AlterArtifact ==
  \E k \in DOMAIN evidence :
    \/ \E p \in Planned \cup {Strange, 0} :
         EditEvidence([evidence EXCEPT ![k].path = p])
    \/ \E content \in Contents :
         EditEvidence([evidence EXCEPT ![k].content = content])

Reorder ==
  \/ EditChecks(Reverse(receipt.checks))
  \/ EditEvidence(Reverse(evidence))

Next ==
  \/ Garble \/ Rebind \/ Reorder
  \/ LoseReport \/ RepeatReport \/ AlterReport
  \/ LoseArtifact \/ RepeatArtifact \/ AlterArtifact

Spec == Init /\ [][Next]_vars

-----------------------------------------------------------------------------
(* Properties *)

Verdict == Decision(planned, expected, receipt, evidence)

IsFaithful == Faithful(planned, expected, receipt, evidence)

\* The ordered early returns of verification.rs decide exactly the reference
\* definition: PASS for a faithful account of checks that all exited with zero,
\* FAIL for any other faithful account, and rejection of everything else.
VerdictExact ==
  /\ Verdict.outcome = "VERIFIED_PASS" <=>
       IsFaithful /\ ReportsOnly(receipt, {"exit_zero"})
  /\ Verdict.outcome = "VERIFIED_FAIL" <=>
       IsFaithful /\ ~ReportsOnly(receipt, {"exit_zero"})

\* No alteration turns a failed run into a pass, except one of a recorded
\* outcome itself: losing, repeating, moving or replacing evidence only rejects.
FailureSticks ==
  [][Verdict.outcome = "VERIFIED_FAIL" /\ Verdict'.outcome = "VERIFIED_PASS"
       => /\ evidence' = evidence
          /\ Len(receipt'.checks) = Len(receipt.checks)
          /\ \E k \in DOMAIN receipt.checks :
               receipt'.checks = [receipt.checks EXCEPT ![k].outcome =
                                    receipt'.checks[k].outcome]]_vars
=============================================================================
