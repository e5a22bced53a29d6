---------------------------- MODULE AggregateRun ----------------------------
(***************************************************************************)
(* What one bounded run promises its caller, with every process, signal    *)
(* and file left out.  Checks complete in dependency order, each with one  *)
(* outcome; the run then ends once, either attesting the outcome of every  *)
(* check (exit status 0 and an aggregate receipt) or refusing (any other   *)
(* exit status).  HarnessRun implements this specification.                *)
(***************************************************************************)
CONSTANTS
  Checks,       \* identifiers of the planned checks
  Dependencies, \* [Checks -> SUBSET Checks]
  Outcomes      \* what a completed check can report

None == "none"

VARIABLES
  results,   \* results[c] is the outcome recorded for c, None before
  published, \* the outcomes the caller may rely on
  verdict    \* "open", "attested" or "refused"

vars == <<results, published, verdict>>

Nothing == [c \in Checks |-> None]

Init ==
  /\ results = Nothing
  /\ published = Nothing
  /\ verdict = "open"

Complete(c) ==
  /\ verdict = "open"
  /\ results[c] = None
  /\ \A d \in Dependencies[c] : results[d] # None
  /\ \E o \in Outcomes : results' = [results EXCEPT ![c] = o]
  /\ UNCHANGED <<published, verdict>>

Attest ==
  /\ verdict = "open"
  /\ \A c \in Checks : results[c] # None
  /\ published' = results
  /\ verdict' = "attested"
  /\ UNCHANGED results

Refuse ==
  /\ verdict = "open"
  /\ verdict' = "refused"
  /\ UNCHANGED <<results, published>>

Next ==
  \/ \E c \in Checks : Complete(c)
  \/ Attest
  \/ Refuse

Safety == Init /\ [][Next]_vars

Spec == Safety /\ WF_vars(Attest \/ Refuse)
=============================================================================
