---------------------------- MODULE PullSnapshot ----------------------------
(***************************************************************************)
(* scripts/validate_pr_authority.py: one validation of pull request Target *)
(* against a repository that changes between the requests.                 *)
(*                                                                         *)
(* Every request is one step.  The open pull requests are listed in pages, *)
(* oldest first, so that closing one moves later ones to an earlier page.  *)
(* The validator takes two snapshots and compares them.                    *)
(***************************************************************************)
EXTENDS Naturals, Sequences, FiniteSets, SequencesExt

CONSTANTS
  Numbers,     \* numbers of the repository's pull requests
  Target,      \* the one the event names
  PageSize,    \* PAGE_SIZE
  MaxPages,    \* MAX_PAGES
  RequireBody, \* require_body: FALSE for validate_immutable_pr_authority
  MaxChanges,  \* bound on the changes while the validation runs
  MaxFailures  \* bound on requests that fail

ASSUME SnapshotAssumption ==
  /\ Numbers \subseteq Nat /\ IsFiniteSet(Numbers)
  /\ Target \in Numbers
  /\ PageSize \in Nat \ {0} /\ MaxPages \in Nat \ {0}
  /\ RequireBody \in BOOLEAN
  /\ MaxChanges \in Nat /\ MaxFailures \in Nat

None == "none"

\* Values the event named, and others.  A body is valid if its Issue line and
\* review evidence agree with the commit.
Shas == {"event", "other"}
Bodies == {"valid", "invalid"}
Steps == {"pull", "list", "commit", "compare", "issue", "done"}

VARIABLES
  open,     \* numbers of the open pull requests
  head,     \* [Numbers -> Shas]: their head commits
  base,     \* base commit of Target
  body,     \* body of Target
  trailer,  \* whether the event's head commit names one Issue in its trailer
  issue,    \* whether that number is an Issue of the repository
  at,       \* the validator's next step
  pulled,   \* what GET /pulls/Target returned in this snapshot
  page,     \* page to list next
  last,     \* expected_last, 0 for None
  listed,   \* listed_pulls so far
  first,    \* <<the first snapshot>>, <<>> before it is complete
  result,   \* PASS, FAIL or INCONCLUSIVE, None before
  sole,     \* history: Target was once the only open one with the event's head
  changes,  \* changes so far
  failures  \* failed requests so far

hub == <<open, head, base, body, trailer, issue, changes>>
validator == <<at, pulled, page, last, listed, first, result, failures>>
vars == <<open, head, base, body, trailer, issue, at, pulled, page, last,
          listed, first, result, sole, changes, failures>>

Holders == {n \in open : head[n] = "event"}
Unique == Holders = {Target}

Init ==
  /\ open \in SUBSET Numbers
  /\ head \in [Numbers -> Shas]
  /\ base \in Shas /\ body \in Bodies
  /\ trailer \in BOOLEAN /\ issue \in BOOLEAN
  /\ at = "pull"
  /\ pulled = None
  /\ page = 1 /\ last = 0 /\ listed = <<>>
  /\ first = <<>>
  /\ result = None
  /\ sole = Unique
  /\ changes = 0 /\ failures = 0

-----------------------------------------------------------------------------
(* The repository changes *)

Change ==
  /\ at # "done"
  /\ changes < MaxChanges
  /\ changes' = changes + 1
  /\ sole' = (sole \/ Unique')
  /\ UNCHANGED <<trailer, validator>>

Close(n) ==
  /\ n \in open
  /\ open' = open \ {n}
  /\ UNCHANGED <<head, base, body, issue>>
  /\ Change

\* A pull request is opened or reopened: it takes its place by creation.
Reopen(n) ==
  /\ n \notin open
  /\ open' = open \cup {n}
  /\ UNCHANGED <<head, base, body, issue>>
  /\ Change

Push(n) ==
  /\ n \in open
  /\ head' = [head EXCEPT ![n] = CHOOSE s \in Shas : s # @]
  /\ UNCHANGED <<open, base, body, issue>>
  /\ Change

\* The target's base or body is edited, or the Issue goes.
Edit ==
  /\ \/ base' \in Shas \ {base} /\ UNCHANGED <<body, issue>>
     \/ body' \in Bodies \ {body} /\ UNCHANGED <<base, issue>>
     \/ issue /\ issue' = FALSE /\ UNCHANGED <<base, body>>
  /\ UNCHANGED <<open, head>>
  /\ Change

-----------------------------------------------------------------------------
(* GitHub's paginated listing *)

\* The place of an open pull request in the listing, and the listing.
Place(n) == Cardinality({m \in open : m <= n})
Ordered == [k \in 1..Cardinality(open) |-> CHOOSE n \in open : Place(n) = k]
PageCount == (Len(Ordered) + PageSize - 1) \div PageSize

PageOf(p) ==
  SubSeq(Ordered, (p - 1) * PageSize + 1, Min({p * PageSize, Len(Ordered)}))

NoLink == [prev |-> 0, next |-> 0, last |-> 0]
Linked(p, n, l) == [prev |-> p, next |-> n, last |-> l]

\* The relations of page p.  What a page past the end links to is not
\* documented: no header, the page before it, or the real last page.
Links(p) ==
  IF p > 1 /\ p > PageCount
  THEN {NoLink, Linked(p - 1, 0, 0), Linked(PageCount, 0, PageCount)}
  ELSE {Linked(p - 1, IF p < PageCount THEN p + 1 ELSE 0,
               IF p < PageCount THEN PageCount ELSE 0)}

-----------------------------------------------------------------------------
(* The validator *)

Verdict(r) == at' = "done" /\ result' = r

\* _call: the request fails, after its one retry.
RequestFails ==
  /\ at \in {"pull", "list", "commit", "issue"}
  /\ failures < MaxFailures
  /\ failures' = failures + 1
  /\ Verdict("INCONCLUSIVE")
  /\ UNCHANGED <<hub, sole, pulled, page, last, listed, first>>

\* GET /pulls/Target: it must be open and as the event named it.
GetPull ==
  /\ at = "pull"
  /\ IF Target \in open /\ head[Target] = "event" /\ base = "event"
     THEN /\ at' = "list"
          /\ pulled' = body
          /\ page' = 1 /\ last' = 0 /\ listed' = <<>>
          /\ UNCHANGED result
     ELSE Verdict("FAIL") /\ UNCHANGED <<pulled, page, last, listed>>
  /\ UNCHANGED <<hub, sole, first, failures>>

\* _next_page: expected_last once this page's relations are known.
KnownLast(link) == IF link.last # 0 THEN link.last ELSE last

\* Mutant of Contradicts: the last page, too, must link to a next one.
Contradicts_LastPage(link) ==
  IF link = NoLink THEN last # 0 /\ page # last
  ELSE \/ link.prev # 0 /\ link.prev # page - 1
       \/ link.next # 0 /\ link.next # page + 1
       \/ link.last # 0 /\ (link.last < page \/ (last # 0 /\ link.last # last))
       \/ KnownLast(link) # 0 /\ KnownLast(link) >= page /\ link.next = 0

\* The relations contradict this page or what earlier pages announced.
Contradicts(link) ==
  IF link = NoLink THEN last # 0 /\ page # last
  ELSE \/ link.prev # 0 /\ link.prev # page - 1
       \/ link.next # 0 /\ link.next # page + 1
       \/ link.last # 0 /\ (link.last < page \/ (last # 0 /\ link.last # last))
       \/ /\ KnownLast(link) # 0
          /\ \/ KnownLast(link) > page /\ link.next = 0
             \/ link.next > KnownLast(link)

\* More pages than the validator reads.
Over(link) == link.last > MaxPages \/ (link.next # 0 /\ page = MaxPages)

Repeated(numbers) ==
  \E n \in ToSet(numbers) : \E k \in DOMAIN listed : listed[k][1] = n

\* The numbers listed with the head of Target.
Candidates(pulls) == {k \in DOMAIN pulls : pulls[k][2] = "event"}

\* Mutant of SnapshotEnds: the first snapshot is not kept.
SnapshotEnds_Forgets(snapshot) ==
  IF first = <<>>
  THEN at' = "commit" /\ UNCHANGED <<first, result>>
  ELSE IF first = <<snapshot>>
  THEN at' = "compare" /\ UNCHANGED <<first, result>>
  ELSE Verdict("FAIL") /\ UNCHANGED first

\* The snapshot is complete: the first is kept, the second must equal it.
SnapshotEnds(snapshot) ==
  IF first = <<>>
  THEN at' = "commit" /\ first' = <<snapshot>> /\ UNCHANGED result
  ELSE IF first = <<snapshot>>
  THEN at' = "compare" /\ UNCHANGED <<first, result>>
  ELSE Verdict("FAIL") /\ UNCHANGED first

\* One page of the loop in _live_snapshot.
ListPage ==
  /\ at = "list"
  /\ \E link \in Links(page) :
       LET numbers == PageOf(page)
           seen == listed \o [k \in DOMAIN numbers |->
                                <<numbers[k], head[numbers[k]]>>]
           snapshot == [pulls |-> seen,
                        body |-> IF RequireBody THEN pulled ELSE None]
       IN  /\ listed' = seen
           /\ last' = KnownLast(link)
           /\ IF Repeated(numbers) \/ Contradicts(link) \/ Over(link)
              THEN Verdict("INCONCLUSIVE") /\ UNCHANGED <<page, first>>
              ELSE IF link.next # 0
              THEN page' = link.next /\ UNCHANGED <<at, first, result>>
              ELSE /\ UNCHANGED page
                   /\ IF {seen[k][1] : k \in Candidates(seen)} = {Target}
                      THEN SnapshotEnds(snapshot)
                      ELSE Verdict("FAIL") /\ UNCHANGED first
  /\ UNCHANGED <<hub, sole, pulled, failures>>

\* Mutant of GetCommit: the second snapshot is left out.
GetCommit_Once ==
  /\ at = "commit"
  /\ IF trailer THEN at' = "compare" /\ UNCHANGED result ELSE Verdict("FAIL")
  /\ UNCHANGED <<hub, sole, pulled, page, last, listed, first, failures>>

\* _commit_issue_number: the head commit's trailer; then the second snapshot.
GetCommit ==
  /\ at = "commit"
  /\ IF trailer THEN at' = "pull" /\ UNCHANGED result ELSE Verdict("FAIL")
  /\ UNCHANGED <<hub, sole, pulled, page, last, listed, first, failures>>

\* The body's Issue line and review evidence, when they are required.
CompareBody ==
  /\ at = "compare"
  /\ IF RequireBody => pulled # "invalid"
     THEN at' = "issue" /\ UNCHANGED result ELSE Verdict("FAIL")
  /\ UNCHANGED <<hub, sole, pulled, page, last, listed, first, failures>>

\* _require_repository_issue
GetIssue ==
  /\ at = "issue"
  /\ Verdict(IF issue THEN "PASS" ELSE "FAIL")
  /\ UNCHANGED <<hub, sole, pulled, page, last, listed, first, failures>>

ValidatorStep ==
  RequestFails \/ GetPull \/ ListPage \/ GetCommit \/ CompareBody \/ GetIssue

Done == at = "done" /\ UNCHANGED vars

Next ==
  \/ \E n \in Numbers : Close(n) \/ Reopen(n) \/ Push(n)
  \/ Edit
  \/ ValidatorStep
  \/ Done

Safety == Init /\ [][Next]_vars

\* Requests have a time limit.
Spec == Safety /\ WF_vars(ValidatorStep)

-----------------------------------------------------------------------------
(* Properties *)

\* A validation that passes saw its pull request be the only open one with its
\* head at some moment: partial pages and non-unique heads never admit (contract
\* of validate_pr_authority.py).  Two snapshots guarantee it while at most two
\* changes happen during the validation.
UniqueWitnessed == result = "PASS" => sole

\* While nothing changes and no request fails the validator accepts exactly the
\* authorized pull requests, wherever the pages end (_next_page).
Fits == PageCount <= MaxPages
Legitimate ==
  /\ Unique /\ base = "event" /\ Fits
  /\ trailer /\ issue
  /\ RequireBody => body # "invalid"

QuietDecided ==
  result # None /\ changes = 0 /\ failures = 0 =>
    /\ result = "PASS" <=> Legitimate
    /\ result = "INCONCLUSIVE" => ~Fits

\* However the repository moves, the pages end and so does the validation.
Decides == <>(at = "done")
=============================================================================
