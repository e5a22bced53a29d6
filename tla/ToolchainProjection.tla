------------------------ MODULE ToolchainProjection ------------------------
(***************************************************************************)
(* project_toolchain_digest.py: the digest of toolchain.lock.json is       *)
(* projected into JSON fixtures.  Check mode only compares; write mode     *)
(* rewrites the stale fixtures one after the other, reads everything again *)
(* and rolls back when anything is wrong.  Every read and every write is a *)
(* step of its own: others may edit the files between two of them, a write *)
(* may fail, and the process may be killed.                                *)
(***************************************************************************)
EXTENDS Naturals, Sequences

CONSTANTS
  Paths,     \* PROJECTIONS, a sequence
  Digests,   \* of the contents the catalog may have
  Valid,     \* of those validate_catalog accepts
  Bodies,    \* everything of a fixture but its digest field
  MaxEdits,  \* edits by others, in all
  MaxRuns    \* invocations, in all

VARIABLES
  catalog,  \* the digest of toolchain.lock.json, or "odd" or "binary"
  fixture,  \* what each fixture holds
  at,       \* the running statement: [step, k, trying]
  local,    \* synchronize's arguments and locals
  outcome,  \* what the run printed, or that it was killed
  entry,    \* history: the fixtures when the run started
  edits, runs, edited

vars == <<catalog, fixture, at, local, outcome, entry, edits, runs, edited>>

Names == {Paths[i] : i \in DOMAIN Paths}

ASSUME ProjectionAssumption ==
  /\ Paths \in Seq(Names) /\ Paths # <<>>
  /\ Valid \subseteq Digests
  /\ {"none", "odd", "binary"} \cap Digests = {}
  /\ {"torn", "odd"} \cap Bodies = {}

Json == [body : Bodies, digest : Digests \cup {"binary"}]
Torn == [body |-> "torn", digest |-> "none"] \* not the JSON _render accepts
Odd == [body |-> "odd", digest |-> "none"]   \* not what _read_regular accepts
Contents == Json \cup {Torn, Odd}
\* A catalog that is no regular file, or one that is not UTF-8.
Catalogs == Digests \cup {"odd", "binary"}

Idle == [step |-> "idle", k |-> 1, trying |-> FALSE]
NoOutcome == [status |-> "none", code |-> "none"]
NoContent == [p \in Names |-> Torn]
NoLocal == [mode |-> "check", before |-> "none", expected |-> NoContent,
            stale |-> {}, originals |-> NoContent, unrestored |-> FALSE]

Init ==
  /\ catalog \in Catalogs
  /\ fixture \in [Names -> Contents]
  /\ at = Idle
  /\ local = NoLocal
  /\ outcome = NoOutcome
  /\ entry = fixture
  /\ edits = 0 /\ runs = 0 /\ edited = FALSE

path == Paths[at.k]
Goto(step) == at' = [at EXCEPT !.step = step, !.k = 1]

\* The loops over the projections, of which `among` are visited.
Later(among) == {j \in DOMAIN Paths : j > at.k /\ Paths[j] \in among}
NextOf(among, step) ==
  IF Later(among) = {} THEN Goto(step)
  ELSE at' = [at EXCEPT !.k = CHOOSE j \in Later(among) :
                                \A i \in Later(among) : j <= i]
First(among) == CHOOSE j \in DOMAIN Paths :
  Paths[j] \in among /\ \A i \in DOMAIN Paths : Paths[i] \in among => j <= i

Finish(status, code) ==
  /\ at' = Idle
  /\ outcome' = [status |-> status, code |-> code]

Rollback ==
  /\ at' = [step |-> "rollback", k |-> First(local.stale), trying |-> TRUE]
  /\ UNCHANGED outcome

\* A ProjectionError, or the OSError of the confirmation: once something was
\* written it leads to the rollback.
Raise(code) == IF at.trying THEN Rollback ELSE Finish("FAIL", code)

Files == <<catalog, fixture>>
History == <<entry, edits, runs, edited>>

-----------------------------------------------------------------------------
(* _expected *)

ReadCatalog ==
  /\ at.step = "catalog"
  /\ IF catalog = "odd" THEN Raise("INPUT_INVALID") /\ UNCHANGED local
     ELSE /\ Goto("validate")
          /\ local' = [local EXCEPT !.before = catalog]
          /\ UNCHANGED outcome
  /\ UNCHANGED <<Files, History>>

\* validate_catalog opens the file itself; the UnicodeDecodeError of one that is
\* not UTF-8 is caught nowhere, and ends the run without a rollback.
ValidateCatalog ==
  /\ at.step = "validate"
  /\ IF catalog = "binary" THEN Finish("traceback", "none")
     ELSE IF catalog \notin Valid THEN Raise("CATALOG_INVALID")
     ELSE Goto("reread") /\ UNCHANGED outcome
  /\ UNCHANGED <<Files, History, local>>

RereadCatalog ==
  /\ at.step = "reread"
  /\ IF catalog = "odd" THEN Raise("INPUT_INVALID")
     ELSE IF catalog # local.before THEN Raise("CATALOG_INVALID")
     ELSE Goto("render") /\ UNCHANGED outcome
  /\ UNCHANGED <<Files, History, local>>

\* Mutant of Render: the fixture is taken as it is.
Render_Unchanged ==
  /\ at.step = "render"
  /\ IF fixture[path] = Odd THEN Raise("INPUT_INVALID") /\ UNCHANGED local
     ELSE /\ NextOf(Names, "compare")
          /\ local' = [local EXCEPT !.expected[path] = fixture[path]]
          /\ UNCHANGED outcome
  /\ UNCHANGED <<Files, History>>

\* _render: only the digest field is replaced.
Render ==
  /\ at.step = "render"
  /\ IF fixture[path] = Odd THEN Raise("INPUT_INVALID") /\ UNCHANGED local
     ELSE IF fixture[path] = Torn THEN Raise("INVALID") /\ UNCHANGED local
     ELSE /\ NextOf(Names, "compare")
          /\ local' = [local EXCEPT !.expected[path] =
                         [fixture[path] EXCEPT !.digest = local.before]]
          /\ UNCHANGED outcome
  /\ UNCHANGED <<Files, History>>

-----------------------------------------------------------------------------
(* synchronize *)

\* Every fixture is read again; the first time the stale ones are collected,
\* when confirming any difference is an OSError.
Compare ==
  /\ at.step = "compare"
  /\ LET differs == fixture[path] # local.expected[path] IN
     IF fixture[path] = Odd THEN Raise("INPUT_INVALID") /\ UNCHANGED local
     ELSE IF at.trying /\ differs THEN Raise("WRITE_FAILED") /\ UNCHANGED local
     ELSE /\ NextOf(Names, "decide")
          /\ local' = IF differs
                      THEN [local EXCEPT !.stale = @ \cup {path}] ELSE local
          /\ UNCHANGED outcome
  /\ UNCHANGED <<Files, History>>

Decide ==
  /\ at.step = "decide"
  /\ IF at.trying \/ local.stale = {} THEN Finish("PASS", "none")
     ELSE IF local.mode = "check" THEN Finish("FAIL", "STALE")
     ELSE /\ at' = [at EXCEPT !.step = "originals", !.k = First(local.stale)]
          /\ UNCHANGED outcome
  /\ UNCHANGED <<Files, History, local>>

ReadOriginal ==
  /\ at.step = "originals"
  /\ IF fixture[path] = Odd THEN Raise("INPUT_INVALID") /\ UNCHANGED local
     ELSE /\ IF Later(local.stale) = {}
             THEN at' = [at EXCEPT !.step = "write", !.k = First(local.stale)]
             ELSE NextOf(local.stale, "write")
          /\ local' = [local EXCEPT !.originals[path] = fixture[path]]
          /\ UNCHANGED outcome
  /\ UNCHANGED <<Files, History>>

\* write_bytes to a path that is no regular file replaces it or writes elsewhere.
Put(content) ==
  \E after \in IF fixture[path] = Odd THEN {Odd, content} ELSE {content} :
    fixture' = [fixture EXCEPT ![path] = after]

\* It truncates before it writes: a failure or a kill may leave a part.
Break == \E after \in {fixture[path], Torn} :
           fixture' = [fixture EXCEPT ![path] = after]

WriteOne ==
  /\ at.step = "write"
  /\ Put(local.expected[path])
  /\ IF Later(local.stale) = {}
     THEN at' = [step |-> "catalog", k |-> 1, trying |-> TRUE]
     ELSE NextOf(local.stale, "catalog")
  /\ UNCHANGED <<catalog, History, local, outcome>>

WriteFails ==
  /\ at.step = "write"
  /\ Break
  /\ Rollback
  /\ UNCHANGED <<catalog, History, local>>

\* Mutant of RestoreOne: only the first original is put back.
RestoreOne_First ==
  /\ at.step = "rollback"
  /\ Put(local.originals[path])
  /\ Finish("FAIL", "WRITE_FAILED")
  /\ UNCHANGED <<catalog, History, local>>

RestoreOne ==
  /\ at.step = "rollback"
  /\ Put(local.originals[path])
  /\ IF Later(local.stale) = {} THEN Finish("FAIL", "WRITE_FAILED")
     ELSE NextOf(local.stale, "rollback") /\ UNCHANGED outcome
  /\ UNCHANGED <<catalog, History, local>>

\* The first OSError ends the rollback.
RestoreFails ==
  /\ at.step = "rollback"
  /\ Break
  /\ local' = [local EXCEPT !.unrestored = TRUE]
  /\ Finish("FAIL", "WRITE_FAILED")
  /\ UNCHANGED <<catalog, History>>

Killed ==
  /\ at.step # "idle"
  /\ IF at.step \in {"write", "rollback"} THEN Break ELSE UNCHANGED fixture
  /\ Finish("killed", "none")
  /\ UNCHANGED <<catalog, History, local>>

-----------------------------------------------------------------------------
Run(mode) ==
  /\ at.step = "idle" /\ runs < MaxRuns
  /\ runs' = runs + 1
  /\ at' = [Idle EXCEPT !.step = "catalog"]
  /\ local' = [NoLocal EXCEPT !.mode = mode]
  /\ outcome' = NoOutcome
  /\ entry' = fixture
  /\ edited' = FALSE
  /\ UNCHANGED <<Files, edits>>

\* Someone else replaces the catalog or a fixture.
Edit ==
  /\ edits < MaxEdits
  /\ edits' = edits + 1
  /\ edited' = TRUE
  /\ \/ catalog' \in Catalogs \ {catalog} /\ UNCHANGED fixture
     \/ /\ \E p \in Names, content \in Contents :
             fixture' = [fixture EXCEPT ![p] = content]
        /\ UNCHANGED catalog
  /\ UNCHANGED <<at, local, outcome, entry, runs>>

Synchronize ==
  ReadCatalog \/ ValidateCatalog \/ RereadCatalog \/ Render \/ Compare \/ Decide
  \/ ReadOriginal \/ WriteOne \/ WriteFails \/ RestoreOne \/ RestoreFails

Next == Synchronize \/ (\E mode \in {"check", "write"} : Run(mode))
        \/ Edit \/ Killed

Spec == Init /\ [][Next]_vars

-----------------------------------------------------------------------------
(* Properties *)

\* A run nobody disturbed passes only over a valid catalog whose digest every
\* fixture holds, whatever an interrupted or failed run had left before.
PassMeansProjected ==
  outcome.status = "PASS" /\ ~edited =>
    /\ catalog \in Valid
    /\ \A p \in Names : fixture[p] \in Json /\ fixture[p].digest = catalog

\* What an undisturbed run does to the fixtures: nothing in check mode and when
\* it fails, unless the rollback failed itself; their digest alone when it
\* passes; and, however it ends, each holds its original or its projection
\* unless the run was killed or its rollback failed.
FixturesPreserved ==
  ~edited /\ outcome.status # "none" =>
    /\ local.mode = "check" => fixture = entry
    /\ outcome.status = "FAIL" /\ ~local.unrestored => fixture = entry
    /\ outcome.status = "PASS" => \A p \in Names : fixture[p].body = entry[p].body
    /\ \A p \in Names :
         \/ fixture[p] \in {entry[p], local.expected[p]}
         \/ /\ fixture[p] = Torn
            /\ outcome.status = "killed" \/ local.unrestored

\* The types, over any number of fixtures.
TypeOK ==
  /\ catalog \in Catalogs
  /\ fixture \in [Names -> Contents] /\ entry \in [Names -> Contents]
  /\ at \in [step : {"idle", "catalog", "validate", "reread", "render",
                     "compare", "decide", "originals", "write", "rollback"},
             k : DOMAIN Paths, trying : BOOLEAN]
  /\ local \in [mode : {"check", "write"}, before : Catalogs \cup {"none"},
                expected : [Names -> Contents], stale : SUBSET Names,
                originals : [Names -> Contents], unrestored : BOOLEAN]
  /\ edited \in BOOLEAN
=============================================================================
