---------------------------- MODULE GovernorTools ----------------------------
(***************************************************************************)
(* One tool at work on an installed plugin and a repository: the audit of  *)
(* doctor.py, a call through rust_dispatch.py, or the typed policy step of *)
(* continuous integration, while others replace files and services of the  *)
(* network come and go; or the projection of the toolchain digest.         *)
(***************************************************************************)
EXTENDS Doctor, TypedCommand, ToolchainProjection

VARIABLES
  witnessed, \* history: at some instant of this run everything was in order
  hashed     \* history: the updates when invoke hashed the binary

doctor == <<memo, found>>
frame == <<stage, call, ran, exit>>
world == <<setup, files, down, updates, witnessed>>
tool == <<doctor, frame, world, typed>>
toolVars == <<tool, hashed, vars>>

-----------------------------------------------------------------------------
(* What the tools should say of files as they are, told without an order. *)

RuntimeFiles == {RuntimeReads[k] : k \in DOMAIN RuntimeReads}
CanonicalFiles == {LockReads[k] : k \in DOMAIN LockReads}
Validators == DOMAIN Subject

\* The files that are read.
Everything == RuntimeFiles \cup CanonicalFiles \cup Validators \cup
  {"plugin_json", "skills", "knowledge", "ask_lock", "ask_adapter",
   "ask_installed", "policy", "git", "setup_docs", "setup_receipt",
   "owner_files", "owner_lock"}

\* "mutating" and "owner" are contents of a policy, not of a knowledge bundle.
ASSUME ToolsAssumption ==
  \A s \in Setups :
    /\ s.files \in [DOMAIN s.files -> STRING]
    /\ Everything \subseteq DOMAIN s.files
    /\ s.files["knowledge"] \notin {"mutating", "owner"}
    /\ s.limit \in Nat

OneRelease(names, now) == \E v \in Intact : \A name \in names : now[name] = v

\* The bundled binary is the one the manifest declares, of one release.
RuntimeInOrder(now) ==
  OneRelease(RuntimeFiles, now) /\ ~Flawed("rust_slow") /\ ~Flawed("rust_crashes")

\* Without a Skill the Skill validator is not needed.
CanonicalInOrder(now) ==
  /\ \/ now["skills"] = "empty"
        /\ OneRelease(CanonicalFiles \cup {"plugin_validator"}, now)
     \/ now["skills"] \in Intact
        /\ OneRelease(CanonicalFiles \cup Validators, now)
  /\ now["plugin_json"] \in Intact
  /\ ~Flawed("validator_slow") /\ ~Flawed("yaml_unusable")

\* What the audit needs beside them for an exit with zero: there may be no
\* policy, but then nothing mutating is allowed, and no receipt of a setup, but
\* one that is read must at least be text.
RepositoryInOrder(now) ==
  /\ {now["catalog"], now["knowledge"]} \subseteq Intact
  /\ OneRelease({"ask_lock", "ask_adapter", "ask_installed"}, now)
  /\ now["policy"] \in {"v1", "v2", "missing", "odd"}
  /\ now["setup_docs"] \in {"missing", "odd"} \/ now["setup_receipt"] # "garbled"

InOrder(now) ==
  CASE setup.tool = "dispatch" -> RuntimeInOrder(now) /\ now["knowledge"] \in Intact
    [] setup.tool = "doctor" ->
         RuntimeInOrder(now) /\ CanonicalInOrder(now) /\ RepositoryInOrder(now)
    [] OTHER -> FALSE

-----------------------------------------------------------------------------
FirstStage == [doctor |-> "plugin_manifest", dispatch |-> "dispatch",
               typed |-> "launch", projection |-> "none"]

ToolsInit ==
  /\ setup \in Setups
  /\ files = setup.files /\ down = setup.down /\ updates = 0
  /\ stage = FirstStage[setup.tool] /\ call = NoCall /\ ran = {} /\ exit = NoExit
  /\ memo = NoMemo /\ found = {}
  /\ places = NoPlaces /\ receipt = "none" /\ silent = {} /\ seen = {}
  /\ witnessed = InOrder(files) /\ hashed = 0
  /\ IF setup.tool = "projection" THEN Init
     ELSE /\ catalog = "odd" /\ fixture = NoContent /\ at = Idle
          /\ local = NoLocal /\ outcome = NoOutcome /\ entry = NoContent
          /\ edits = 0 /\ runs = 0 /\ edited = FALSE

\* Others replace a file, or a service stops answering or answers again.
Replace ==
  /\ stage \notin {"none", "done"} /\ updates < setup.limit
  /\ updates' = updates + 1
  /\ \/ /\ \E change \in setup.changes :
             /\ files[change[1]] # change[2]
             /\ files' = [files EXCEPT ![change[1]] = change[2]]
        /\ UNCHANGED down
     \/ /\ setup.tool = "typed"
        /\ \E s \in Services : down' = IF s \in down THEN down \ {s} ELSE down \cup {s}
        /\ UNCHANGED files
  /\ witnessed' = (witnessed \/ InOrder(files'))
  /\ silent' = silent \cap down' /\ seen' = IF exit = NoExit THEN {} ELSE seen \cup down'
  /\ UNCHANGED <<setup, frame, doctor, places, receipt, hashed, vars>>

Tool ==
  \/ setup.tool = "doctor" /\ Audit /\ UNCHANGED typed
  \/ setup.tool = "dispatch" /\ Dispatch /\ UNCHANGED <<doctor, typed>>
  \/ setup.tool = "typed" /\ Typed /\ UNCHANGED doctor

ToolsNext ==
  \/ /\ Tool
     /\ hashed' = IF call.proc = "invoke" /\ call.step = 3 THEN updates ELSE hashed
     /\ UNCHANGED <<world, vars>>
  \/ Replace
  \/ setup.tool = "projection" /\ Next /\ UNCHANGED <<tool, hashed>>

ToolsSpec == ToolsInit /\ [][ToolsNext]_toolVars

-----------------------------------------------------------------------------
(* Properties *)

\* A tool that ends with zero saw everything in order at one and the same
\* instant of its run, though it reads one file after the other while others
\* replace them: at most three replacements during a dispatch, one during an
\* audit.  Four and two refute it, and without the second verification of the
\* Rust runtime fewer do.
SuccessWitnessed ==
  exit = 0 /\ setup.tool \in {"doctor", "dispatch"} => witnessed

\* A validator is only ever executed from the bytes that were verified; the
\* Rust binary, executed by its path, may be another one only if something was
\* replaced after invoke itself had hashed it.
ExecutedVerified ==
  [][\A r \in ran' \ ran :
       r.bytes # r.verified => r.what = "binary" /\ updates > hashed]_toolVars

\* What nobody can tell from outside: files that are not there, programs that
\* do not answer, and what only a trusted attestation could decide.
Inaccessible ==
  \/ \E name \in CanonicalFiles \cup Validators \cup {"ask_installed"} :
       files[name] = "missing"
  \/ files["ask_installed"] = "odd"
  \/ files["manifest"] = "foreign"
  \/ files["knowledge"] = "partial"
  \/ files["policy"] \in {"mutating", "owner"}
  \/ \E what \in {"rust_slow", "rust_crashes", "validator_slow"} : Flawed(what)

\* The audit of files nobody replaces ends with zero exactly if everything is
\* in order, and with 2 only if something was out of its reach.
ExitTruthful ==
  setup.tool = "doctor" /\ stage = "done" /\ updates = 0 =>
    /\ (exit = 0) <=> InOrder(files)
    /\ exit = 2 => Inaccessible

\* An outage that lasts until the receipt is never blamed on the code, an
\* INCONCLUSIVE has an exit with 2 or an outage behind it, and a PASS means that
\* both validators ran.  The host the validators are fetched from is not probed.
OutageTyped ==
  /\ receipt = "FAIL" => silent \cap Probed = {}
  /\ receipt = "INCONCLUSIVE" => exit = 2 \/ seen \cap Probed # {}
  /\ receipt = "PASS" => {r.what : r \in ran} = Validators
=============================================================================
