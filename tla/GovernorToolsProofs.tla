------------------------ MODULE GovernorToolsProofs ------------------------
(***************************************************************************)
(* The tools that others replace files under, for any installation and any *)
(* number of replacements: only verified bytes are executed; an outage is  *)
(* reported where it was; an audit nobody disturbs ends with the exit code *)
(* its statement deserves; a dispatch that succeeds saw the bundle in      *)
(* order; and the projection keeps the fixtures.                           *)
(***************************************************************************)
EXTENDS GovernorTools, WellFoundedInduction, TLAPS

\* A procedure has the fields of NoCall.
IsCall ==
  /\ call = [proc |-> call.proc, step |-> call.step, sel |-> call.sel,
             want |-> call.want, target |-> call.target, bytes |-> call.bytes,
             result |-> call.result, code |-> call.code]
  /\ call.step \in Nat

\* Since invoke has hashed the binary, either something was replaced or the
\* binary is the one of the selected release.
BinaryHashed ==
  call.proc = "invoke" /\ call.step > 3 /\ hashed = updates
    => files["binary"] = call.sel

\* The private copy holds the bytes that are locked.
CopyVerified ==
  call.proc = "validator" /\ call.step = 2 => call.bytes = call.want

\* What an execution relies on.
Verified ==
  /\ updates \in Nat /\ hashed \in Nat /\ hashed <= updates
  /\ IsCall
  /\ BinaryHashed
  /\ CopyVerified

\* A step that leaves the procedure alone, or starts or ends one.
Quiet ==
  /\ ran' = ran
  /\ \/ call' = call
     \/ IsCall' /\ call'.step \in {0, 1}

LEMMA CallQuiet ==
  ASSUME NEW proc, NEW want, NEW target, Call(proc, want, target)
  PROVE  IsCall' /\ call'.step \in {0, 1}
  BY DEF Call, NoCall, IsCall

LEMMA ValidateQuiet ==
  ASSUME NEW which, NEW release, Validate(which, release)
  PROVE  IsCall' /\ call'.step \in {0, 1}
  BY DEF Validate, NoCall, IsCall

LEMMA ReturnQuiet ==
  ASSUME NEW result, IsCall, Return(result)
  PROVE  IsCall' /\ call'.step = 0
  BY DEF Return, IsCall

LEMMA Advanced ==
  ASSUME NEW sel, IsCall, Advance(sel)
  PROVE  /\ IsCall' /\ call'.proc = call.proc /\ call'.sel = sel
         /\ call'.step = call.step + 1
  <1>1. call' = [call EXCEPT !.step = call.step + 1, !.sel = sel]
    BY DEF Advance, IsCall
  <1>2. call' = [proc |-> call.proc, step |-> call.step + 1, sel |-> sel,
                 want |-> call.want, target |-> call.target,
                 bytes |-> call.bytes, result |-> call.result,
                 code |-> call.code]
    BY <1>1 DEF IsCall
  <1>3. call.step + 1 \in Nat
    BY DEF IsCall
  <1> QED
    BY <1>2, <1>3 DEF IsCall

\* ToolsStep between the reads and the executions do not disturb what was verified.
LEMMA QuietKeeps ==
  ASSUME Verified, Quiet, files' = files, updates' = updates,
         hashed' = IF call.proc = "invoke" /\ call.step = 3 THEN updates ELSE hashed
  PROVE  Verified' /\ ran' = ran
  <1>1. CASE call' = call
    BY <1>1 DEF Verified, Quiet, IsCall, BinaryHashed, CopyVerified
  <1>2. CASE IsCall' /\ call'.step \in {0, 1}
    BY <1>2 DEF Verified, Quiet, IsCall, BinaryHashed, CopyVerified
  <1> QED
    BY <1>1, <1>2 DEF Quiet

\* What a step may execute.
Safely ==
  \A r \in ran' \ ran : r.bytes # r.verified => r.what = "binary" /\ updates > hashed

-----------------------------------------------------------------------------
(* The procedures *)

LEMMA Order ==
  /\ DOMAIN RuntimeReads = 1..15 /\ Len(RuntimeReads) = 15
  /\ RuntimeReads[3] = "binary"
  /\ \A k \in 2..15 : RuntimeReads[k] # "manifest"
  BY DEF RuntimeReads

LEMMA ReadRuntimeSafe ==
  ASSUME Verified, ReadRuntime, files' = files, updates' = updates,
         hashed' = IF call.proc = "invoke" /\ call.step = 3 THEN updates ELSE hashed
  PROVE  Verified' /\ Safely
  <1> DEFINE file == RuntimeReads[call.step]
             sel == IF file = "manifest" THEN files[file] ELSE call.sel
  <1>1. /\ ran' = ran
        /\ call.proc \in {"resolve", "invoke"} /\ call.step \in 1..15
    BY Order DEF ReadRuntime
  <1>2. Safely
    BY <1>1 DEF Safely
  <1>3. CASE \E result : Return(result)
    <2>1. Quiet
      BY <1>1, <1>3, ReturnQuiet DEF Quiet, Verified
    <2> QED
      BY <2>1, <1>2, QuietKeeps
  <1>4. CASE /\ ReadFault(file) = "none" /\ call.step < 15
             /\ Advance(sel)
    <2>2. /\ IsCall' /\ call'.proc = call.proc /\ call'.sel = sel
          /\ call'.step = call.step + 1
      BY <1>4, Advanced DEF Verified
    <2>3. call.step = 3 => files["binary"] = sel
      BY <1>4, Order DEF ReadFault
    <2>4. call.step > 3 => sel = call.sel
      BY <1>1, Order
    <2>5. BinaryHashed'
      BY <1>1, <2>2, <2>3, <2>4 DEF BinaryHashed, Verified
    <2>6. CopyVerified'
      BY <1>1, <2>2 DEF CopyVerified
    <2> QED
      BY <1>2, <2>2, <2>5, <2>6 DEF Verified
  <1>5. CASE call.step = 15 /\ Resolved /\ ~(\E result : Return(result))
    <2>1. Advance(call.sel)
      BY <1>5 DEF Resolved
    <2>2. /\ IsCall' /\ call'.proc = call.proc /\ call'.sel = call.sel
          /\ call'.step = 16
      BY <2>1, <1>5, Advanced DEF Verified
    <2>3. BinaryHashed' /\ CopyVerified'
      BY <1>1, <1>5, <2>2 DEF BinaryHashed, CopyVerified, Verified
    <2> QED
      BY <1>2, <1>5, <2>2, <2>3 DEF Verified
  <1> QED
    BY <1>1, <1>3, <1>4, <1>5, Order DEF ReadRuntime

LEMMA ExecuteSafe ==
  ASSUME Verified, Execute, files' = files, updates' = updates,
         hashed' = IF call.proc = "invoke" /\ call.step = 3 THEN updates ELSE hashed
  PROVE  Verified' /\ Safely
  <1>0. call.proc = "invoke" /\ call.step = Len(RuntimeReads) + 1
    BY DEF Execute
  <1>1. call.proc = "invoke" /\ call.step = 16
    BY <1>0, Order
  <1>2. IsCall' /\ call'.step = 0
    <2>1. CASE \E result : Return(result)
      BY <2>1, ReturnQuiet DEF Verified
    <2>2. CASE \E answer : call' = [call EXCEPT !.step = 0, !.result = "ran",
                                      !.bytes = answer[1], !.code = answer[2]]
      <3>1. PICK answer : call' = [call EXCEPT !.step = 0, !.result = "ran",
                                      !.bytes = answer[1], !.code = answer[2]]
        BY <2>2
      <3>2. call' = [proc |-> call.proc, step |-> 0, sel |-> call.sel,
                     want |-> call.want, target |-> call.target,
                     bytes |-> answer[1], result |-> "ran", code |-> answer[2]]
        BY <3>1 DEF Verified, IsCall
      <3> QED
        BY <3>2 DEF IsCall
    <2> QED
      BY <2>1, <2>2 DEF Execute
  <1>3. Verified'
    BY <1>1, <1>2 DEF Verified, BinaryHashed, CopyVerified
  <1>4. Safely
    <2>1. CASE ran' = ran
      BY <2>1 DEF Safely
    <2>2. CASE Executed("binary", call.sel, files["binary"])
      <3> SUFFICES ASSUME NEW r \in ran' \ ran, r.bytes # r.verified
                   PROVE  r.what = "binary" /\ updates > hashed
        BY DEF Safely
      <3>1. r = [what |-> "binary", verified |-> call.sel, bytes |-> files["binary"]]
        BY <2>2 DEF Executed
      <3>2. files["binary"] # call.sel
        BY <3>1
      <3> QED
        BY <1>1, <3>1, <3>2 DEF Verified, BinaryHashed
    <2> QED
      BY <2>1, <2>2 DEF Execute
  <1> QED
    BY <1>3, <1>4

LEMMA CanonicalSafe ==
  ASSUME Verified, Canonical, files' = files, updates' = updates,
         hashed' = IF call.proc = "invoke" /\ call.step = 3 THEN updates ELSE hashed
  PROVE  Verified' /\ Safely
  <1>1. call.proc \in {"load", "validator"} /\ hashed' = hashed
    BY DEF Canonical, LoadRuntime, ReadValidator, RunSnapshot
  <1>2. CASE ran' = ran /\ \E result : Return(result)
    <2>1. Quiet
      BY <1>2, ReturnQuiet DEF Quiet, Verified
    <2> QED
      BY <1>2, <2>1, QuietKeeps DEF Safely
  <1>3. CASE ran' = ran /\ call.proc = "load" /\ \E sel : Advance(sel)
    <2>2. IsCall' /\ call'.proc = "load"
      BY <1>3, Advanced DEF Verified
    <2> QED
      BY <1>1, <1>3, <2>2 DEF Verified, Safely, BinaryHashed, CopyVerified
  <1>4. CASE /\ ran' = ran /\ call.proc = "validator"
             /\ call' = [call EXCEPT !.step = 2, !.bytes = call.want]
    <2>1. /\ IsCall' /\ call'.proc = "validator"
          /\ call'.bytes = call.want /\ call'.want = call.want
      BY <1>4 DEF Verified, IsCall
    <2> QED
      BY <1>1, <1>4, <2>1 DEF Verified, Safely, BinaryHashed, CopyVerified
  <1>5. CASE RunSnapshot
    <2>1. /\ call.bytes = call.want
          /\ ran' = ran \cup {[what |-> call.target, verified |-> call.want,
                               bytes |-> call.bytes]}
      BY <1>5 DEF RunSnapshot, Executed, Verified, CopyVerified
    <2>2. Safely
      BY <2>1 DEF Safely
    <2>3. IsCall' /\ call'.step = 0
      BY <1>5, ReturnQuiet DEF RunSnapshot, Verified
    <2> QED
      BY <1>1, <2>2, <2>3 DEF Verified, BinaryHashed, CopyVerified
  <1> QED
    BY <1>2, <1>3, <1>4, <1>5 DEF Canonical, LoadRuntime, ReadValidator

-----------------------------------------------------------------------------
(* The tools between their procedures *)

LEMMA AuditQuiet ==
  ASSUME Verified, Audit, ~Procedure PROVE Quiet
  <1>1. ran' = ran
    BY DEF Audit, At, Traceback, PluginManifest, ListSkills, NotLoaded, Loaded,
           PluginValidated, SkillValidated, Catalog, Artifact, Okf, OkfHalves,
           RustChecked, RustUnsupported, Crash, AskMatt, NoPolicy,
           Policy, PolicyAgain, Git, Setup, Owner, Overall
  <1>2. \/ call' = call
        \/ \E proc, want, target : Call(proc, want, target)
        \/ \E result : Return(result)
    BY DEF Audit, At, Traceback, PluginManifest, ListSkills, NotLoaded, Loaded,
           PluginValidated, SkillValidated, Catalog, Artifact, Okf, OkfHalves,
           RustChecked, RustUnsupported, Crash, AskMatt, NoPolicy,
           Policy, PolicyAgain, Git, Setup, Owner, Overall, RustHalf
  <1> QED
    BY <1>1, <1>2, CallQuiet, ReturnQuiet DEF Quiet, Verified

LEMMA DispatchQuiet ==
  ASSUME Verified, DispatchStart \/ DispatchInvoke \/ DispatchEnd, ran' = ran
  PROVE  Quiet
  BY CallQuiet DEF DispatchStart, DispatchInvoke, DispatchEnd, Quiet

LEMMA TypedQuiet ==
  ASSUME Verified, Typed, ~Canonical PROVE Quiet
  <1>1. ran' = ran
    BY DEF Typed, StartCommand, LockLoaded, Resolve, ListTargets,
           PluginAccepted, SkillAccepted, Classify, Probe
  <1>2. \/ call' = call
        \/ \E proc, want, target : Call(proc, want, target)
        \/ \E which, release : Validate(which, release)
    BY DEF Typed, StartCommand, LockLoaded, Resolve, ListTargets,
           PluginAccepted, SkillAccepted, Classify, Probe, Fails
  <1> QED
    BY <1>1, <1>2, CallQuiet, ValidateQuiet DEF Quiet

LEMMA ToolSafe ==
  ASSUME Verified, Tool, files' = files, updates' = updates,
         hashed' = IF call.proc = "invoke" /\ call.step = 3 THEN updates ELSE hashed
  PROVE  Verified' /\ Safely
  <1>1. CASE Quiet
    BY <1>1, QuietKeeps DEF Safely
  <1>2. CASE ReadRuntime \/ Execute \/ Canonical
    BY <1>2, ReadRuntimeSafe, ExecuteSafe, CanonicalSafe
  <1>3. CASE Audit
    BY <1>1, <1>2, <1>3, AuditQuiet DEF Procedure
  <1>4. CASE Dispatch
    BY <1>1, <1>2, <1>4, DispatchQuiet DEF Dispatch
  <1>5. CASE Typed
    BY <1>1, <1>2, <1>5, TypedQuiet DEF Typed
  <1> QED
    BY <1>3, <1>4, <1>5 DEF Tool

LEMMA ReplaceSafe ==
  ASSUME Verified, Replace PROVE Verified' /\ Safely
  BY DEF Replace, Verified, IsCall, BinaryHashed, CopyVerified, Safely, frame

-----------------------------------------------------------------------------
(* The theorem *)

LEMMA ToolsStart == ToolsInit => Verified
  BY DEF ToolsInit, NoCall, Verified, IsCall, BinaryHashed, CopyVerified

LEMMA ToolsStep == ASSUME Verified, [ToolsNext]_toolVars PROVE Verified' /\ Safely
  <1>1. CASE Tool /\ hashed' = (IF call.proc = "invoke" /\ call.step = 3
                                THEN updates ELSE hashed)
             /\ UNCHANGED world
    BY <1>1, ToolSafe DEF world
  <1>2. CASE Replace
    BY <1>2, ReplaceSafe
  <1>3. CASE UNCHANGED <<tool, hashed>>
    BY <1>3 DEF tool, world, frame, Verified, IsCall, BinaryHashed, CopyVerified, Safely
  <1> QED
    BY <1>1, <1>2, <1>3 DEF ToolsNext, toolVars

\* What an execution relies on holds throughout.
THEOREM VerifiedAlways == ToolsSpec => []Verified
  BY ToolsStart, ToolsStep, PTL DEF ToolsSpec

\* A validator is executed from verified bytes only; the Rust binary may be
\* another one only if something was replaced after invoke had hashed it.
THEOREM ExecutesVerified == ToolsSpec => ExecutedVerified
  <1>1. Verified /\ [ToolsNext]_toolVars =>
          [\A r \in ran' \ ran :
             r.bytes # r.verified => r.what = "binary" /\ updates > hashed]_toolVars
    BY ToolsStep DEF Safely
  <1> QED
    BY <1>1, VerifiedAlways, PTL DEF ToolsSpec, ExecutedVerified

-----------------------------------------------------------------------------
(* The verdict of the typed step *)

Kinds == {r.what : r \in ran}
Commanded == {"launch", "load", "plugin_validator", "skill_validator", "list"}
Validating == {"run_plugin", "run_skill"}
Judged == {"classify", "probe_dns", "probe_daemon", "probe_api", "probe_cache"}

\* The command runs, is judged, and has its receipt.
Course ==
  /\ stage \in Commanded \cup Validating \cup Judged \cup {"done"}
  /\ stage \in Commanded \cup Validating => exit = NoExit
  /\ stage # "done" => receipt = "none"
  /\ stage \notin {"load", "run_plugin", "run_skill"} => call.step = 0

\* What was executed, and that a validator which accepted was.
Validated ==
  /\ stage = "load" => call.proc = "load"
  /\ stage \in Commanded => Kinds = {}
  /\ stage = "run_plugin" =>
       /\ call.proc = "validator" /\ call.target = "plugin_validator"
       /\ call.step # 0 => Kinds = {} /\ call.result = "none"
       /\ call.result = "accepted" => Kinds = {"plugin_validator"}
  /\ stage = "run_skill" =>
       /\ call.proc = "validator" /\ call.target = "skill_validator"
       /\ call.step # 0 => Kinds = {"plugin_validator"} /\ call.result = "none"
       /\ call.result = "accepted" => Kinds = Validators
  /\ stage \in Judged /\ exit = 0 => Kinds = Validators

\* What is out is seen, and a probe that found a service in order rules out
\* that it was silent all the time.
Observed ==
  /\ silent \subseteq down
  /\ stage \in Judged => exit # NoExit /\ down \subseteq seen
  /\ stage \in {"probe_daemon", "probe_api", "probe_cache"} => "dns" \notin silent
  /\ stage \in {"probe_api", "probe_cache"} => "daemon" \notin silent
  /\ stage = "probe_cache" => "api" \notin silent

Outages ==
  /\ setup.tool # "typed" => receipt = "none"
  /\ setup.tool = "typed" =>
       Course /\ Validated /\ Observed /\ (stage = "done" => OutageTyped)

LEMMA OutagesStart == ToolsInit => Outages
  <1> SUFFICES ASSUME ToolsInit PROVE Outages
    OBVIOUS
  <1>1. /\ stage = FirstStage[setup.tool] /\ call.step = 0 /\ ran = {} /\ exit = NoExit
        /\ receipt = "none" /\ silent = {}
    BY DEF ToolsInit, NoCall
  <1>2. setup.tool = "typed" => stage = "launch"
    BY <1>1 DEF FirstStage
  <1>3. Kinds = {}
    BY <1>1 DEF Kinds
  <1> QED
    BY <1>1, <1>2, <1>3 DEF Outages, Course, Validated, Observed, Commanded, Judged, Validating

\* Executing adds to what was executed.
LEMMA KindsGrow ==
  ASSUME NEW what, NEW verified, NEW bytes, Executed(what, verified, bytes)
  PROVE  Kinds' = Kinds \cup {what}
  <1> DEFINE new == [what |-> what, verified |-> verified, bytes |-> bytes]
  <1>1. ran' = ran \cup {new}
    BY DEF Executed
  <1>2. new.what = what
    OBVIOUS
  <1> HIDE DEF new
  <1>3. \A r : r \in ran' <=> r \in ran \/ r = new
    BY <1>1
  <1>4. \A k : k \in Kinds' <=> k \in Kinds \/ k = what
    BY <1>2, <1>3, Zenon DEF Kinds
  <1> QED
    BY <1>4

LEMMA ReturnsCall ==
  ASSUME NEW result, IsCall, Return(result)
  PROVE  /\ call'.step = 0 /\ call'.result = result /\ call'.proc = call.proc
         /\ call'.target = call.target /\ call'.sel = call.sel
         /\ call'.want = call.want
  <1>1. call' = [proc |-> call.proc, step |-> 0, sel |-> call.sel,
                 want |-> call.want, target |-> call.target,
                 bytes |-> call.bytes, result |-> result, code |-> call.code]
    BY DEF Return, IsCall
  <1> QED
    BY <1>1

LEMMA CanonicalOutages ==
  ASSUME IsCall, Outages, setup.tool = "typed", Canonical,
         UNCHANGED <<world, stage, exit, typed>>
  PROVE  Outages'
  <1>1. /\ Course /\ Validated /\ Observed
        /\ UNCHANGED <<setup, down, stage, exit, receipt, silent, seen>>
    BY DEF Outages, world, typed
  <1>2. call.step # 0
    BY DEF Canonical, LoadRuntime, ReadValidator, RunSnapshot, LockReads
  <1>3. stage \in {"load", "run_plugin", "run_skill"}
    BY <1>1, <1>2 DEF Course
  <1>4. Course' /\ Observed'
    BY <1>1, <1>3 DEF Course, Observed, Judged
  <1>5. CASE stage = "load"
    <2>1. call.proc = "load" /\ Kinds = {}
      BY <1>1, <1>5 DEF Validated, Commanded
    <2>2. LoadRuntime
      BY <2>1 DEF Canonical, ReadValidator, RunSnapshot
    <2>3. ran' = ran /\ ((\E result : Return(result)) \/ (\E sel : Advance(sel)))
      BY <2>2 DEF LoadRuntime
    <2>4. call'.proc = "load"
      BY <2>1, <2>3, ReturnsCall, Advanced
    <2>5. Kinds' = {}
      BY <2>1, <2>3 DEF Kinds
    <2>6. Validated'
      BY <1>1, <1>5, <2>4, <2>5 DEF Validated, Judged
    <2> QED
      BY <1>1, <1>4, <1>5, <2>6 DEF Outages
  <1>6. CASE stage \in Validating
    <2>1. call.proc = "validator" /\ call.result = "none"
      BY <1>1, <1>2, <1>6 DEF Validated, Validating
    <2>2. CASE ReadValidator
      <3>1. ran' = ran
        BY <2>2 DEF ReadValidator
      <3>2. /\ call'.proc = call.proc /\ call'.target = call.target
            /\ call'.result # "accepted"
            /\ call'.step # 0 => call'.result = "none"
        <4>1. CASE \E result \in {"inconclusive", "invalid", "mismatch"} : Return(result)
          BY <4>1, ReturnsCall
        <4>2. CASE \E bytes : call' = [call EXCEPT !.step = 2, !.bytes = bytes]
          <5>1. PICK bytes : call' = [call EXCEPT !.step = 2, !.bytes = bytes]
            BY <4>2
          <5> QED
            BY <2>1, <5>1 DEF IsCall
        <4> QED
          BY <2>2, <4>1, <4>2 DEF ReadValidator
      <3>3. Kinds' = Kinds
        BY <3>1 DEF Kinds
      <3>4. Validated'
        BY <1>1, <1>2, <1>6, <3>2, <3>3 DEF Validated, Judged, Validating, Commanded
      <3> QED
        BY <1>1, <1>3, <1>4, <3>4 DEF Outages
    <2>3. CASE RunSnapshot
      <3>1. Kinds' = Kinds \cup {call.target}
        BY <2>3, KindsGrow DEF RunSnapshot
      <3>2. call'.proc = call.proc /\ call'.target = call.target /\ call'.step = 0
        BY <2>3, ReturnsCall DEF RunSnapshot
      <3>3. Validators = {"plugin_validator", "skill_validator"}
        BY DEF Validators, Subject
      <3>4. Validated'
        BY <1>1, <1>2, <1>6, <3>1, <3>2, <3>3 DEF Validated, Judged, Validating, Commanded
      <3> QED
        BY <1>1, <1>3, <1>4, <3>4 DEF Outages
    <2> QED
      BY <2>1, <2>2, <2>3 DEF Canonical, LoadRuntime
  <1> QED
    BY <1>3, <1>5, <1>6 DEF Validating

\* The command ends with an error: nothing is claimed of the validators.
LEMMA EndsOutages ==
  ASSUME Outages, setup.tool = "typed", stage \in Commanded \cup Validating,
         NEW code \in {0, 1, 2}, Ends(code), UNCHANGED <<world, call, receipt>>,
         call.step = 0, ran' = ran, code = 0 => Kinds = Validators
  PROVE  Outages'
  <1>1. /\ Course /\ Observed /\ UNCHANGED <<setup, down, call, receipt, ran>>
        /\ stage' = "classify" /\ exit' = code /\ silent' = down /\ seen' = down
    BY DEF Outages, world, Ends
  <1>2. receipt = "none"
    BY <1>1 DEF Course, Commanded, Validating
  <1>3. Kinds' = Kinds
    BY <1>1 DEF Kinds
  <1>4. Course'
    BY <1>1, <1>2 DEF Course, Commanded, Validating, Judged
  <1>5. Validated'
    BY <1>1, <1>3 DEF Validated, Commanded, Judged
  <1>6. Observed'
    BY <1>1 DEF Observed, NoExit
  <1> QED
    BY <1>1, <1>4, <1>5, <1>6 DEF Outages

\* The step goes on to its next command, or to its next validator.
LEMMA GoesOnOutages ==
  ASSUME Outages, setup.tool = "typed", stage \in Commanded \cup Validating,
         stage' \in {"load", "plugin_validator", "skill_validator", "list"} \cup Validating,
         UNCHANGED <<world, exit, silent, seen, receipt, ran>>,
         stage' \in {"plugin_validator", "skill_validator", "list"} => call'.step = 0,
         stage' = "load" => call'.proc = "load",
         stage' \in Commanded => Kinds = {},
         stage' = "run_plugin" =>
           /\ call'.proc = "validator" /\ call'.target = "plugin_validator"
           /\ call'.result = "none" /\ Kinds = {},
         stage' = "run_skill" =>
           /\ call'.proc = "validator" /\ call'.target = "skill_validator"
           /\ call'.result = "none" /\ Kinds = {"plugin_validator"}
  PROVE  Outages'
  <1>1. /\ Course /\ Observed
        /\ UNCHANGED <<setup, down, exit, silent, seen, receipt, ran>>
    BY DEF Outages, world
  <1>2. Kinds' = Kinds
    BY <1>1 DEF Kinds
  <1>3. receipt = "none" /\ exit = NoExit
    BY <1>1 DEF Course, Commanded, Validating
  <1>4. Course'
    BY <1>1, <1>3 DEF Course, Commanded, Validating
  <1>5. Validated'
    BY <1>1, <1>2 DEF Validated, Commanded, Judged, Validating
  <1>6. Observed'
    BY <1>1 DEF Observed, Judged, Validating
  <1> QED
    BY <1>1, <1>4, <1>5, <1>6 DEF Outages, Validating

LEMMA ValidatesCall ==
  ASSUME NEW which, NEW release, Validate(which, release)
  PROVE  /\ call'.proc = "validator" /\ call'.step = 1 /\ call'.target = which
         /\ call'.result = "none"
  BY DEF Validate, NoCall

LEMMA CommandOutages ==
  ASSUME IsCall, Outages, setup.tool = "typed", UNCHANGED world,
         \/ StartCommand \/ LockLoaded
         \/ Resolve("plugin_validator", "skill_validator")
         \/ Resolve("skill_validator", "list")
         \/ ListTargets \/ PluginAccepted \/ SkillAccepted
  PROVE  Outages'
  <1>1. Course /\ Validated
    BY DEF Outages
  <1>2. CASE StartCommand
    <2>1. stage = "launch" /\ call.step = 0 /\ Kinds = {} /\ UNCHANGED <<ran, receipt>>
      BY <1>1, <1>2 DEF StartCommand, Course, Validated, Commanded
    <2>2. CASE /\ \E code \in {1, 2} : Ends(code)
               /\ UNCHANGED call
      BY <2>1, <2>2, EndsOutages DEF Commanded
    <2>3. CASE stage' = "load" /\ Call("load", "none", "none") /\ UNCHANGED <<exit, silent, seen>>
      <3>1. call'.proc = "load"
        BY <2>3 DEF Call, NoCall
      <3> QED
        BY <2>1, <2>3, <3>1, GoesOnOutages DEF Commanded, Validating
    <2> QED
      BY <1>2, <2>2, <2>3 DEF StartCommand
  <1>3. CASE LockLoaded
    <2>1. /\ stage = "load" /\ call.step = 0 /\ Kinds = {} /\ UNCHANGED <<call, ran, receipt>>
      BY <1>1, <1>3 DEF LockLoaded, Returned, Validated, Commanded, Fails
    <2>2. CASE Fails
      BY <2>1, <2>2, EndsOutages DEF Fails, Commanded
    <2>3. CASE stage' = "plugin_validator" /\ UNCHANGED <<exit, silent, seen>>
      BY <2>1, <2>3, GoesOnOutages DEF Commanded, Validating
    <2> QED
      BY <1>3, <2>2, <2>3 DEF LockLoaded
  <1>4. ASSUME NEW which, NEW next, Resolve(which, next),
               which \in {"plugin_validator", "skill_validator"},
               next \in {"skill_validator", "list"}
        PROVE  Outages'
    <2>1. /\ stage = which /\ call.step = 0 /\ Kinds = {} /\ UNCHANGED <<call, ran, receipt>>
      BY <1>1, <1>4 DEF Resolve, Course, Validated, Commanded, Fails
    <2>2. CASE Fails
      BY <1>4, <2>1, <2>2, EndsOutages DEF Fails, Commanded
    <2>3. CASE stage' = next /\ UNCHANGED <<exit, silent, seen>>
      BY <1>4, <2>1, <2>3, GoesOnOutages DEF Commanded, Validating
    <2> QED
      BY <1>4, <2>2, <2>3 DEF Resolve
  <1>5. CASE ListTargets
    <2>1. stage = "list" /\ call.step = 0 /\ Kinds = {} /\ UNCHANGED <<ran, receipt>>
      BY <1>1, <1>5 DEF ListTargets, Course, Validated, Commanded
    <2>2. CASE Fails
      BY <2>1, <2>2, EndsOutages DEF Fails, Commanded
    <2>3. CASE /\ Validate("plugin_validator", call.sel) /\ stage' = "run_plugin"
               /\ UNCHANGED <<exit, silent, seen>>
      <3>1. /\ call'.proc = "validator" /\ call'.target = "plugin_validator"
            /\ call'.result = "none"
        BY <2>3, ValidatesCall
      <3> QED
        BY <2>1, <2>3, <3>1, GoesOnOutages DEF Commanded, Validating
    <2> QED
      BY <1>5, <2>2, <2>3 DEF ListTargets
  <1>6. CASE PluginAccepted
    <2>1. stage = "run_plugin" /\ call.step = 0 /\ UNCHANGED <<ran, receipt>>
      BY <1>6 DEF PluginAccepted, Returned
    <2>2. CASE Fails
      BY <2>1, <2>2, EndsOutages DEF Fails, Validating
    <2>3. CASE /\ call.result = "accepted"
               /\ Validate("skill_validator", call.want) /\ stage' = "run_skill"
               /\ UNCHANGED <<exit, silent, seen>>
      <3>1. Kinds = {"plugin_validator"}
        BY <1>1, <2>1, <2>3 DEF Validated
      <3>2. /\ call'.proc = "validator" /\ call'.target = "skill_validator"
            /\ call'.result = "none"
        BY <2>3, ValidatesCall
      <3> QED
        BY <2>1, <2>3, <3>1, <3>2, GoesOnOutages DEF Commanded, Validating
    <2> QED
      BY <1>6, <2>2, <2>3 DEF PluginAccepted
  <1>7. CASE SkillAccepted
    <2>1. /\ stage = "run_skill" /\ call.step = 0 /\ UNCHANGED <<call, ran, receipt>>
      BY <1>7 DEF SkillAccepted, Returned, Fails
    <2>2. CASE Fails
      BY <2>1, <2>2, EndsOutages DEF Fails, Validating
    <2>3. CASE call.result = "accepted" /\ \E code \in {0, 1} : Ends(code)
      <3>1. Kinds = Validators
        BY <1>1, <2>1, <2>3 DEF Validated
      <3> QED
        BY <2>1, <2>3, <3>1, EndsOutages DEF Validating
    <2> QED
      BY <1>7, <2>2, <2>3 DEF SkillAccepted
  <1> QED
    BY <1>2, <1>3, <1>4, <1>5, <1>6, <1>7

LEMMA EmitOutages ==
  ASSUME Outages, setup.tool = "typed", stage \in Judged, NEW status, Emit(status),
         UNCHANGED <<world, call, ran, exit, silent, seen>>,
         \/ status = "PASS" /\ exit = 0
         \/ status = "INCONCLUSIVE" /\ (exit = 2 \/ down \cap Probed # {})
         \/ status = "FAIL" /\ silent \cap Probed = {}
  PROVE  Outages'
  <1>1. /\ Course /\ Validated /\ Observed
        /\ UNCHANGED <<setup, down, call, ran, exit, silent, seen>>
        /\ stage' = "done" /\ receipt' = status
    BY DEF Outages, world, Emit
  <1>2. exit = 0 => Kinds = Validators
    BY <1>1 DEF Validated
  <1>3. down \subseteq seen
    BY <1>1 DEF Observed
  <1>4. OutageTyped'
    BY <1>1, <1>2, <1>3 DEF OutageTyped, Kinds
  <1>5. Course'
    BY <1>1 DEF Course, Commanded, Validating, Judged
  <1>6. Validated' /\ Observed'
    BY <1>1 DEF Validated, Observed, Commanded, Judged
  <1> QED
    BY <1>1, <1>4, <1>5, <1>6 DEF Outages

LEMMA JudgeOutages ==
  ASSUME Outages, setup.tool = "typed", UNCHANGED world,
         \/ Classify
         \/ Probe("dns", "probe_dns", "probe_daemon")
         \/ Probe("daemon", "probe_daemon", "probe_api")
         \/ Probe("api", "probe_api", "probe_cache")
         \/ Probe("cache", "probe_cache", "none")
  PROVE  Outages'
  <1>1. /\ Course /\ Validated /\ Observed
        /\ UNCHANGED <<setup, down>>
    BY DEF Outages, world
  <1>2. stage \in Judged /\ UNCHANGED <<call, ran, exit, silent, seen>>
    BY DEF Classify, Probe, Judged
  <1>3. CASE \E status : /\ Emit(status)
                         /\ \/ status = "PASS" /\ exit = 0
                            \/ status = "INCONCLUSIVE" /\ (exit = 2 \/ down \cap Probed # {})
                            \/ status = "FAIL" /\ silent \cap Probed = {}
    BY <1>2, <1>3, EmitOutages
  <1>4. CASE /\ stage' \in Judged /\ UNCHANGED receipt
             /\ Observed'
    <2>1. Kinds' = Kinds
      BY <1>2 DEF Kinds
    <2>2. receipt = "none" /\ call.step = 0
      BY <1>1, <1>2 DEF Course, Judged
    <2>3. Course'
      BY <1>2, <1>4, <2>2 DEF Course, Judged, Commanded, Validating
    <2>4. Validated'
      BY <1>1, <1>2, <1>4, <2>1 DEF Validated, Judged, Commanded
    <2> QED
      BY <1>1, <1>4, <2>3, <2>4 DEF Outages, Judged
  <1>5. CASE Classify
    <2>1. CASE exit = 0
      BY <1>3, <1>5, <2>1 DEF Classify
    <2>2. CASE exit = 2
      BY <1>3, <1>5, <2>2 DEF Classify
    <2>3. CASE stage' = "probe_dns" /\ UNCHANGED receipt
      <3>1. Observed'
        BY <1>1, <1>2, <2>3 DEF Observed, Judged
      <3> QED
        BY <1>4, <2>3, <3>1 DEF Judged
    <2> QED
      BY <1>5, <2>1, <2>2, <2>3 DEF Classify
  <1>6. CASE Probe("dns", "probe_dns", "probe_daemon")
    <2>1. CASE "dns" \in down
      BY <1>3, <1>6, <2>1 DEF Probe, Probed
    <2>2. CASE "dns" \notin down
      <3>1. Observed'
        BY <1>1, <1>2, <1>6, <2>2 DEF Observed, Judged, Probe
      <3> QED
        BY <1>4, <1>6, <2>2, <3>1 DEF Judged, Probe
    <2> QED
      BY <2>1, <2>2
  <1>7. CASE Probe("daemon", "probe_daemon", "probe_api")
    <2>1. CASE "daemon" \in down
      BY <1>3, <1>7, <2>1 DEF Probe, Probed
    <2>2. CASE "daemon" \notin down
      <3>1. Observed'
        BY <1>1, <1>2, <1>7, <2>2 DEF Observed, Judged, Probe
      <3> QED
        BY <1>4, <1>7, <2>2, <3>1 DEF Judged, Probe
    <2> QED
      BY <2>1, <2>2
  <1>8. CASE Probe("api", "probe_api", "probe_cache")
    <2>1. CASE "api" \in down
      BY <1>3, <1>8, <2>1 DEF Probe, Probed
    <2>2. CASE "api" \notin down
      <3>1. Observed'
        BY <1>1, <1>2, <1>8, <2>2 DEF Observed, Judged, Probe
      <3> QED
        BY <1>4, <1>8, <2>2, <3>1 DEF Judged, Probe
    <2> QED
      BY <2>1, <2>2
  <1>9. CASE Probe("cache", "probe_cache", "none")
    <2>1. CASE "cache" \in down
      BY <1>3, <1>9, <2>1 DEF Probe, Probed
    <2>2. CASE "cache" \notin down
      <3>1. Emit("FAIL") /\ stage = "probe_cache"
        BY <1>9, <2>2 DEF Probe
      <3>2. silent \cap Probed = {}
        BY <1>1, <2>2, <3>1 DEF Observed, Probed
      <3> QED
        BY <1>3, <3>1, <3>2
    <2> QED
      BY <2>1, <2>2
  <1> QED
    BY <1>5, <1>6, <1>7, <1>8, <1>9

LEMMA ReplaceOutages == ASSUME Outages, Replace PROVE Outages'
  <1>1. /\ UNCHANGED <<setup, stage, call, ran, exit, receipt>>
        /\ stage # "done" /\ silent' = silent \cap down'
        /\ seen' = IF exit = NoExit THEN {} ELSE seen \cup down'
    BY DEF Replace, frame
  <1>2. Kinds' = Kinds
    BY <1>1 DEF Kinds
  <1>3. CASE setup.tool = "typed"
    <2>1. Course' /\ Validated'
      BY <1>1, <1>2, <1>3 DEF Outages, Course, Validated
    <2>2. Observed'
      BY <1>1, <1>3 DEF Outages, Observed
    <2> QED
      BY <1>1, <1>3, <2>1, <2>2 DEF Outages
  <1> QED
    BY <1>1, <1>3 DEF Outages

LEMMA StutterOutages == Outages /\ UNCHANGED tool => Outages'
  <1> SUFFICES ASSUME Outages, UNCHANGED tool PROVE Outages'
    OBVIOUS
  <1>1. UNCHANGED <<setup, down, stage, call, ran, exit, receipt, silent, seen>>
    BY DEF tool, frame, world, typed
  <1>2. Kinds' = Kinds
    BY <1>1 DEF Kinds
  <1>3. OutageTyped' <=> OutageTyped
    BY <1>1, <1>2 DEF OutageTyped, Kinds
  <1> QED
    BY <1>1, <1>2, <1>3 DEF Outages, Course, Validated, Observed

LEMMA OutagesNext == Verified /\ Outages /\ [ToolsNext]_toolVars => Outages'
  <1> SUFFICES ASSUME Verified, Outages, [ToolsNext]_toolVars PROVE Outages'
    OBVIOUS
  <1>1. CASE Tool /\ UNCHANGED world
    <2>1. CASE setup.tool # "typed"
      BY <1>1, <2>1 DEF Tool, Outages, world, typed
    <2>2. CASE setup.tool = "typed" /\ Typed
      BY <1>1, <2>2, CanonicalOutages, CommandOutages, JudgeOutages DEF Typed, Verified
    <2> QED
      BY <1>1, <2>1, <2>2 DEF Tool
  <1>2. CASE Replace
    BY <1>2, ReplaceOutages
  <1>3. CASE UNCHANGED tool
    BY <1>3, StutterOutages
  <1> QED
    BY <1>1, <1>2, <1>3 DEF ToolsNext, toolVars

\* An outage that lasts is never blamed on the code, an inconclusive receipt has
\* a reason, and one that passes means that both validators ran: whatever fails
\* and recovers between two probes (run_typed_ci.py).
THEOREM OutagesTold == ToolsSpec => []OutageTyped
  <1>1. Outages => OutageTyped
    BY DEF Outages, Course, OutageTyped
  <1>2. ToolsSpec => []Outages
    BY OutagesStart, OutagesNext, VerifiedAlways, PTL DEF ToolsSpec
  <1> QED
    BY <1>1, <1>2, PTL

-----------------------------------------------------------------------------
(* The verdict of the audit *)

\* What the files are, in the terms the audit asks about them.
Locked == OneRelease(CanonicalFiles, files)
Bundled == OneRelease(RuntimeFiles, files)
Accepts(which) ==
  /\ files[which] = files["validator_lock"] /\ files[Subject[which]] \in Intact
  /\ ~Flawed("validator_slow") /\ ~Flawed("yaml_unusable")
Asked == OneRelease({"ask_lock", "ask_adapter", "ask_installed"}, files)
Core ==
  /\ CanonicalInOrder(files) /\ files["catalog"] \in Intact
  /\ RuntimeInOrder(files) /\ files["knowledge"] \in Intact
Ruled == ~IsFile("policy") \/ Report("policy") = "valid"
Legible == ~IsFile("setup_docs") \/ files["setup_receipt"] # "garbled"

\* Nothing was found, and what was found inconclusive has an excuse.
Clean == \A f \in found : f[2] \notin {"FAIL", "INCONCLUSIVE"}
Excused == Has("INCONCLUSIVE") => Has("FAIL") \/ Inaccessible

\* What the audit has found up to its statement is what there is to find.
Findings ==
  /\ stage = "plugin_manifest" => Clean
  /\ stage \in {"lock", "run_plugin"} => (Clean <=> files["plugin_json"] \in Intact)
  /\ stage = "run_skill" => (Clean <=> Accepts("plugin_validator"))
  /\ stage = "catalog" => (Clean <=> CanonicalInOrder(files))
  /\ stage = "artifact" =>
       (Clean <=> CanonicalInOrder(files) /\ files["catalog"] \in Intact)
  /\ stage = "okf" =>
       (Clean <=> CanonicalInOrder(files) /\ files["catalog"] \in Intact /\ Bundled)
  /\ stage \in {"okf_halves", "rust_okf_core"} =>
       (Clean <=> CanonicalInOrder(files) /\ files["catalog"] \in Intact /\ Bundled
                  /\ files["knowledge"] \in Intact)
  /\ stage = "ask_matt" => (Clean <=> Core)
  /\ stage = "policy" => (Clean <=> Core /\ Asked)
  /\ stage \in {"policy_again", "rust_repository_policy", "git", "setup"} =>
       (Clean <=> Core /\ Asked /\ Ruled)
  /\ stage = "owner" =>
       /\ Legible
       /\ Clean <=> Core /\ Asked /\ Ruled /\ files["policy"] # "mutating"
  /\ stage = "overall" => (Clean <=> InOrder(files))
  /\ stage = "done" => (exit = 0 <=> InOrder(files)) /\ (exit = 2 => Inaccessible)

\* What the listing of the Skills found.
Listing == memo.listed = IF files["skills"] = "empty" THEN "none" ELSE "some"

\* The locals of audit().
Remembered ==
  /\ memo = [listed |-> memo.listed, runtime |-> memo.runtime,
             selection |-> memo.selection, unavailable |-> memo.unavailable,
             okf |-> memo.okf, receipt |-> memo.receipt,
             document |-> memo.document, ask |-> memo.ask]
  /\ memo.listed = "no" \/ Listing
  /\ stage = "run_plugin" => Listing
  /\ stage = "run_skill" => files["skills"] # "empty"
  /\ stage \in {"run_plugin", "run_skill"} =>
       Locked /\ memo.runtime = files["validator_lock"]
  /\ stage \in {"plugin_manifest", "lock", "run_plugin", "run_skill", "catalog",
                "artifact"} => memo.selection = "none"
  /\ stage \in {"okf", "okf_halves", "rust_okf_core", "ask_matt", "policy",
                "policy_again", "rust_repository_policy"} =>
       \/ Bundled /\ memo.selection = files["manifest"]
       \/ /\ ~Bundled /\ memo.selection = "none"
          /\ \/ memo.unavailable = "FAIL"
             \/ memo.unavailable = "INCONCLUSIVE" /\ Inaccessible
  /\ stage \in {"okf_halves", "rust_okf_core"} => memo.okf = Report("knowledge")
  /\ stage \in {"policy_again", "rust_repository_policy"} =>
       memo.receipt = Report("policy") /\ IsFile("policy")
  /\ stage \in {"plugin_manifest", "lock", "run_plugin", "run_skill", "catalog",
                "artifact", "okf", "okf_halves", "rust_okf_core", "ask_matt",
                "policy", "policy_again"} => memo.document = "none"
  /\ stage \in {"rust_repository_policy", "git", "setup", "owner"} =>
       memo.document = IF files["policy"] \in {"missing", "odd", "unreadable"}
                       THEN "none" ELSE files["policy"]

\* How far load_lock and load_runtime are, and what they return.
Loading ==
  /\ call.step \in 0..6
  /\ call.step > 1 =>
       /\ files["validator_lock"] \in Intact /\ call.sel = files["validator_lock"]
       /\ \A k \in 1..(call.step - 1) : files[LockReads[k]] = files["validator_lock"]
  /\ call.step > 2 => Listing
  /\ call.step = 0 =>
       \/ /\ call.result = "loaded" /\ Locked /\ call.sel = files["validator_lock"]
          /\ Listing
       \/ /\ call.result \in {"lock", "invalid"}
          /\ ~Locked \/ ~IsFile("skills")
       \/ call.result = "inconclusive" /\ ~Locked /\ Inaccessible

\* How far run_validator is, and what it returns.
Running(which) ==
  /\ call.proc = "validator" /\ call.target = which /\ call.sel = "none"
  /\ call.want = files["validator_lock"]
  /\ call.step \in 0..2
  /\ call.step = 2 => files[which] = files["validator_lock"]
  /\ call.step = 0 =>
       \/ call.result = "accepted" /\ Accepts(which)
       \/ call.result \in {"invalid", "mismatch", "rejected"} /\ ~Accepts(which)
       \/ call.result \in {"inconclusive", "timeout"} /\ ~Accepts(which) /\ Inaccessible

\* How far resolve_binary and invoke are, and what they return.
Verifying ==
  /\ call.step \in 0..16
  /\ call.step > 1 =>
       /\ files["manifest"] \in Intact /\ call.sel = files["manifest"]
       /\ \A k \in 1..(call.step - 1) : files[RuntimeReads[k]] = files["manifest"]
Resolving ==
  /\ call.proc = "resolve" /\ Verifying
  /\ call.step = 0 =>
       \/ call.result = "selected" /\ Bundled /\ call.sel = files["manifest"]
       \/ call.result \in {"integrity", "garbled"} /\ ~Bundled
       \/ call.result = "unsupported" /\ ~Bundled /\ Inaccessible
Invoking(target) ==
  /\ call.proc = "invoke" /\ call.target = target /\ Verifying
  /\ Bundled /\ call.want = files["manifest"]
  /\ call.step = 0 =>
       \/ call.result = "invocation" /\ Flawed("rust_slow")
       \/ /\ call.result = "ran" /\ Flawed("rust_crashes") /\ call.bytes = "none"
       \/ /\ call.result = "ran" /\ ~Flawed("rust_slow") /\ ~Flawed("rust_crashes")
          /\ call.bytes = Report(target)
          /\ call.code = IF Report(target) = "valid" THEN 0 ELSE 1

Proceeding ==
  /\ stage = "lock" => call.proc = "load" /\ Loading
  /\ stage = "run_plugin" => Running("plugin_validator")
  /\ stage = "run_skill" => Running("skill_validator")
  /\ stage = "artifact" => Resolving
  /\ stage = "rust_okf_core" => Invoking("knowledge")
  /\ stage = "rust_repository_policy" => Invoking("policy")
  /\ stage \notin {"lock", "run_plugin", "run_skill", "artifact", "rust_okf_core",
                   "rust_repository_policy"} => call.step = 0

Audited ==
  setup.tool = "doctor" /\ updates = 0 =>
    /\ files["knowledge"] \notin {"mutating", "owner"}
    /\ Excused /\ Findings /\ Remembered /\ Proceeding

LEMMA Release ==
  ASSUME NEW names, NEW now, NEW first \in names
  PROVE  OneRelease(names, now) <=>
           now[first] \in Intact /\ \A name \in names : now[name] = now[first]
  BY Zenon DEF OneRelease

LEMMA IsLocked ==
  Locked <=> /\ files["validator_lock"] \in Intact
             /\ \A k \in 1..6 : files[LockReads[k]] = files["validator_lock"]
  <1>1. DOMAIN LockReads = 1..6 /\ LockReads[1] = "validator_lock"
    BY DEF LockReads
  <1>2. "validator_lock" \in CanonicalFiles
    BY <1>1 DEF CanonicalFiles
  <1>3. \A name : name \in CanonicalFiles <=> \E k \in 1..6 : name = LockReads[k]
    BY <1>1 DEF CanonicalFiles
  <1>4. Locked <=> /\ files["validator_lock"] \in Intact
                 /\ \A name \in CanonicalFiles : files[name] = files["validator_lock"]
    BY <1>2, Release DEF Locked
  <1>5. (\A name \in CanonicalFiles : files[name] = files["validator_lock"]) <=>
          \A k \in 1..6 : files[LockReads[k]] = files["validator_lock"]
    <2>1. ASSUME \A name \in CanonicalFiles : files[name] = files["validator_lock"], NEW k \in 1..6
          PROVE  files[LockReads[k]] = files["validator_lock"]
      BY <1>3, <2>1
    <2>2. ASSUME \A k \in 1..6 : files[LockReads[k]] = files["validator_lock"], NEW name \in CanonicalFiles
          PROVE  files[name] = files["validator_lock"]
      <3>1. PICK k \in 1..6 : name = LockReads[k]
        BY <1>3
      <3> QED
        BY <2>2, <3>1
    <2> QED
      BY <2>1, <2>2
  <1> QED
    BY <1>4, <1>5

LEMMA IsBundled ==
  Bundled <=> /\ files["manifest"] \in Intact
              /\ \A k \in 1..15 : files[RuntimeReads[k]] = files["manifest"]
  <1>1. DOMAIN RuntimeReads = 1..15 /\ RuntimeReads[1] = "manifest"
    BY DEF RuntimeReads
  <1>2. "manifest" \in RuntimeFiles
    BY <1>1 DEF RuntimeFiles
  <1>3. \A name : name \in RuntimeFiles <=> \E k \in 1..15 : name = RuntimeReads[k]
    BY <1>1 DEF RuntimeFiles
  <1>4. Bundled <=> /\ files["manifest"] \in Intact
                 /\ \A name \in RuntimeFiles : files[name] = files["manifest"]
    BY <1>2, Release DEF Bundled
  <1>5. (\A name \in RuntimeFiles : files[name] = files["manifest"]) <=>
          \A k \in 1..15 : files[RuntimeReads[k]] = files["manifest"]
    <2>1. ASSUME \A name \in RuntimeFiles : files[name] = files["manifest"], NEW k \in 1..15
          PROVE  files[RuntimeReads[k]] = files["manifest"]
      BY <1>3, <2>1
    <2>2. ASSUME \A k \in 1..15 : files[RuntimeReads[k]] = files["manifest"], NEW name \in RuntimeFiles
          PROVE  files[name] = files["manifest"]
      <3>1. PICK k \in 1..15 : name = RuntimeReads[k]
        BY <1>3
      <3> QED
        BY <2>2, <3>1
    <2> QED
      BY <2>1, <2>2
  <1> QED
    BY <1>4, <1>5

LEMMA IsCanonical ==
  CanonicalInOrder(files) <=>
    /\ Locked /\ Accepts("plugin_validator")
    /\ files["skills"] = "empty" \/ Accepts("skill_validator")
  <1>1. "validator_lock" \in CanonicalFiles
    <2>1. DOMAIN LockReads = 1..6 /\ LockReads[1] = "validator_lock"
      BY DEF LockReads
    <2> QED
      BY <2>1 DEF CanonicalFiles
  <1>2. Validators = {"plugin_validator", "skill_validator"}
    BY DEF Validators, Subject
  <1>3. /\ Subject["plugin_validator"] = "plugin_json"
        /\ Subject["skill_validator"] = "skills"
    BY DEF Subject
  <1>4. OneRelease(CanonicalFiles \cup Validators, files) <=>
          /\ Locked
          /\ files["plugin_validator"] = files["validator_lock"]
          /\ files["skill_validator"] = files["validator_lock"]
    BY <1>1, <1>2, Zenon DEF OneRelease, Locked
  <1>5. OneRelease(CanonicalFiles \cup {"plugin_validator"}, files) <=>
          Locked /\ files["plugin_validator"] = files["validator_lock"]
    BY <1>1, Zenon DEF OneRelease, Locked
  <1> QED
    BY <1>3, <1>4, <1>5 DEF CanonicalInOrder, Accepts

LEMMA IsAsked ==
  Asked <=> /\ files["ask_lock"] \in Intact /\ files["ask_adapter"] = files["ask_lock"]
            /\ files["ask_installed"] = files["ask_lock"]
  BY DEF Asked, OneRelease

\* Nothing the verdict depends on changes while the audit alone is at work.
LEMMA SameFiles ==
  ASSUME UNCHANGED <<files, setup>>
  PROVE  /\ Locked' <=> Locked
         /\ Bundled' <=> Bundled
         /\ Accepts("plugin_validator")' <=> Accepts("plugin_validator")
         /\ Accepts("skill_validator")' <=> Accepts("skill_validator")
         /\ Asked' <=> Asked
         /\ Core' <=> Core
         /\ Ruled' <=> Ruled
         /\ Legible' <=> Legible
         /\ CanonicalInOrder(files)' <=> CanonicalInOrder(files)
         /\ RuntimeInOrder(files)' <=> RuntimeInOrder(files)
         /\ InOrder(files)' <=> InOrder(files)
         /\ Inaccessible' <=> Inaccessible
         /\ Report("knowledge")' = Report("knowledge")
         /\ Report("policy")' = Report("policy")
         /\ Flawed("rust_slow")' <=> Flawed("rust_slow")
         /\ Flawed("rust_crashes")' <=> Flawed("rust_crashes")
  <1>1. \A what : Flawed(what)' <=> Flawed(what)
    BY DEF Flawed
  <1>2. Locked' <=> Locked
    BY DEF Locked
  <1>3. Bundled' <=> Bundled
    BY DEF Bundled
  <1>4. CanonicalInOrder(files)' <=> CanonicalInOrder(files)
    BY DEF CanonicalInOrder, Flawed
  <1>5. RuntimeInOrder(files)' <=> RuntimeInOrder(files)
    BY DEF RuntimeInOrder, Flawed
  <1>6. InOrder(files)' <=> InOrder(files)
    BY DEF InOrder, CanonicalInOrder, RuntimeInOrder, RepositoryInOrder, Flawed
  <1>7. Inaccessible' <=> Inaccessible
    BY DEF Inaccessible, Flawed
  <1>8. /\ Report("knowledge")' = Report("knowledge")
        /\ Report("policy")' = Report("policy")
    BY DEF Report
  <1>9. Accepts("plugin_validator")' <=> Accepts("plugin_validator")
    BY DEF Accepts, Flawed
  <1>10. Accepts("skill_validator")' <=> Accepts("skill_validator")
    BY DEF Accepts, Flawed
  <1>11. Asked' <=> Asked
    BY DEF Asked
  <1>12. Core' <=> Core
    BY DEF Core, CanonicalInOrder, RuntimeInOrder, Flawed
  <1>13. (Ruled' <=> Ruled) /\ (Legible' <=> Legible)
    BY <1>8 DEF Ruled, Legible, IsFile
  <1> QED
    BY <1>1, <1>2, <1>3, <1>4, <1>5, <1>6, <1>7, <1>8, <1>9, <1>10, <1>11,
       <1>12, <1>13

LEMMA Adds ==
  ASSUME NEW findings, Find(findings)
  PROVE  Clean' <=> Clean /\ \A f \in findings : f[2] \notin {"FAIL", "INCONCLUSIVE"}
  BY DEF Find, Clean

LEMMA ExcusedAdds ==
  ASSUME Excused, NEW findings, Find(findings), UNCHANGED <<files, setup>>,
         (\E f \in findings : f[2] = "INCONCLUSIVE") =>
           (\E f \in findings : f[2] = "FAIL") \/ Inaccessible
  PROVE  Excused'
  <1>1. Has("FAIL") => Has("FAIL")'
    BY DEF Find, Has
  <1>2. (\E f \in findings : f[2] = "FAIL") => Has("FAIL")'
    BY DEF Find, Has
  <1>3. Has("INCONCLUSIVE")' => Has("INCONCLUSIVE") \/ \E f \in findings : f[2] = "INCONCLUSIVE"
    BY DEF Find, Has
  <1>4. Inaccessible' <=> Inaccessible
    BY SameFiles
  <1> QED
    BY <1>1, <1>2, <1>3, <1>4 DEF Excused

-----------------------------------------------------------------------------
(* Its procedures *)

LEMMA CallsCall ==
  ASSUME NEW proc, NEW want, NEW target, Call(proc, want, target)
  PROVE  /\ call'.proc = proc /\ call'.step = 1 /\ call'.want = want
         /\ call'.target = target /\ call'.sel = "none"
  BY DEF Call, NoCall

LEMMA AdvancesCall ==
  ASSUME NEW sel, IsCall, Advance(sel)
  PROVE  /\ call'.proc = call.proc /\ call'.target = call.target
         /\ call'.want = call.want /\ call'.sel = sel
         /\ call'.step = call.step + 1
  <1>1. call' = [proc |-> call.proc, step |-> call.step + 1, sel |-> sel,
                 want |-> call.want, target |-> call.target,
                 bytes |-> call.bytes, result |-> call.result,
                 code |-> call.code]
    BY DEF Advance, IsCall
  <1> QED
    BY <1>1

LEMMA LoadRuntimeLoads ==
  ASSUME IsCall, Loading, call.proc = "load", LoadRuntime, UNCHANGED <<files, setup, memo>>,
         call.step = 2 => Listing
  PROVE  call'.proc = "load" /\ Loading'
  <1> DEFINE file == LockReads[call.step]
             sel == IF file = "validator_lock" THEN files[file] ELSE call.sel
  <1>1. /\ DOMAIN LockReads = 1..6 /\ Len(LockReads) = 6
        /\ LockReads[1] = "validator_lock"
        /\ \A k \in 2..6 : LockReads[k] # "validator_lock"
    BY DEF LockReads
  <1>2. call.step \in 1..6
    BY <1>1 DEF LoadRuntime
  <1>3. (file = "validator_lock" <=> call.step = 1)
    BY <1>1, <1>2
  <1>4. /\ files' = files /\ (Locked' <=> Locked) /\ (Inaccessible' <=> Inaccessible)
        /\ Listing' <=> Listing
    BY SameFiles DEF Listing
  <1>5. CASE LockFault(file) # "none"
    <2>1. Return(LockFault(file))
      BY <1>5 DEF LoadRuntime
    <2>2. call'.proc = "load" /\ call'.step = 0 /\ call'.result = LockFault(file)
      BY <2>1, ReturnsCall
    <2>3. ~Locked
      <3> SUFFICES ASSUME Locked PROVE FALSE
        OBVIOUS
      <3>1. files["validator_lock"] \in Intact /\ files[file] = files["validator_lock"]
        BY <1>2, IsLocked
      <3>2. call.step # 1 => call.sel = files["validator_lock"]
        BY <1>2 DEF Loading
      <3> QED
        BY <1>3, <1>5, <3>1, <3>2 DEF LockFault, Intact
    <2>4. LockFault(file) = "inconclusive" => Inaccessible
      <3>1. file \in CanonicalFiles
        BY <1>1, <1>2 DEF CanonicalFiles
      <3>2. LockFault(file) = "inconclusive" => files[file] = "missing"
        BY DEF LockFault
      <3> QED
        BY <3>1, <3>2 DEF Inaccessible
    <2>5. LockFault(file) \in {"inconclusive", "invalid", "lock"}
      BY <1>5 DEF LockFault
    <2> QED
      BY <1>4, <2>2, <2>3, <2>4, <2>5 DEF Loading
  <1>6. CASE LockFault(file) = "none"
    <2>1. /\ files["validator_lock"] \in Intact
          /\ sel = files["validator_lock"] /\ files[file] = files["validator_lock"]
      <3>1. CASE call.step = 1
        BY <1>3, <1>6, <3>1 DEF LockFault
      <3>2. CASE call.step # 1
        BY <1>2, <1>3, <1>6, <3>2 DEF LockFault, Loading
      <3> QED
        BY <3>1, <3>2
    <2>2. \A k \in 1..call.step : files[LockReads[k]] = files["validator_lock"]
      <3>1. call.step > 1 => \A k \in 1..(call.step - 1) :
                               files[LockReads[k]] = files["validator_lock"]
        BY DEF Loading
      <3>2. \A k \in 1..call.step : k = call.step \/ (call.step > 1 /\ k \in 1..(call.step - 1))
        BY <1>2
      <3> QED
        BY <2>1, <3>1, <3>2
    <2>3. CASE call.step = 6
      <3>1. Return("loaded")
        BY <1>1, <1>6, <2>3 DEF LoadRuntime
      <3>2. /\ call'.proc = "load" /\ call'.step = 0 /\ call'.result = "loaded"
            /\ call'.sel = call.sel
        BY <3>1, ReturnsCall
      <3>3. Locked
        BY <2>1, <2>2, <2>3, IsLocked
      <3>4. call.sel = files["validator_lock"] /\ Listing
        BY <2>3 DEF Loading
      <3> QED
        BY <1>4, <3>2, <3>3, <3>4 DEF Loading
    <2>4. CASE call.step # 6
      <3>1. Advance(sel)
        BY <1>1, <1>6, <2>4 DEF LoadRuntime
      <3>2. call'.proc = "load" /\ call'.sel = sel /\ call'.step = call.step + 1
        BY <3>1, AdvancesCall
      <3>3. call'.step > 2 => Listing
        BY <1>2, <3>2 DEF Loading
      <3> QED
        BY <1>2, <1>4, <2>1, <2>2, <2>4, <3>2, <3>3 DEF Loading
    <2> QED
      BY <2>3, <2>4
  <1> QED
    BY <1>5, <1>6

LEMMA ValidatorRuns ==
  ASSUME IsCall, NEW which \in {"plugin_validator", "skill_validator"},
         Running(which), files["validator_lock"] \in Intact,
         ReadValidator \/ RunSnapshot, UNCHANGED <<files, setup>>
  PROVE  Running(which)'
  <1>1. /\ call.proc = "validator" /\ call.target = which /\ call.sel = "none"
        /\ call.want = files["validator_lock"]
    BY DEF Running
  <1>2. files' = files /\ (Inaccessible' <=> Inaccessible)
        /\ (Accepts(which)' <=> Accepts(which))
    BY SameFiles DEF Accepts, Flawed
  <1>3. \A result : Return(result) =>
          /\ call'.proc = "validator" /\ call'.target = which /\ call'.sel = "none"
          /\ call'.want = files["validator_lock"] /\ call'.step = 0
          /\ call'.result = result
    BY <1>1, ReturnsCall
  <1>4. which \in Validators
    BY DEF Validators, Subject
  <1>5. CASE ReadValidator
    <2>1. CASE files[which] = "missing"
      <3>1. Return("inconclusive")
        BY <1>1, <1>5, <2>1 DEF ReadValidator
      <3>2. ~Accepts(which) /\ Inaccessible
        BY <1>4, <2>1 DEF Accepts, Intact, Inaccessible
      <3> QED
        BY <1>2, <1>3, <3>1, <3>2 DEF Running
    <2>2. CASE files[which] # "missing" /\ files[which] # files["validator_lock"]
      <3>1. Return("invalid") \/ Return("mismatch")
        BY <1>1, <1>5, <2>2 DEF ReadValidator
      <3>2. ~Accepts(which)
        BY <2>2 DEF Accepts
      <3> QED
        BY <1>2, <1>3, <3>1, <3>2 DEF Running
    <2>3. CASE files[which] = files["validator_lock"]
      <3>1. call' = [call EXCEPT !.step = 2, !.bytes = files[which]]
        BY <1>1, <1>5, <2>3 DEF ReadValidator, Intact
      <3>2. /\ call'.proc = "validator" /\ call'.target = which /\ call'.sel = "none"
            /\ call'.want = files["validator_lock"] /\ call'.step = 2
        BY <1>1, <3>1 DEF IsCall
      <3> QED
        BY <1>2, <2>3, <3>2 DEF Running
    <2> QED
      BY <2>1, <2>2, <2>3
  <1>6. CASE RunSnapshot
    <2>1. files[which] = files["validator_lock"] /\ Return(Verdicts)
      BY <1>6 DEF RunSnapshot, Running
    <2>2. \/ Verdicts = "timeout" /\ ~Accepts(which) /\ Inaccessible
          \/ Verdicts \in {"invalid", "rejected"} /\ ~Accepts(which)
          \/ Verdicts = "accepted" /\ Accepts(which)
      BY <1>1, <2>1 DEF Verdicts, Accepts, Inaccessible
    <2> QED
      BY <1>2, <1>3, <2>1, <2>2 DEF Running
  <1> QED
    BY <1>5, <1>6

\* Verified once, the runtime is verified again when nothing is replaced.
LEMMA ReadRuntimeVerifies ==
  ASSUME IsCall, Verifying, ReadRuntime, UNCHANGED <<files, setup>>
  PROVE  /\ call'.proc = call.proc /\ call'.target = call.target
         /\ call'.want = call.want
         /\ \/ /\ ~Bundled /\ call'.step = 0
               /\ \/ call'.result \in {"integrity", "garbled"}
                  \/ call'.result = "unsupported" /\ Inaccessible
            \/ /\ call'.step = call.step + 1 /\ Verifying'
               /\ call'.step = 16 => call.proc = "invoke"
            \/ /\ Bundled /\ call.sel = files["manifest"] /\ call'.step = 0
               /\ \/ /\ call.proc = "resolve" /\ call'.result = "selected"
                     /\ call'.sel = call.sel
                  \/ /\ call.proc = "invoke" /\ call.sel # call.want
                     /\ call'.result = "integrity"
  <1> DEFINE file == RuntimeReads[call.step]
             sel == IF file = "manifest" THEN files[file] ELSE call.sel
  <1>1. /\ DOMAIN RuntimeReads = 1..15 /\ Len(RuntimeReads) = 15
        /\ RuntimeReads[1] = "manifest"
        /\ \A k \in 2..15 : RuntimeReads[k] # "manifest"
    BY DEF RuntimeReads
  <1>2. call.step \in 1..15 /\ call.proc \in {"resolve", "invoke"}
    BY <1>1 DEF ReadRuntime
  <1>3. (file = "manifest" <=> call.step = 1)
    BY <1>1, <1>2
  <1>4. files' = files
    OBVIOUS
  <1>5. CASE ReadFault(file) # "none"
    <2>1. Return(ReadFault(file))
      BY <1>5 DEF ReadRuntime
    <2>2. /\ call'.proc = call.proc /\ call'.target = call.target
          /\ call'.want = call.want
          /\ call'.step = 0 /\ call'.result = ReadFault(file)
      BY <2>1, ReturnsCall
    <2>3. ~Bundled
      <3> SUFFICES ASSUME Bundled PROVE FALSE
        OBVIOUS
      <3>1. files["manifest"] \in Intact /\ files[file] = files["manifest"]
        BY <1>2, IsBundled
      <3>2. call.step # 1 => call.sel = files["manifest"]
        BY <1>2 DEF Verifying
      <3> QED
        BY <1>3, <1>5, <3>1, <3>2 DEF ReadFault, Intact
    <2>4. ReadFault(file) \in {"integrity", "unsupported", "garbled"}
      BY <1>5 DEF ReadFault
    <2>5. ReadFault(file) = "unsupported" => Inaccessible
      BY DEF ReadFault, Inaccessible
    <2> QED
      BY <2>2, <2>3, <2>4, <2>5
  <1>6. CASE ReadFault(file) = "none"
    <2>1. /\ files["manifest"] \in Intact
          /\ sel = files["manifest"] /\ files[file] = files["manifest"]
      <3>1. CASE call.step = 1
        BY <1>3, <1>6, <3>1 DEF ReadFault
      <3>2. CASE call.step # 1
        BY <1>2, <1>3, <1>6, <3>2 DEF ReadFault, Verifying
      <3> QED
        BY <3>1, <3>2
    <2>2. \A k \in 1..call.step : files[RuntimeReads[k]] = files["manifest"]
      <3>1. call.step > 1 => \A k \in 1..(call.step - 1) :
                               files[RuntimeReads[k]] = files["manifest"]
        BY DEF Verifying
      <3>2. \A k \in 1..call.step : k = call.step \/ (call.step > 1 /\ k \in 1..(call.step - 1))
        BY <1>2
      <3> QED
        BY <2>1, <3>1, <3>2
    <2>3. CASE call.step = 15
      <3>1. Resolved
        BY <1>1, <1>6, <2>3 DEF ReadRuntime
      <3>2. Bundled
        BY <2>1, <2>2, <2>3, IsBundled
      <3>3. call.sel = files["manifest"]
        BY <2>3 DEF Verifying
      <3>4. CASE call.proc = "resolve"
        <4>1. Return("selected")
          BY <3>1, <3>4 DEF Resolved
        <4> QED
          BY <3>2, <3>3, <3>4, <4>1, ReturnsCall
      <3>5. CASE call.proc = "invoke" /\ call.sel # call.want
        <4>1. Return("integrity")
          BY <3>1, <3>5 DEF Resolved
        <4> QED
          BY <3>2, <3>3, <3>5, <4>1, ReturnsCall
      <3>6. CASE call.proc = "invoke" /\ call.sel = call.want
        <4>1. Advance(call.sel)
          BY <3>1, <3>6 DEF Resolved
        <4>2. /\ call'.proc = call.proc /\ call'.target = call.target
              /\ call'.want = call.want /\ call'.sel = call.sel
              /\ call'.step = call.step + 1
          BY <4>1, AdvancesCall
        <4>3. Verifying'
          BY <1>4, <2>1, <2>2, <2>3, <3>3, <4>2 DEF Verifying
        <4> QED
          BY <3>6, <4>2, <4>3
      <3> QED
        BY <1>2, <3>4, <3>5, <3>6
    <2>4. CASE call.step # 15
      <3>1. Advance(sel)
        BY <1>1, <1>6, <2>4 DEF ReadRuntime
      <3>2. /\ call'.proc = call.proc /\ call'.target = call.target
            /\ call'.want = call.want /\ call'.sel = sel
            /\ call'.step = call.step + 1
        BY <3>1, AdvancesCall
      <3>3. Verifying' /\ call'.step # 16
        BY <1>2, <1>4, <2>1, <2>2, <2>4, <3>2 DEF Verifying
      <3> QED
        BY <3>2, <3>3
    <2> QED
      BY <2>3, <2>4
  <1> QED
    BY <1>5, <1>6

LEMMA ReadResolves ==
  ASSUME IsCall, Resolving, ReadRuntime, UNCHANGED <<files, setup>>
  PROVE  Resolving'
  <1>1. call.proc = "resolve" /\ Verifying
    BY DEF Resolving
  <1>2. (Bundled' <=> Bundled) /\ (Inaccessible' <=> Inaccessible) /\ files' = files
    BY SameFiles
  <1>3. call'.step = 0 => Verifying'
    BY DEF Verifying
  <1>4. call'.step = call.step + 1 => call'.step # 0
    BY DEF IsCall
  <1> QED
    BY <1>1, <1>2, <1>3, <1>4, ReadRuntimeVerifies DEF Resolving

LEMMA ReadInvokes ==
  ASSUME IsCall, NEW target, Invoking(target), ReadRuntime, UNCHANGED <<files, setup>>
  PROVE  Invoking(target)'
  <1>1. /\ call.proc = "invoke" /\ Verifying /\ Bundled
        /\ call.want = files["manifest"] /\ call.target = target
    BY DEF Invoking
  <1>2. (Bundled' <=> Bundled) /\ files' = files
    BY SameFiles
  <1>3. call'.step = call.step + 1 /\ call.step \in Nat => call'.step # 0
    OBVIOUS
  <1>4. /\ call'.proc = "invoke" /\ call'.target = target
        /\ call'.want = files["manifest"]
        /\ call'.step = call.step + 1 /\ Verifying'
    BY <1>1, ReadRuntimeVerifies
  <1> QED
    BY <1>1, <1>2, <1>3, <1>4 DEF Invoking, IsCall

LEMMA ExecuteInvokes ==
  ASSUME IsCall, NEW target \in {"knowledge", "policy"}, Invoking(target), Execute,
         UNCHANGED <<files, setup>>
  PROVE  Invoking(target)'
  <1>1. /\ call.proc = "invoke" /\ Verifying /\ Bundled
        /\ call.want = files["manifest"] /\ call.target = target
    BY DEF Invoking
  <1>2. /\ (Bundled' <=> Bundled) /\ files' = files /\ Report(target)' = Report(target)
        /\ Flawed("rust_slow")' <=> Flawed("rust_slow")
        /\ Flawed("rust_crashes")' <=> Flawed("rust_crashes")
    BY SameFiles
  <1>3. files["manifest"] \in Intact /\ files["binary"] = files["manifest"]
    <2>1. RuntimeReads[2] = "binary" /\ 2 \in 1..15
      BY DEF RuntimeReads
    <2> QED
      BY <1>1, <2>1, IsBundled
  <1>4. call'.step = 0 => Verifying'
    BY DEF Verifying
  <1>5. CASE Flawed("rust_slow")
    <2>1. Return("invocation")
      BY <1>5 DEF Execute
    <2> QED
      BY <1>1, <1>2, <1>4, <1>5, <2>1, ReturnsCall DEF Invoking
  <1>6. CASE ~Flawed("rust_slow")
    <2>1. PICK answer \in Answers(files["binary"]) :
            call' = [call EXCEPT !.step = 0, !.result = "ran",
                                 !.bytes = answer[1], !.code = answer[2]]
      BY <1>3, <1>6 DEF Execute, Intact
    <2>2. /\ call'.proc = "invoke" /\ call'.target = target
          /\ call'.want = files["manifest"] /\ call'.step = 0
          /\ call'.result = "ran" /\ call'.bytes = answer[1] /\ call'.code = answer[2]
      BY <1>1, <2>1 DEF IsCall
    <2>3. CASE Flawed("rust_crashes")
      <3>1. answer = <<"none", 134>>
        BY <1>3, <2>3 DEF Answers
      <3>2. call'.bytes = "none"
        BY <2>2, <3>1
      <3> QED
        BY <1>1, <1>2, <1>4, <2>2, <2>3, <3>2 DEF Invoking
    <2>4. CASE ~Flawed("rust_crashes")
      <3>1. answer = <<Report(target), IF Report(target) = "valid" THEN 0 ELSE 1>>
        BY <1>1, <1>3, <2>4 DEF Answers
      <3>2. /\ call'.bytes = Report(target)
            /\ call'.code = IF Report(target) = "valid" THEN 0 ELSE 1
        BY <2>2, <3>1
      <3> QED
        BY <1>1, <1>2, <1>4, <1>6, <2>2, <2>4, <3>2 DEF Invoking
    <2> QED
      BY <2>3, <2>4
  <1> QED
    BY <1>5, <1>6

\* Running on after a step of a procedure.
LEMMA ProcedureAudits ==
  ASSUME IsCall, setup.tool = "doctor", updates = 0, Audited, Procedure,
         UNCHANGED world
  PROVE  Audited'
  <1>1. /\ Excused /\ Findings /\ Remembered /\ Proceeding
        /\ files["knowledge"] \notin {"mutating", "owner"}
        /\ UNCHANGED <<files, setup, updates, stage, exit, memo, found>>
    BY DEF Audited, world, Procedure
  <1>2. call.step # 0
    <2>1. DOMAIN LockReads = 1..6
      BY DEF LockReads
    <2>2. CASE ReadRuntime
      <3>1. call.step \in DOMAIN RuntimeReads
        BY <2>2 DEF ReadRuntime
      <3> QED
        BY <3>1, Order
    <2>3. CASE Execute
      <3>1. call.step = Len(RuntimeReads) + 1
        BY <2>3 DEF Execute
      <3> QED
        BY <3>1, Order
    <2>4. CASE LoadRuntime
      <3>1. call.step \in DOMAIN LockReads
        BY <2>4 DEF LoadRuntime
      <3> QED
        BY <2>1, <3>1
    <2>5. CASE ReadValidator \/ RunSnapshot
      BY <2>5 DEF ReadValidator, RunSnapshot
    <2> QED
      BY <2>2, <2>3, <2>4, <2>5 DEF Procedure, Canonical
  <1>3. Excused' /\ Findings' /\ Remembered'
    BY <1>1, SameFiles DEF Excused, Has, Findings, Clean, Remembered, IsFile, Listing
  <1>4. Proceeding'
    <2>1. CASE stage = "lock"
      <3>1. call.proc = "load" /\ Loading /\ (call.step = 2 => Listing)
        BY <1>1, <2>1 DEF Proceeding, Procedure, Remembered
      <3>2. LoadRuntime
        BY <3>1 DEF Procedure, ReadRuntime, Execute, Canonical, ReadValidator, RunSnapshot
      <3> QED
        BY <1>1, <2>1, <3>1, <3>2, LoadRuntimeLoads DEF Proceeding
    <2>2. ASSUME NEW which \in {"plugin_validator", "skill_validator"}, Running(which),
                 stage \in {"run_plugin", "run_skill"}
          PROVE  Running(which)'
      <3>1. files["validator_lock"] \in Intact
        BY <1>1, <2>2, IsLocked DEF Remembered, Listing, IsFile
      <3>2. ReadValidator \/ RunSnapshot
        BY <2>2 DEF Running, Procedure, ReadRuntime, Execute, Canonical, LoadRuntime
      <3> QED
        BY <1>1, <2>2, <3>1, <3>2, ValidatorRuns
    <2>3. CASE stage = "run_plugin"
      <3>1. Running("plugin_validator")'
        BY <1>1, <2>2, <2>3 DEF Proceeding
      <3> QED
        BY <1>1, <2>3, <3>1 DEF Proceeding
    <2>4. CASE stage = "run_skill"
      <3>1. Running("skill_validator")'
        BY <1>1, <2>2, <2>4 DEF Proceeding
      <3> QED
        BY <1>1, <2>4, <3>1 DEF Proceeding
    <2>5. CASE stage = "artifact"
      <3>1. Resolving /\ call.proc = "resolve"
        BY <1>1, <2>5 DEF Proceeding, Resolving
      <3>2. ReadRuntime
        BY <3>1 DEF Procedure, Execute, Canonical, LoadRuntime, ReadValidator, RunSnapshot
      <3> QED
        BY <1>1, <2>5, <3>1, <3>2, ReadResolves DEF Proceeding
    <2>6. ASSUME NEW target \in {"knowledge", "policy"}, Invoking(target)
          PROVE  Invoking(target)'
      <3>1. ReadRuntime \/ Execute
        BY <2>6 DEF Invoking, Procedure, Canonical, LoadRuntime, ReadValidator, RunSnapshot
      <3> QED
        BY <1>1, <2>6, <3>1, ReadInvokes, ExecuteInvokes
    <2>7. CASE stage = "rust_okf_core"
      <3>1. Invoking("knowledge")'
        BY <1>1, <2>6, <2>7 DEF Proceeding
      <3> QED
        BY <1>1, <2>7, <3>1 DEF Proceeding
    <2>8. CASE stage = "rust_repository_policy"
      <3>1. Invoking("policy")'
        BY <1>1, <2>6, <2>8 DEF Proceeding
      <3> QED
        BY <1>1, <2>8, <3>1 DEF Proceeding
    <2> QED
      BY <1>1, <1>2, <2>1, <2>3, <2>4, <2>5, <2>7, <2>8 DEF Proceeding
  <1> QED
    BY <1>1, <1>3, <1>4 DEF Audited

-----------------------------------------------------------------------------
(* Its statements *)

\* A statement of the audit: what it finds, what it keeps, what it calls.
LEMMA StatementAudits ==
  ASSUME setup.tool = "doctor", updates = 0, Audited, UNCHANGED world,
         UNCHANGED world => Excused' /\ Findings' /\ Remembered' /\ Proceeding'
  PROVE  Audited'
  BY DEF Audited, world

\* A finding, or two of them, or the same of several checks.
LEMMA FindsOne ==
  ASSUME NEW check, NEW status, Find({<<check, status>>})
  PROVE  /\ Clean' <=> Clean /\ status \notin {"FAIL", "INCONCLUSIVE"}
         /\ Excused /\ UNCHANGED <<files, setup>> /\ (status = "INCONCLUSIVE" => Inaccessible)
              => Excused'
  <1>1. \A f \in {<<check, status>>} : f[2] = status
    OBVIOUS
  <1> DEFINE findings == {<<check, status>>}
  <1>2. Find(findings) /\ (\A f \in findings : f[2] = status) /\ findings # {}
    BY <1>1
  <1> HIDE DEF findings
  <1> QED
    BY <1>2, Adds, ExcusedAdds

LEMMA FindsTwo ==
  ASSUME NEW check, NEW status, NEW other, NEW verdict,
         Find({<<check, status>>, <<other, verdict>>})
  PROVE  /\ Clean' <=> /\ Clean /\ status \notin {"FAIL", "INCONCLUSIVE"}
                       /\ verdict \notin {"FAIL", "INCONCLUSIVE"}
         /\ /\ Excused /\ UNCHANGED <<files, setup>>
            /\ "INCONCLUSIVE" \in {status, verdict} =>
                 "FAIL" \in {status, verdict} \/ Inaccessible
            => Excused'
  <1> DEFINE findings == {<<check, status>>, <<other, verdict>>}
  <1>1. \A f \in findings : f[2] \in {status, verdict}
    OBVIOUS
  <1>2. (\E f \in findings : f[2] = status) /\ (\E f \in findings : f[2] = verdict)
    OBVIOUS
  <1>3. Find(findings)
    OBVIOUS
  <1> HIDE DEF findings
  <1>4. Clean' <=> /\ Clean /\ status \notin {"FAIL", "INCONCLUSIVE"}
                   /\ verdict \notin {"FAIL", "INCONCLUSIVE"}
    BY <1>1, <1>2, <1>3, Adds
  <1>5. ASSUME Excused, UNCHANGED <<files, setup>>,
               "INCONCLUSIVE" \in {status, verdict} =>
                 "FAIL" \in {status, verdict} \/ Inaccessible
        PROVE  Excused'
    BY <1>1, <1>2, <1>3, <1>5, ExcusedAdds
  <1> QED
    BY <1>4, <1>5

LEMMA FindsAll ==
  ASSUME NEW checks, checks # {}, NEW status, Find(All(checks, status))
  PROVE  /\ Clean' <=> Clean /\ status \notin {"FAIL", "INCONCLUSIVE"}
         /\ Excused /\ UNCHANGED <<files, setup>> /\ (status = "INCONCLUSIVE" => Inaccessible)
              => Excused'
  <1> DEFINE findings == All(checks, status)
  <1>1. findings = checks \X {status}
    BY DEF All
  <1>2. Find(findings) /\ (\A f \in findings : f[2] = status)
    BY <1>1
  <1>3. \E f \in findings : f[2] = status
    <2>1. PICK check \in checks : TRUE
      OBVIOUS
    <2>2. <<check, status>> \in findings /\ <<check, status>>[2] = status
      BY <1>1, <2>1
    <2> QED
      BY <2>2
  <1> HIDE DEF findings
  <1> QED
    BY <1>2, <1>3, Adds, ExcusedAdds

LEMMA PluginManifestAudits ==
  ASSUME setup.tool = "doctor", updates = 0, Audited, UNCHANGED world, PluginManifest
  PROVE  Audited'
  <1>1. /\ Excused /\ Findings /\ Remembered /\ UNCHANGED <<files, setup, memo>>
        /\ stage = "plugin_manifest" /\ stage' = "lock"
    BY DEF Audited, world, PluginManifest, At, Then
  <1>2. /\ Find({<<"plugin_manifest_parse_smoke", FromFile("plugin_json")>>})
        /\ Call("load", "none", "none")
    BY DEF PluginManifest
  <1>3. FromFile("plugin_json") = IF files["plugin_json"] \in Intact THEN "PASS" ELSE "FAIL"
    BY DEF FromFile
  <1>4. Clean' <=> files["plugin_json"] \in Intact
    BY <1>1, <1>2, <1>3, FindsOne DEF Findings
  <1>5. Excused'
    BY <1>1, <1>2, <1>3, FindsOne
  <1>6. Findings'
    BY <1>1, <1>4 DEF Findings
  <1>7. Remembered'
    BY <1>1 DEF Remembered, Listing, IsFile
  <1>8. Proceeding'
    BY <1>1, <1>2, CallsCall DEF Proceeding, Loading
  <1> QED
    BY <1>5, <1>6, <1>7, <1>8, StatementAudits

LEMMA ListSkillsAudits ==
  ASSUME IsCall, setup.tool = "doctor", updates = 0, Audited, UNCHANGED world, ListSkills
  PROVE  Audited'
  <1>1. /\ Excused /\ Findings /\ Remembered /\ Proceeding
        /\ UNCHANGED <<files, setup, stage, found, exit>>
        /\ stage = "lock" /\ call.step = 2 /\ call.proc = "load" /\ Loading
    BY DEF Audited, world, ListSkills, At, Proceeding
  <1>2. Excused' /\ Findings'
    BY <1>1, SameFiles DEF Excused, Has, Findings, Clean
  <1>3. Remembered'
    BY <1>1 DEF Remembered, ListSkills, Listing
  <1>4. Proceeding'
    <2>1. CASE ~IsFile("skills") /\ Return("lock")
      <3>1. call'.step = 0 /\ call'.result = "lock" /\ call'.proc = "load"
        BY <1>1, <2>1, ReturnsCall
      <3>2. Loading'
        BY <1>1, <2>1, <3>1, SameFiles DEF Loading, IsFile
      <3> QED
        BY <1>1, <3>1, <3>2 DEF Proceeding
    <2>2. CASE UNCHANGED call
      <3>1. Loading'
        BY <1>1, <2>2 DEF Loading
      <3> QED
        BY <1>1, <2>2, <3>1 DEF Proceeding
    <2> QED
      BY <2>1, <2>2 DEF ListSkills
  <1> QED
    BY <1>2, <1>3, <1>4, StatementAudits

LEMMA NotLoadedAudits ==
  ASSUME setup.tool = "doctor", updates = 0, Audited, UNCHANGED world, NotLoaded
  PROVE  Audited'
  <1>1. /\ Excused /\ Findings /\ Remembered /\ Loading
        /\ UNCHANGED <<files, setup, memo, call>>
        /\ stage = "lock" /\ stage' = "catalog" /\ call.step = 0
        /\ call.result # "loaded"
    BY DEF Audited, world, NotLoaded, At, Then, Returned, Proceeding
  <1> DEFINE checks == {"canonical_validator_runtime", "plugin_manifest_canonical"}
                         \cup (IF memo.listed = "some" THEN {"skill_canonical"} ELSE {})
             findings == IF call.result = "lock"
                         THEN {<<"canonical_validator_lock", "FAIL">>}
                         ELSE All(checks, CanonicalStatus(call.result))
  <1>2. Find(findings)
    BY DEF NotLoaded
  <1>3. ~CanonicalInOrder(files)
    BY <1>1, IsCanonical DEF Loading, Accepts, Subject, Intact, IsFile
  <1>4. \E status \in {"FAIL", "INCONCLUSIVE"} :
          /\ status = "INCONCLUSIVE" => Inaccessible
          /\ \A f \in findings : f[2] = status
          /\ \E f \in findings : f[2] = status
    <2>1. CASE call.result = "lock"
      BY <2>1
    <2>2. CASE call.result # "lock"
      <3> DEFINE status == CanonicalStatus(call.result)
      <3>1. /\ status \in {"FAIL", "INCONCLUSIVE"}
            /\ status = "INCONCLUSIVE" => Inaccessible
        BY <1>1, <2>2 DEF Loading, CanonicalStatus
      <3> HIDE DEF status, checks
      <3>2. findings = checks \X {status}
        BY <2>2 DEF All, status
      <3>3. "canonical_validator_runtime" \in checks
        BY DEF checks
      <3>4. \A f \in findings : f[2] = status
        BY <3>2
      <3>5. <<"canonical_validator_runtime", status>> \in findings
        BY <3>2, <3>3
      <3> QED
        BY <3>1, <3>4, <3>5
    <2> QED
      BY <2>1, <2>2
  <1> HIDE DEF findings
  <1>5. ~Clean'
    BY <1>2, <1>4, Adds
  <1>6. Excused'
    BY <1>1, <1>2, <1>4, ExcusedAdds
  <1>7. Findings'
    BY <1>1, <1>3, <1>5, SameFiles DEF Findings
  <1>8. Remembered'
    BY <1>1 DEF Remembered, Listing, IsFile
  <1>9. Proceeding'
    BY <1>1 DEF Proceeding
  <1> QED
    BY <1>6, <1>7, <1>8, <1>9, StatementAudits

\* A field of audit()'s locals is assigned.
LEMMA Assigned ==
  ASSUME Remembered
  PROVE  /\ \A v : [memo EXCEPT !.runtime = v] =
              [listed |-> memo.listed, runtime |-> v, selection |-> memo.selection,
               unavailable |-> memo.unavailable, okf |-> memo.okf,
               receipt |-> memo.receipt, document |-> memo.document, ask |-> memo.ask]
         /\ \A v : [memo EXCEPT !.selection = v] =
              [listed |-> memo.listed, runtime |-> memo.runtime, selection |-> v,
               unavailable |-> memo.unavailable, okf |-> memo.okf,
               receipt |-> memo.receipt, document |-> memo.document, ask |-> memo.ask]
         /\ \A v : [memo EXCEPT !.unavailable = v] =
              [listed |-> memo.listed, runtime |-> memo.runtime,
               selection |-> memo.selection, unavailable |-> v, okf |-> memo.okf,
               receipt |-> memo.receipt, document |-> memo.document, ask |-> memo.ask]
         /\ \A v : [memo EXCEPT !.okf = v] =
              [listed |-> memo.listed, runtime |-> memo.runtime,
               selection |-> memo.selection, unavailable |-> memo.unavailable, okf |-> v,
               receipt |-> memo.receipt, document |-> memo.document, ask |-> memo.ask]
         /\ \A v : [memo EXCEPT !.receipt = v] =
              [listed |-> memo.listed, runtime |-> memo.runtime,
               selection |-> memo.selection, unavailable |-> memo.unavailable,
               okf |-> memo.okf, receipt |-> v, document |-> memo.document, ask |-> memo.ask]
         /\ \A v : [memo EXCEPT !.document = v] =
              [listed |-> memo.listed, runtime |-> memo.runtime,
               selection |-> memo.selection, unavailable |-> memo.unavailable,
               okf |-> memo.okf, receipt |-> memo.receipt, document |-> v, ask |-> memo.ask]
         /\ \A v : [memo EXCEPT !.ask = v] =
              [listed |-> memo.listed, runtime |-> memo.runtime,
               selection |-> memo.selection, unavailable |-> memo.unavailable,
               okf |-> memo.okf, receipt |-> memo.receipt, document |-> memo.document, ask |-> v]
  BY DEF Remembered, Listing, IsFile

LEMMA LoadedAudits ==
  ASSUME setup.tool = "doctor", updates = 0, Audited, UNCHANGED world, Loaded
  PROVE  Audited'
  <1>1. /\ Excused /\ Findings /\ Remembered /\ Loading
        /\ UNCHANGED <<files, setup>>
        /\ stage = "lock" /\ stage' = "run_plugin" /\ call.step = 0
        /\ call.result = "loaded"
    BY DEF Audited, world, Loaded, At, Then, Returned, Proceeding
  <1>2. /\ Find({<<"canonical_validator_runtime", "PASS">>})
        /\ memo' = [memo EXCEPT !.runtime = call.sel]
        /\ Call("validator", call.sel, "plugin_validator")
    BY DEF Loaded
  <1>3. Locked /\ call.sel = files["validator_lock"] /\ Listing
    BY <1>1 DEF Loading
  <1>4. (Clean' <=> Clean) /\ Excused'
    BY <1>1, <1>2, FindsOne
  <1>5. Findings'
    BY <1>1, <1>4 DEF Findings
  <1>6. memo' = [listed |-> memo.listed, runtime |-> call.sel,
                 selection |-> memo.selection, unavailable |-> memo.unavailable,
                 okf |-> memo.okf, receipt |-> memo.receipt,
                 document |-> memo.document, ask |-> memo.ask]
    BY <1>1, <1>2, Assigned
  <1>7. Remembered'
    BY <1>1, <1>3, <1>6, SameFiles DEF Remembered, Listing
  <1>8. Running("plugin_validator")'
    BY <1>1, <1>2, <1>3, CallsCall DEF Running
  <1>9. Proceeding'
    BY <1>1, <1>8 DEF Proceeding
  <1> QED
    BY <1>4, <1>5, <1>7, <1>9, StatementAudits

\* What a validator's result says of it.
LEMMA ValidatorStatus ==
  ASSUME NEW which, Running(which), call.step = 0
  PROVE  /\ CanonicalStatus(call.result) \notin {"FAIL", "INCONCLUSIVE"} <=> Accepts(which)
         /\ CanonicalStatus(call.result) = "INCONCLUSIVE" => Inaccessible
  BY DEF Running, CanonicalStatus

LEMMA PluginValidatedAudits ==
  ASSUME setup.tool = "doctor", updates = 0, Audited, UNCHANGED world, PluginValidated
  PROVE  Audited'
  <1>1. /\ Excused /\ Findings /\ Remembered /\ Running("plugin_validator")
        /\ UNCHANGED <<files, setup, memo>>
        /\ stage = "run_plugin" /\ call.step = 0 /\ Listing /\ Locked
        /\ memo.runtime = files["validator_lock"]
    BY DEF Audited, world, PluginValidated, At, Then, Returned, Proceeding, Remembered
  <1>2. /\ Find({<<"plugin_manifest_canonical", CanonicalStatus(call.result)>>})
        /\ \/ files["skills"] = "empty" /\ stage' = "catalog" /\ UNCHANGED call
           \/ /\ files["skills"] # "empty" /\ stage' = "run_skill"
              /\ Call("validator", memo.runtime, "skill_validator")
    BY <1>1 DEF PluginValidated, Then, Listing
  <1>3. Excused' /\ (Clean' <=> Clean /\ Accepts("plugin_validator"))
    BY <1>1, <1>2, FindsOne, ValidatorStatus
  <1>4. Clean <=> files["plugin_json"] \in Intact
    BY <1>1 DEF Findings
  <1>5. Clean' <=> Accepts("plugin_validator")
    BY <1>3, <1>4 DEF Accepts, Subject
  <1>6. Findings'
    BY <1>1, <1>2, <1>5, SameFiles, IsCanonical DEF Findings
  <1>7. Remembered'
    BY <1>1, <1>2, SameFiles DEF Remembered, Listing
  <1>8. stage' = "run_skill" => Running("skill_validator")'
    BY <1>1, <1>2, CallsCall DEF Running
  <1>9. Proceeding'
    BY <1>1, <1>2, <1>8 DEF Proceeding
  <1> QED
    BY <1>3, <1>6, <1>7, <1>9, StatementAudits

LEMMA SkillValidatedAudits ==
  ASSUME setup.tool = "doctor", updates = 0, Audited, UNCHANGED world, SkillValidated
  PROVE  Audited'
  <1>1. /\ Excused /\ Findings /\ Remembered /\ Running("skill_validator")
        /\ UNCHANGED <<files, setup, memo, call>>
        /\ stage = "run_skill" /\ stage' = "catalog" /\ call.step = 0
    BY DEF Audited, world, SkillValidated, At, Then, Returned, Proceeding
  <1>2. Find({<<"skill_canonical", CanonicalStatus(call.result)>>})
    BY DEF SkillValidated
  <1>3. Excused' /\ (Clean' <=> Clean /\ Accepts("skill_validator"))
    BY <1>1, <1>2, FindsOne, ValidatorStatus
  <1>4. (Clean <=> Accepts("plugin_validator")) /\ Locked /\ files["skills"] # "empty"
    BY <1>1 DEF Findings, Remembered
  <1>5. Clean' <=> CanonicalInOrder(files)
    BY <1>3, <1>4, IsCanonical
  <1>6. Findings'
    BY <1>1, <1>5, SameFiles DEF Findings
  <1>7. Remembered'
    BY <1>1 DEF Remembered, Listing, IsFile
  <1>8. Proceeding'
    BY <1>1 DEF Proceeding
  <1> QED
    BY <1>3, <1>6, <1>7, <1>8, StatementAudits

LEMMA CatalogAudits ==
  ASSUME setup.tool = "doctor", updates = 0, Audited, UNCHANGED world, Catalog
  PROVE  Audited'
  <1>1. /\ Excused /\ Findings /\ Remembered
        /\ UNCHANGED <<files, setup, memo>>
        /\ stage = "catalog" /\ stage' = "artifact"
    BY DEF Audited, world, Catalog, At, Then
  <1>2. /\ Find({<<"plugin_toolchain_lock", FromFile("catalog")>>})
        /\ Call("resolve", "none", "none")
    BY DEF Catalog
  <1>3. /\ FromFile("catalog") \notin {"FAIL", "INCONCLUSIVE"} <=> files["catalog"] \in Intact
        /\ FromFile("catalog") # "INCONCLUSIVE"
    BY DEF FromFile
  <1>4. Excused' /\ (Clean' <=> CanonicalInOrder(files) /\ files["catalog"] \in Intact)
    BY <1>1, <1>2, <1>3, FindsOne DEF Findings
  <1>5. Findings'
    BY <1>1, <1>4, SameFiles DEF Findings
  <1>6. Remembered'
    BY <1>1 DEF Remembered, Listing, IsFile
  <1>7. Resolving'
    BY <1>2, CallsCall DEF Resolving, Verifying
  <1>8. Proceeding'
    BY <1>1, <1>7 DEF Proceeding
  <1> QED
    BY <1>4, <1>5, <1>6, <1>8, StatementAudits

LEMMA ArtifactAudits ==
  ASSUME setup.tool = "doctor", updates = 0, Audited, UNCHANGED world, Artifact
  PROVE  Audited'
  <1>1. /\ Excused /\ Findings /\ Remembered /\ Resolving
        /\ UNCHANGED <<files, setup, call>>
        /\ stage = "artifact" /\ stage' = "okf" /\ call.step = 0
    BY DEF Audited, world, Artifact, At, Then, Returned, Proceeding
  <1>2. Clean <=> CanonicalInOrder(files) /\ files["catalog"] \in Intact
    BY <1>1 DEF Findings
  <1>3. /\ Excused' /\ (Clean' <=> Clean /\ Bundled)
        /\ \/ Bundled /\ memo' = [memo EXCEPT !.selection = files["manifest"]]
           \/ /\ ~Bundled
              /\ \E status \in {"FAIL", "INCONCLUSIVE"} :
                   /\ memo' = [memo EXCEPT !.unavailable = status]
                   /\ status = "INCONCLUSIVE" => Inaccessible
    <2>1. CASE call.result = "selected"
      <3>1. /\ Find({<<"rust_core_artifact", "PASS">>})
            /\ memo' = [memo EXCEPT !.selection = call.sel]
        BY <2>1 DEF Artifact
      <3>2. Bundled /\ call.sel = files["manifest"]
        BY <1>1, <2>1 DEF Resolving
      <3>3. Excused' /\ (Clean' <=> Clean)
        <4>1. "PASS" \notin {"FAIL", "INCONCLUSIVE"} /\ "PASS" # "INCONCLUSIVE"
          OBVIOUS
        <4> QED
          BY <1>1, <3>1, <4>1, FindsOne, Zenon
      <3>4. memo' = [memo EXCEPT !.selection = files["manifest"]]
        BY <3>1, <3>2
      <3> QED
        BY <3>2, <3>3, <3>4
    <2>2. CASE call.result # "selected"
      <3> DEFINE status == IF call.result = "unsupported" THEN "INCONCLUSIVE" ELSE "FAIL"
      <3>1. /\ Find({<<"rust_core_artifact", status>>})
            /\ memo' = [memo EXCEPT !.unavailable = status]
        BY <2>2 DEF Artifact
      <3>2. ~Bundled /\ status \in {"FAIL", "INCONCLUSIVE"}
            /\ (status = "INCONCLUSIVE" => Inaccessible)
        BY <1>1, <2>2 DEF Resolving
      <3> HIDE DEF status
      <3>3. Excused' /\ ~Clean'
        BY <1>1, <3>1, <3>2, FindsOne
      <3> QED
        BY <3>1, <3>2, <3>3
    <2> QED
      BY <2>1, <2>2
  <1>4. Findings'
    BY <1>1, <1>2, <1>3, SameFiles DEF Findings
  <1>5. Remembered'
    <2>1. CASE Bundled /\ memo' = [memo EXCEPT !.selection = files["manifest"]]
      <3>1. memo' = [listed |-> memo.listed, runtime |-> memo.runtime,
                     selection |-> files["manifest"], unavailable |-> memo.unavailable,
                     okf |-> memo.okf, receipt |-> memo.receipt,
                     document |-> memo.document, ask |-> memo.ask]
        BY <1>1, <2>1, Assigned
      <3> QED
        BY <1>1, <2>1, <3>1, SameFiles DEF Remembered, Listing, IsFile
    <2>2. ASSUME ~Bundled, NEW status \in {"FAIL", "INCONCLUSIVE"},
                 memo' = [memo EXCEPT !.unavailable = status],
                 status = "INCONCLUSIVE" => Inaccessible
          PROVE  Remembered'
      <3>1. memo' = [listed |-> memo.listed, runtime |-> memo.runtime,
                     selection |-> memo.selection, unavailable |-> status,
                     okf |-> memo.okf, receipt |-> memo.receipt,
                     document |-> memo.document, ask |-> memo.ask]
        BY <1>1, <2>2, Assigned
      <3> QED
        BY <1>1, <2>2, <3>1, SameFiles DEF Remembered, Listing, IsFile
    <2> QED
      BY <1>3, <2>1, <2>2
  <1>6. Proceeding'
    BY <1>1 DEF Proceeding
  <1> QED
    BY <1>3, <1>4, <1>5, <1>6, StatementAudits

LEMMA OkfAudits ==
  ASSUME setup.tool = "doctor", updates = 0, Audited, UNCHANGED world, Okf
  PROVE  Audited'
  <1>1. /\ Excused /\ Findings /\ Remembered /\ Proceeding
        /\ UNCHANGED <<files, setup, call>>
        /\ stage = "okf" /\ stage' = "okf_halves"
        /\ files["knowledge"] \notin {"mutating", "owner"}
    BY DEF Audited, world, Okf, At, Then
  <1> DEFINE status == CASE Report("knowledge") = "valid" -> "PASS"
                         [] Report("knowledge") = "partial" -> "INCONCLUSIVE"
                         [] OTHER -> "FAIL"
  <1>2. Find({<<"okf_core", status>>}) /\ memo' = [memo EXCEPT !.okf = Report("knowledge")]
    BY DEF Okf
  <1>3. /\ (status \notin {"FAIL", "INCONCLUSIVE"} <=> files["knowledge"] \in Intact)
        /\ status = "INCONCLUSIVE" => Inaccessible
    BY <1>1 DEF Report, Inaccessible, Intact
  <1> HIDE DEF status
  <1>4. /\ Excused'
        /\ Clean' <=> CanonicalInOrder(files) /\ files["catalog"] \in Intact /\ Bundled
                      /\ files["knowledge"] \in Intact
    BY <1>1, <1>2, <1>3, FindsOne DEF Findings
  <1>5. Findings'
    BY <1>1, <1>4, SameFiles DEF Findings
  <1>6. memo' = [listed |-> memo.listed, runtime |-> memo.runtime,
                 selection |-> memo.selection, unavailable |-> memo.unavailable,
                 okf |-> Report("knowledge"), receipt |-> memo.receipt,
                 document |-> memo.document, ask |-> memo.ask]
    BY <1>1, <1>2, Assigned
  <1>7. Remembered'
    BY <1>1, <1>6, SameFiles DEF Remembered, Listing, IsFile
  <1>8. Proceeding'
    BY <1>1 DEF Proceeding
  <1> QED
    BY <1>4, <1>5, <1>7, <1>8, StatementAudits

\* The Rust half of a check is called, or reported as not executed.
LEMMA RustHalfStarts ==
  ASSUME Remembered, Excused, UNCHANGED <<files, setup>>,
         stage \in {"okf_halves", "policy_again"},
         NEW target, NEW rust, NEW differential, NEW next,
         RustHalf(target, rust, differential, next)
  PROVE  \/ ~Bundled /\ Excused' /\ ~Clean' /\ stage' = next /\ call' = call
         \/ Bundled /\ Excused' /\ (Clean' <=> Clean) /\ stage' = rust /\ Invoking(target)'
  <1>1. \/ Bundled /\ memo.selection = files["manifest"] /\ memo.selection # "none"
        \/ /\ ~Bundled /\ memo.selection = "none"
           /\ \/ memo.unavailable = "FAIL"
              \/ memo.unavailable = "INCONCLUSIVE" /\ Inaccessible
    BY IsBundled DEF Remembered, Intact
  <1>2. CASE memo.selection = "none"
    <2>1. /\ Find(All({rust, differential}, memo.unavailable))
          /\ stage' = next /\ call' = call
      BY <1>2 DEF RustHalf, Then
    <2>2. Excused' /\ ~Clean'
      BY <1>1, <1>2, <2>1, FindsAll
    <2> QED
      BY <1>1, <1>2, <2>1, <2>2
  <1>3. CASE memo.selection # "none"
    <2>1. /\ Call("invoke", files["manifest"], target)
          /\ stage' = rust /\ found' = found /\ Bundled
      BY <1>1, <1>3 DEF RustHalf, Then
    <2>2. Excused' /\ (Clean' <=> Clean)
      BY <2>1, SameFiles DEF Excused, Has, Clean
    <2>3. Invoking(target)'
      BY <2>1, SameFiles, CallsCall DEF Invoking, Verifying
    <2> QED
      BY <2>1, <2>2, <2>3
  <1> QED
    BY <1>2, <1>3

\* Executed, it agrees with the Python half, unless it cannot be executed.
LEMMA RustChecks ==
  ASSUME Excused, UNCHANGED <<files, setup>>,
         NEW target \in {"knowledge", "policy"}, Invoking(target), call.step = 0,
         NEW rust, NEW differential, NEW next,
         RustChecked(rust, differential, Report(target), next)
  PROVE  Excused' /\ (Clean' <=> Clean /\ RuntimeInOrder(files) /\ Report(target) = "valid")
  <1> DEFINE status == CASE call.result = "integrity" -> "FAIL"
                         [] call.result = "invocation" -> "INCONCLUSIVE"
                         [] OTHER -> InvocationStatus
             report == IF call.result = "ran" THEN call.bytes ELSE "none"
             verdict == IF report = "none" THEN "INCONCLUSIVE"
                        ELSE IF report = Report(target) THEN "PASS" ELSE "FAIL"
  <1>1. Find({<<rust, status>>, <<differential, verdict>>})
    BY DEF RustChecked
  <1>2. RuntimeInOrder(files) <=> ~Flawed("rust_slow") /\ ~Flawed("rust_crashes")
    BY DEF Invoking, RuntimeInOrder, Bundled
  <1>3. Report(target) \in {"valid", "partial", "invalid"}
    BY DEF Report
  <1>4. \/ /\ status = "INCONCLUSIVE" /\ verdict = "INCONCLUSIVE" /\ Inaccessible
           /\ ~RuntimeInOrder(files)
        \/ /\ status = IF Report(target) = "valid" THEN "PASS" ELSE "FAIL"
           /\ verdict = "PASS" /\ RuntimeInOrder(files)
    <2>1. CASE call.result = "invocation" /\ Flawed("rust_slow")
      BY <1>2, <2>1 DEF Inaccessible
    <2>2. CASE call.result = "ran" /\ Flawed("rust_crashes") /\ call.bytes = "none"
      <3>1. InvocationStatus = "INCONCLUSIVE"
        BY <2>2 DEF InvocationStatus
      <3> QED
        BY <1>2, <2>2, <3>1 DEF Inaccessible
    <2>3. CASE /\ call.result = "ran" /\ ~Flawed("rust_slow") /\ ~Flawed("rust_crashes")
               /\ call.bytes = Report(target)
               /\ call.code = IF Report(target) = "valid" THEN 0 ELSE 1
      <3>1. InvocationStatus = IF Report(target) = "valid" THEN "PASS" ELSE "FAIL"
        BY <1>3, <2>3 DEF InvocationStatus
      <3> QED
        BY <1>2, <1>3, <2>3, <3>1
    <2> QED
      BY <2>1, <2>2, <2>3 DEF Invoking
  <1> HIDE DEF status, verdict
  <1> QED
    BY <1>1, <1>4, FindsTwo

LEMMA OkfHalvesAudits ==
  ASSUME setup.tool = "doctor", updates = 0, Audited, UNCHANGED world, OkfHalves
  PROVE  Audited'
  <1>1. /\ Excused /\ Findings /\ Remembered /\ Proceeding
        /\ UNCHANGED <<files, setup, memo>>
        /\ stage = "okf_halves" /\ call.step = 0
        /\ RustHalf("knowledge", "rust_okf_core", "okf_runtime_differential", "ask_matt")
    BY DEF Audited, world, OkfHalves, At, Proceeding
  <1>2. \/ ~Bundled /\ Excused' /\ ~Clean' /\ stage' = "ask_matt" /\ call' = call
        \/ /\ Bundled /\ Excused' /\ (Clean' <=> Clean) /\ stage' = "rust_okf_core"
           /\ Invoking("knowledge")'
    BY <1>1, RustHalfStarts
  <1>3. ~Bundled => ~Core
    BY DEF Core, RuntimeInOrder, Bundled
  <1>4. Findings'
    BY <1>1, <1>2, <1>3, SameFiles DEF Findings
  <1>5. Remembered'
    BY <1>1, <1>2, SameFiles DEF Remembered, Listing, IsFile
  <1>6. Proceeding'
    BY <1>1, <1>2 DEF Proceeding
  <1> QED
    BY <1>2, <1>4, <1>5, <1>6, StatementAudits

LEMMA OkfCheckedAudits ==
  ASSUME setup.tool = "doctor", updates = 0, Audited, UNCHANGED world,
         RustChecked("rust_okf_core", "okf_runtime_differential", memo.okf, "ask_matt")
  PROVE  Audited'
  <1>1. /\ Excused /\ Findings /\ Remembered /\ Invoking("knowledge")
        /\ UNCHANGED <<files, setup, memo, call>> /\ memo.okf = Report("knowledge")
        /\ stage = "rust_okf_core" /\ stage' = "ask_matt" /\ call.step = 0
        /\ files["knowledge"] \notin {"mutating", "owner"}
    BY DEF Audited, world, RustChecked, At, Then, Returned, Proceeding, Remembered
  <1>2. /\ Excused'
        /\ Clean' <=> Clean /\ RuntimeInOrder(files) /\ Report("knowledge") = "valid"
    BY <1>1, RustChecks
  <1>3. Report("knowledge") = "valid" <=> files["knowledge"] \in Intact
    BY <1>1 DEF Report, Intact
  <1>4. RuntimeInOrder(files) => Bundled
    BY DEF RuntimeInOrder, Bundled
  <1>5. Clean' <=> Core
    BY <1>1, <1>2, <1>3, <1>4 DEF Findings, Core
  <1>6. Findings'
    BY <1>1, <1>5, SameFiles DEF Findings
  <1>7. Remembered'
    BY <1>1, SameFiles DEF Remembered, Listing, IsFile
  <1>8. Proceeding'
    BY <1>1 DEF Proceeding
  <1> QED
    BY <1>2, <1>6, <1>7, <1>8, StatementAudits

\* What no statement catches is a fault that nothing in order has.
LEMMA CrashAudits ==
  ASSUME setup.tool = "doctor", updates = 0, Audited, UNCHANGED world, Crash
  PROVE  Audited'
  <1>1. /\ Excused /\ Remembered /\ Proceeding /\ Uncaught
        /\ UNCHANGED <<files, setup, call, memo, found>>
        /\ stage' = "done" /\ exit' = 1
    BY DEF Audited, world, Crash, Traceback
  <1>2. InOrder(files) =>
          /\ Bundled /\ Asked /\ Legible
          /\ files["plugin_json"] \in Intact /\ files["catalog"] \in Intact
          /\ files["policy"] \in {"v1", "v2", "missing", "odd"}
    BY DEF InOrder, CanonicalInOrder, RepositoryInOrder, RuntimeInOrder, Bundled, Asked,
           Legible, IsFile
  <1>3. ~InOrder(files)
    <2>1. SUFFICES ASSUME InOrder(files) PROVE FALSE
      OBVIOUS
    <2>2. stage = "artifact" /\ Returned("resolve") => call.result # "garbled"
      BY <1>1, <1>2, <2>1 DEF Proceeding, Resolving, Returned
    <2>3. stage = "owner" => memo.document # "owner"
      BY <1>1, <1>2, <2>1 DEF Remembered, Listing, IsFile
    <2> QED
      BY <1>1, <1>2, <2>1, <2>2, <2>3, IsAsked DEF Uncaught, Legible, Intact
  <1>4. Findings'
    BY <1>1, <1>3, SameFiles DEF Findings
  <1>5. Excused'
    BY <1>1, SameFiles DEF Excused, Has
  <1>6. Remembered'
    BY <1>1 DEF Remembered, Listing
  <1>7. Proceeding'
    <2>1. call.step = 0
      BY <1>1 DEF Uncaught, Proceeding, Returned
    <2> QED
      BY <1>1, <2>1 DEF Proceeding
  <1> QED
    BY <1>4, <1>5, <1>6, <1>7, StatementAudits

LEMMA RustSupported ==
  ASSUME setup.tool = "doctor", updates = 0, Audited PROVE ~RustUnsupported
  BY DEF Audited, RustUnsupported, Returned, Proceeding, Invoking

LEMMA AskMattAudits ==
  ASSUME setup.tool = "doctor", updates = 0, Audited, UNCHANGED world, AskMatt
  PROVE  Audited'
  <1>1. /\ Excused /\ Findings /\ Remembered /\ Proceeding
        /\ UNCHANGED <<files, setup, call>>
        /\ stage = "ask_matt" /\ stage' = "policy"
    BY DEF Audited, world, AskMatt, At, Then
  <1> DEFINE parsed == files["ask_lock"] \in Intact /\ files["ask_adapter"] \in Intact
             installed == files["ask_installed"]
             status == IF installed \in {"missing", "odd"} THEN "INCONCLUSIVE"
                       ELSE IF installed = files["ask_lock"] THEN "PASS" ELSE "FAIL"
  <1>2. Excused' /\ (Clean' <=> Clean /\ Asked)
    <2>1. CASE ~parsed
      <3>1. Find({<<"ask_matt_source_lock", "FAIL">>})
        BY <2>1 DEF AskMatt
      <3>2. ~Asked
        BY <2>1, IsAsked
      <3>3. Excused' /\ ~Clean'
        <4>1. "FAIL" \in {"FAIL", "INCONCLUSIVE"} /\ "FAIL" # "INCONCLUSIVE"
          OBVIOUS
        <4> QED
          BY <1>1, <3>1, <4>1, FindsOne, Zenon
      <3> QED
        BY <3>2, <3>3
    <2>2. CASE parsed /\ files["ask_lock"] # files["ask_adapter"]
      <3>1. Find({<<"ask_matt_adapter_lock", "FAIL">>,
                  <<"ask_matt_installed_source", status>>})
        BY <2>2 DEF AskMatt, IsFile
      <3>2. ~Asked
        BY <2>2, IsAsked
      <3> HIDE DEF status
      <3>3. Excused' /\ ~Clean'
        <4>1. "FAIL" \in {"FAIL", status} /\ "FAIL" \in {"FAIL", "INCONCLUSIVE"}
          OBVIOUS
        <4> QED
          BY <1>1, <3>1, <4>1, FindsTwo, Zenon
      <3> QED
        BY <3>2, <3>3
    <2>3. CASE parsed /\ files["ask_lock"] = files["ask_adapter"]
      <3>1. Find({<<"ask_matt_adapter_lock", "PASS">>,
                  <<"ask_matt_installed_source", status>>})
        BY <2>3 DEF AskMatt, IsFile
      <3>2. /\ status \notin {"FAIL", "INCONCLUSIVE"} <=> Asked
            /\ status = "INCONCLUSIVE" => Inaccessible
        BY <2>3, IsAsked DEF Intact, Inaccessible
      <3> HIDE DEF status
      <3>3. Clean' <=> Clean /\ Asked
        <4>1. "PASS" \notin {"FAIL", "INCONCLUSIVE"}
          OBVIOUS
        <4>2. Clean' <=> /\ Clean /\ "PASS" \notin {"FAIL", "INCONCLUSIVE"}
                         /\ status \notin {"FAIL", "INCONCLUSIVE"}
          BY <3>1, FindsTwo, Zenon
        <4> QED
          BY <3>2, <4>1, <4>2
      <3>4. "INCONCLUSIVE" \in {"PASS", status} => Inaccessible
        BY <3>2
      <3>5. Excused'
        BY <1>1, <3>1, <3>4, FindsTwo, Zenon
      <3> QED
        BY <3>3, <3>5
    <2> QED
      BY <2>1, <2>2, <2>3
  <1>3. Findings'
    BY <1>1, <1>2, SameFiles DEF Findings
  <1>4. Remembered'
    <2>1. \/ memo' = memo
          \/ memo' = [listed |-> memo.listed, runtime |-> memo.runtime,
                      selection |-> memo.selection, unavailable |-> memo.unavailable,
                      okf |-> memo.okf, receipt |-> memo.receipt,
                      document |-> memo.document, ask |-> files["ask_lock"]]
      BY <1>1, Assigned DEF AskMatt
    <2> QED
      BY <1>1, <2>1, SameFiles DEF Remembered, Listing, IsFile
  <1>5. Proceeding'
    BY <1>1 DEF Proceeding
  <1> QED
    BY <1>2, <1>3, <1>4, <1>5, StatementAudits

LEMMA NoPolicyAudits ==
  ASSUME setup.tool = "doctor", updates = 0, Audited, UNCHANGED world, NoPolicy
  PROVE  Audited'
  <1>1. /\ Excused /\ Findings /\ Remembered /\ Proceeding
        /\ UNCHANGED <<files, setup, call, memo>>
        /\ stage = "policy" /\ stage' = "git" /\ ~IsFile("policy")
        /\ Find(All({"repository_policy", "rust_repository_policy"}, "WARN"))
    BY DEF Audited, world, NoPolicy, At, Then
  <1>2. Excused' /\ (Clean' <=> Clean)
    BY <1>1, FindsAll
  <1>3. Findings'
    BY <1>1, <1>2, SameFiles DEF Findings, Ruled
  <1>4. Remembered'
    BY <1>1, SameFiles DEF Remembered, IsFile, Listing
  <1>5. Proceeding'
    BY <1>1 DEF Proceeding
  <1> QED
    BY <1>2, <1>3, <1>4, <1>5, StatementAudits

LEMMA IsInOrder ==
  ASSUME setup.tool = "doctor"
  PROVE  InOrder(files) <=> /\ Core /\ Asked /\ Legible
                            /\ files["policy"] \in {"v1", "v2", "missing", "odd"}
  <1>1. InOrder(files) <=> /\ RuntimeInOrder(files) /\ CanonicalInOrder(files)
                           /\ RepositoryInOrder(files)
    BY DEF InOrder
  <1> QED
    BY <1>1 DEF RepositoryInOrder, Core, Asked, Legible, IsFile

LEMMA PolicyAudits ==
  ASSUME setup.tool = "doctor", updates = 0, Audited, UNCHANGED world, Policy
  PROVE  Audited'
  <1> DEFINE status == IF Report("policy") = "valid" THEN "PASS" ELSE "FAIL"
  <1>1. /\ Excused /\ Findings /\ Remembered /\ Proceeding
        /\ UNCHANGED <<files, setup, call>>
        /\ stage = "policy" /\ stage' = "policy_again" /\ IsFile("policy")
        /\ memo' = [memo EXCEPT !.receipt = Report("policy")]
        /\ Find({<<"repository_policy", status>>})
    BY DEF Audited, world, Policy, At, Then
  <1>2. /\ status \notin {"FAIL", "INCONCLUSIVE"} <=> Ruled
        /\ status # "INCONCLUSIVE"
    BY <1>1 DEF Ruled
  <1> HIDE DEF status
  <1>3. Excused' /\ (Clean' <=> Clean /\ Ruled)
    BY <1>1, <1>2, FindsOne
  <1>4. Findings'
    BY <1>1, <1>3, SameFiles DEF Findings
  <1>5. memo' = [listed |-> memo.listed, runtime |-> memo.runtime,
                 selection |-> memo.selection, unavailable |-> memo.unavailable,
                 okf |-> memo.okf, receipt |-> Report("policy"),
                 document |-> memo.document, ask |-> memo.ask]
    BY <1>1, Assigned
  <1>6. Remembered'
    BY <1>1, <1>5, SameFiles DEF Remembered, Listing, IsFile
  <1>7. Proceeding'
    BY <1>1 DEF Proceeding
  <1> QED
    BY <1>3, <1>4, <1>6, <1>7, StatementAudits

LEMMA PolicyAgainAudits ==
  ASSUME setup.tool = "doctor", updates = 0, Audited, UNCHANGED world, PolicyAgain
  PROVE  Audited'
  <1> DEFINE document == IF files["policy"] \in {"missing", "odd", "unreadable"}
                         THEN "none" ELSE files["policy"]
  <1>1. /\ Excused /\ Findings /\ Remembered /\ Proceeding
        /\ UNCHANGED <<files, setup>>
        /\ stage = "policy_again" /\ call.step = 0 /\ IsFile("policy")
        /\ memo' = [memo EXCEPT !.document = document]
        /\ RustHalf("policy", "rust_repository_policy", "policy_runtime_differential",
                    "git")
    BY DEF Audited, world, PolicyAgain, At, Proceeding, Remembered
  <1>2. \/ ~Bundled /\ Excused' /\ ~Clean' /\ stage' = "git" /\ call' = call
        \/ /\ Bundled /\ Excused' /\ (Clean' <=> Clean)
           /\ stage' = "rust_repository_policy" /\ Invoking("policy")'
    BY <1>1, RustHalfStarts
  <1>3. ~Bundled => ~Core
    BY DEF Core, RuntimeInOrder, Bundled
  <1>4. Findings'
    BY <1>1, <1>2, <1>3, SameFiles DEF Findings
  <1>5. memo' = [listed |-> memo.listed, runtime |-> memo.runtime,
                 selection |-> memo.selection, unavailable |-> memo.unavailable,
                 okf |-> memo.okf, receipt |-> memo.receipt,
                 document |-> document, ask |-> memo.ask]
    BY <1>1, Assigned
  <1>6. Remembered'
    BY <1>1, <1>2, <1>5, SameFiles DEF Remembered, IsFile, Listing
  <1>7. Proceeding'
    BY <1>1, <1>2 DEF Proceeding
  <1> QED
    BY <1>2, <1>4, <1>6, <1>7, StatementAudits

LEMMA PolicyCheckedAudits ==
  ASSUME setup.tool = "doctor", updates = 0, Audited, UNCHANGED world,
         RustChecked("rust_repository_policy", "policy_runtime_differential",
                     memo.receipt, "git")
  PROVE  Audited'
  <1>1. /\ Excused /\ Findings /\ Remembered /\ Invoking("policy")
        /\ UNCHANGED <<files, setup, memo, call>> /\ memo.receipt = Report("policy")
        /\ stage = "rust_repository_policy" /\ stage' = "git" /\ call.step = 0
        /\ IsFile("policy")
    BY DEF Audited, world, RustChecked, At, Then, Returned, Proceeding, Remembered
  <1>2. /\ Excused'
        /\ Clean' <=> Clean /\ RuntimeInOrder(files) /\ Report("policy") = "valid"
    BY <1>1, RustChecks
  <1>3. Clean' <=> Core /\ Asked /\ Ruled
    BY <1>1, <1>2 DEF Findings, Core, Ruled
  <1>4. Findings'
    BY <1>1, <1>3, SameFiles DEF Findings
  <1>5. Remembered'
    BY <1>1, SameFiles DEF Remembered, Listing, IsFile
  <1>6. Proceeding'
    BY <1>1 DEF Proceeding
  <1> QED
    BY <1>2, <1>4, <1>5, <1>6, StatementAudits

LEMMA GitAudits ==
  ASSUME setup.tool = "doctor", updates = 0, Audited, UNCHANGED world, Git
  PROVE  Audited'
  <1> DEFINE status == IF files["git"] \in Intact /\ ~Flawed("git_slow")
                       THEN "PASS" ELSE "WARN"
  <1>1. /\ Excused /\ Findings /\ Remembered /\ Proceeding
        /\ UNCHANGED <<files, setup, call, memo>>
        /\ stage = "git" /\ stage' = "setup"
        /\ Find({<<"git_repository", status>>})
    BY DEF Audited, world, Git, At, Then
  <1>2. status \notin {"FAIL", "INCONCLUSIVE"}
    OBVIOUS
  <1> HIDE DEF status
  <1>3. Excused' /\ (Clean' <=> Clean)
    BY <1>1, <1>2, FindsOne
  <1>4. Findings'
    BY <1>1, <1>3, SameFiles DEF Findings
  <1>5. Remembered'
    BY <1>1 DEF Remembered, Listing, IsFile
  <1>6. Proceeding'
    BY <1>1 DEF Proceeding
  <1> QED
    BY <1>3, <1>4, <1>5, <1>6, StatementAudits

LEMMA SetupAudits ==
  ASSUME setup.tool = "doctor", updates = 0, Audited, UNCHANGED world, Setup
  PROVE  Audited'
  <1>1. /\ Excused /\ Findings /\ Remembered /\ Proceeding
        /\ UNCHANGED <<files, setup, call, memo>>
        /\ stage = "setup" /\ stage' = "owner" /\ Legible
    BY DEF Audited, world, Setup, At, Then, Uncaught, Legible
  <1>2. memo.document = "mutating" <=> files["policy"] = "mutating"
    BY <1>1 DEF Remembered, Listing, IsFile
  <1>3. \E status : /\ Find({<<"matt_setup", status>>})
                    /\ status \notin {"FAIL", "INCONCLUSIVE"} <=> files["policy"] # "mutating"
    <2> DEFINE ready == /\ IsFile("setup_docs")
                        /\ files["setup_receipt"] \in Intact
                        /\ files["setup_receipt"] = memo.ask
               mutating == memo.document = "mutating"
               status == CASE ready /\ ~mutating -> "PASS"
                           [] ready /\ mutating -> "INCONCLUSIVE"
                           [] ~ready /\ mutating -> "FAIL"
                           [] OTHER -> "WARN"
    <2>1. Find({<<"matt_setup", status>>})
      BY DEF Setup
    <2> HIDE DEF ready
    <2>2. status \notin {"FAIL", "INCONCLUSIVE"} <=> ~mutating
      OBVIOUS
    <2> HIDE DEF status
    <2> QED
      BY <1>2, <2>1, <2>2
  <1>4. PICK status : /\ Find({<<"matt_setup", status>>})
                      /\ status \notin {"FAIL", "INCONCLUSIVE"} <=> files["policy"] # "mutating"
    BY <1>3
  <1>5. files["policy"] = "mutating" => Inaccessible
    BY DEF Inaccessible
  <1>6. Excused' /\ (Clean' <=> Clean /\ files["policy"] # "mutating")
    BY <1>1, <1>4, <1>5, FindsOne
  <1>7. Findings'
    BY <1>1, <1>6, SameFiles DEF Findings
  <1>8. Remembered'
    BY <1>1 DEF Remembered, Listing, IsFile
  <1>9. Proceeding'
    BY <1>1 DEF Proceeding
  <1> QED
    BY <1>6, <1>7, <1>8, <1>9, StatementAudits

LEMMA OwnerAudits ==
  ASSUME setup.tool = "doctor", updates = 0, Audited, UNCHANGED world, Owner
  PROVE  Audited'
  <1>1. /\ Excused /\ Findings /\ Remembered /\ Proceeding
        /\ UNCHANGED <<files, setup, call, memo>>
        /\ stage = "owner" /\ stage' = "overall"
    BY DEF Audited, world, Owner, At, Then
  <1>2. memo.document = "owner" <=> files["policy"] = "owner"
    BY <1>1 DEF Remembered, Listing, IsFile
  <1>3. Excused' /\ (Clean' <=> Clean /\ files["policy"] # "owner")
    <2>1. CASE files["policy"] # "owner"
      <3>1. Find({})
        BY <1>2, <2>1 DEF Owner
      <3>2. (Clean' <=> Clean) /\ Excused'
        BY <1>1, <3>1, Adds, ExcusedAdds
      <3> QED
        BY <2>1, <3>2
    <2>2. CASE files["policy"] = "owner"
      <3> DEFINE findings ==
            {<<"owner_original_files", IF IsFile("owner_files") THEN "PASS" ELSE "FAIL">>,
             <<"owner_toolchain_lock", FromFile("owner_lock")>>}
            \cup All({"github_review_closeout", "trusted_code_review_attestation",
                      "llm_contract_ast_mapping"}, "INCONCLUSIVE")
      <3>1. Find(findings)
        BY <1>2, <2>2 DEF Owner
      <3>2. <<"github_review_closeout", "INCONCLUSIVE">> \in findings
        BY DEF All
      <3>3. \E f \in findings : f[2] = "INCONCLUSIVE"
        <4>1. <<"github_review_closeout", "INCONCLUSIVE">>[2] = "INCONCLUSIVE"
          OBVIOUS
        <4> QED
          BY <3>2, <4>1
      <3>4. Inaccessible
        BY <2>2 DEF Inaccessible
      <3> HIDE DEF findings
      <3> QED
        BY <1>1, <2>2, <3>1, <3>3, <3>4, Adds, ExcusedAdds
    <2> QED
      BY <2>1, <2>2
  <1>4. Clean' <=> InOrder(files)
    <2>1. Ruled /\ files["policy"] # "mutating" /\ files["policy"] # "owner" <=>
            files["policy"] \in {"v1", "v2", "missing", "odd"}
      BY DEF Ruled, Report, IsFile
    <2>2. Legible /\ (Clean <=> Core /\ Asked /\ Ruled /\ files["policy"] # "mutating")
      BY <1>1 DEF Findings
    <2> QED
      BY <1>3, <2>1, <2>2, IsInOrder
  <1>5. Findings'
    BY <1>1, <1>4, SameFiles DEF Findings
  <1>6. Remembered'
    BY <1>1 DEF Remembered, Listing, IsFile
  <1>7. Proceeding'
    BY <1>1 DEF Proceeding
  <1> QED
    BY <1>3, <1>5, <1>6, <1>7, StatementAudits

LEMMA OverallAudits ==
  ASSUME setup.tool = "doctor", updates = 0, Audited, UNCHANGED world, Overall
  PROVE  Audited'
  <1>1. /\ Excused /\ Findings /\ Remembered /\ Proceeding
        /\ UNCHANGED <<files, setup, call, memo, found>>
        /\ stage = "overall" /\ stage' = "done" /\ exit' = AuditExitCode
    BY DEF Audited, world, Overall
  <1>2. Clean <=> ~Has("FAIL") /\ ~Has("INCONCLUSIVE")
    BY DEF Clean, Has
  <1>3. AuditExitCode = 0 <=> Clean
    BY <1>2 DEF AuditExitCode
  <1>4. AuditExitCode = 2 => ~Has("FAIL") /\ Has("INCONCLUSIVE")
    BY DEF AuditExitCode
  <1>5. AuditExitCode = 2 => Inaccessible
    BY <1>1, <1>4 DEF Excused
  <1>6. Clean <=> InOrder(files)
    BY <1>1 DEF Findings
  <1>7. Findings'
    BY <1>1, <1>3, <1>5, <1>6, SameFiles DEF Findings
  <1>8. Excused'
    BY <1>1, SameFiles DEF Excused, Has
  <1>9. Remembered' /\ Proceeding'
    BY <1>1 DEF Remembered, Listing, IsFile, Proceeding
  <1> QED
    BY <1>7, <1>8, <1>9, StatementAudits

-----------------------------------------------------------------------------
(* The audit *)

LEMMA AuditAudits ==
  ASSUME IsCall, setup.tool = "doctor", updates = 0, Audited, UNCHANGED world, Audit
  PROVE  Audited'
  BY ProcedureAudits, PluginManifestAudits, ListSkillsAudits, NotLoadedAudits,
     LoadedAudits, PluginValidatedAudits, SkillValidatedAudits, CatalogAudits,
     ArtifactAudits, OkfAudits, OkfHalvesAudits, OkfCheckedAudits, RustSupported,
     CrashAudits, AskMattAudits, NoPolicyAudits, PolicyAudits,
     PolicyAgainAudits, PolicyCheckedAudits, GitAudits, SetupAudits, OwnerAudits,
     OverallAudits DEF Audit

LEMMA AuditedStart == ToolsInit => Audited
  <1> SUFFICES ASSUME ToolsInit, setup.tool = "doctor" PROVE Audited
    BY DEF Audited
  <1>1. /\ stage = FirstStage[setup.tool] /\ call = NoCall /\ found = {}
        /\ memo = NoMemo /\ setup \in Setups /\ files = setup.files
    BY DEF ToolsInit
  <1>2. stage = "plugin_manifest"
    BY <1>1 DEF FirstStage
  <1>3. files["knowledge"] \notin {"mutating", "owner"}
    BY <1>1, ToolsAssumption
  <1>4. Excused /\ Findings
    BY <1>1, <1>2 DEF Excused, Has, Findings, Clean
  <1>5. Remembered
    BY <1>1, <1>2 DEF Remembered, NoMemo
  <1>6. Proceeding
    BY <1>1, <1>2 DEF Proceeding, NoCall
  <1> QED
    BY <1>3, <1>4, <1>5, <1>6 DEF Audited

LEMMA AuditedNext == Verified /\ Audited /\ [ToolsNext]_toolVars => Audited'
  <1> SUFFICES ASSUME Verified, Audited, [ToolsNext]_toolVars PROVE Audited'
    OBVIOUS
  <1>1. CASE Tool /\ UNCHANGED world
    <2>1. UNCHANGED <<setup, updates>>
      BY <1>1 DEF world
    <2>2. CASE setup.tool = "doctor" /\ updates = 0
      BY <1>1, <2>2, AuditAudits DEF Tool, Verified
    <2> QED
      BY <2>1, <2>2 DEF Audited
  <1>2. CASE Replace
    <2>1. updates' = updates + 1 /\ updates \in Nat
      BY <1>2 DEF Replace, Verified
    <2> QED
      BY <2>1 DEF Audited
  <1>3. CASE UNCHANGED tool
    <2>1. /\ UNCHANGED <<setup, files, updates, stage, call, exit>>
          /\ UNCHANGED <<memo, found>>
      BY <1>3 DEF tool, doctor, frame, world
    <2>2. CASE setup.tool = "doctor" /\ updates = 0
      <3>1. Excused' /\ Findings'
        BY <2>1, <2>2, SameFiles DEF Audited, Excused, Has, Findings, Clean
      <3>2. Remembered'
        BY <2>1, <2>2, SameFiles DEF Audited, Remembered, Listing, IsFile
      <3>3. Proceeding'
        BY <2>1, <2>2, SameFiles
        DEF Audited, Proceeding, Loading, Running, Resolving, Invoking, Verifying, Listing, IsFile
      <3> QED
        BY <2>1, <2>2, <3>1, <3>2, <3>3 DEF Audited
    <2> QED
      BY <2>1, <2>2 DEF Audited
  <1> QED
    BY <1>1, <1>2, <1>3 DEF ToolsNext, toolVars

\* Of files nobody replaces the exit code of the audit tells exactly whether
\* everything is in order, and 2 that something was out of reach: none of the
\* findings is lost, and none is made up, between the reads, the two halves of
\* each check and the exit (audit and main of doctor.py).
THEOREM ExitTold == ToolsSpec => []ExitTruthful
  <1>1. Audited => ExitTruthful
    BY DEF Audited, Findings, ExitTruthful
  <1>2. ToolsSpec => []Audited
    BY AuditedStart, AuditedNext, VerifiedAlways, PTL DEF ToolsSpec
  <1> QED
    BY <1>1, <1>2, PTL

-----------------------------------------------------------------------------
(* The dispatch while the bundle is updated *)

\* An update of the bundle replaces files by those of a release.
Updating ==
  \A s \in Setups : s.tool = "dispatch" =>
    s.limit <= 3 /\ s.changes \subseteq RuntimeFiles \X Intact

\* The files that are not of release v, and those the pass has read.
Stale(v) == {x \in RuntimeFiles : files[x] # v}
Checked == {RuntimeReads[k] : k \in 1..(call.step - 1)}

\* What an exit with zero needs beside the files of the bundle.
Usable ==
  ~Flawed("rust_slow") /\ ~Flawed("rust_crashes") /\ files["knowledge"] \in Intact

\* What it costs, after n replacements, to get a pass over files that are never
\* in order: a file that was read must go stale, and one that was stale must be
\* put right before it is read.
Priced(v, n) ==
  /\ v \in Intact
  /\ ~witnessed /\ Usable =>
       /\ updates >= n
       /\ Stale(v) \cap Checked # {} => updates >= n + 1
       /\ Stale(v) \subseteq Checked => updates >= n + 2
Passed(v) == v \in Intact /\ (~witnessed /\ Usable => updates >= 2)

Passing ==
  /\ call.step \in 0..16
  /\ call = NoCall \/ (call.proc \in {"resolve", "invoke"} /\ call.target = "knowledge")
  /\ call.proc = "resolve" =>
       /\ call.step \in 0..15
       /\ call.step > 1 => Priced(call.sel, 0)
       /\ call.step = 0 /\ call.result = "selected" => Passed(call.sel)
  /\ call.proc = "invoke" =>
       /\ call.step # 0 => Passed(call.want)
       /\ call.step > 1 /\ call.sel = call.want => Priced(call.sel, 2)
       /\ call.step > 1 => call.sel \in Intact
       /\ call.step > 2 => files["binary"] \in Intact
       /\ call.step = 16 => call.sel = call.want
  /\ call.result = "ran" /\ call.bytes # "none" /\ call.code = 0 => witnessed

Stored ==
  /\ setup \in Setups /\ updates \in Nat /\ updates <= setup.limit
  /\ witnessed \in BOOLEAN
  /\ files = [x \in DOMAIN files |-> files[x]]
  /\ RuntimeFiles \cup {"knowledge"} \subseteq DOMAIN files
  /\ files["knowledge"] \notin {"mutating", "owner"}
  /\ ~witnessed => ~InOrder(files)

Dispatched ==
  setup.tool = "dispatch" =>
    Stored /\ stage \in {"dispatch", "done"} /\ Passing /\ (exit = 0 => witnessed)

LEMMA RuntimeNames ==
  /\ RuntimeFiles = {"manifest", "binary", "flake_lock", "runtime_lock",
       "validator_lock", "cargo_lock", "source", "runner", "builder", "catalog",
       "uv_lock", "payload"}
  /\ RuntimeFiles = {RuntimeReads[k] : k \in 1..15}
  BY Order DEF RuntimeFiles, RuntimeReads

LEMMA StaleOne ==
  ASSUME Stored, setup.tool = "dispatch", ~witnessed, Usable, NEW v \in Intact
  PROVE  Stale(v) # {}
  <1>1. ~InOrder(files)
    BY DEF Stored
  <1>2. InOrder(files) <=> RuntimeInOrder(files) /\ files["knowledge"] \in Intact
    BY DEF InOrder
  <1>3. ~OneRelease(RuntimeFiles, files)
    BY <1>1, <1>2 DEF RuntimeInOrder, Usable
  <1> QED
    BY <1>3 DEF OneRelease, Stale

\* The same of the next state.
Obsolete ==
  Stored /\ setup.tool = "dispatch" /\ ~witnessed /\ Usable
    => \A v \in Intact : Stale(v) # {}
LEMMA StaleNow == Obsolete
  BY StaleOne DEF Obsolete
LEMMA StaleAfter == Obsolete'
  BY StaleNow, PTL

LEMMA DispatchedStart == ToolsInit => Dispatched
  <1> SUFFICES ASSUME ToolsInit, setup.tool = "dispatch" PROVE Dispatched
    BY DEF Dispatched
  <1>1. /\ stage = FirstStage[setup.tool] /\ call = NoCall /\ exit = NoExit
        /\ setup \in Setups /\ files = setup.files /\ updates = 0
        /\ witnessed = InOrder(files)
    BY DEF ToolsInit
  <1>2. stage = "dispatch"
    BY <1>1 DEF FirstStage
  <1>3. Stored
    <2>1. witnessed \in BOOLEAN
      BY <1>1 DEF InOrder, RuntimeInOrder, OneRelease
    <2>2. /\ files = [x \in DOMAIN files |-> files[x]]
          /\ RuntimeFiles \cup {"knowledge"} \subseteq DOMAIN files
          /\ files["knowledge"] \notin {"mutating", "owner"} /\ setup.limit \in Nat
      BY <1>1, ToolsAssumption DEF Everything
    <2> QED
      BY <1>1, <2>1, <2>2 DEF Stored
  <1>4. Passing
    BY <1>1 DEF Passing, NoCall
  <1> QED
    BY <1>1, <1>2, <1>3, <1>4 DEF Dispatched, NoExit

\* A replacement raises the price before it can be paid.
LEMMA ReplacePrices ==
  ASSUME Stored, setup.tool = "dispatch", setup' = setup, Stored',
         UNCHANGED call, updates' = updates + 1,
         NEW x \in RuntimeFiles, NEW w \in Intact, files' = [files EXCEPT ![x] = w],
         ~witnessed' => ~witnessed,
         NEW v, NEW n \in Nat
  PROVE  (Priced(v, n) => Priced(v, n)') /\ (Passed(v) => Passed(v)')
  <1>1. \A y \in DOMAIN files : y # x => files'[y] = files[y]
    BY DEF Stored
  <1>2. x # "knowledge"
    BY RuntimeNames
  <1>3. Usable' = Usable
    BY <1>1, <1>2 DEF Usable, Flawed, Stored
  <1>4. Checked' = Checked
    BY DEF Checked
  <1>5. \A y \in RuntimeFiles : y # x => (y \in Stale(v)' <=> y \in Stale(v))
    BY <1>1 DEF Stale, Stored
  <1>6. updates \in Nat
    BY DEF Stored
  <1>7. ASSUME Passed(v) PROVE Passed(v)'
    BY <1>3, <1>6, <1>7 DEF Passed
  <1>8. ASSUME Priced(v, n) PROVE Priced(v, n)'
    <2> SUFFICES ASSUME ~witnessed', Usable'
                 PROVE  /\ updates' >= n /\ updates' >= n + 1
                        /\ (Stale(v) \subseteq Checked)' => updates' >= n + 2
      BY <1>8 DEF Priced
    <2>1. /\ v \in Intact /\ updates >= n
          /\ Stale(v) \cap Checked # {} => updates >= n + 1
      BY <1>3, <1>8 DEF Priced
    <2>2. updates' >= n /\ updates' >= n + 1
      BY <1>6, <2>1
    <2>3. ASSUME (Stale(v) \subseteq Checked)', Stale(v) \cap Checked = {}
          PROVE  FALSE
      <3>1. PICK z \in Stale(v) : TRUE
        BY <1>3, <2>1, StaleOne
      <3>2. PICK y \in Stale(v)' : TRUE
        BY <2>1, StaleAfter DEF Obsolete
      <3>3. z \in RuntimeFiles /\ z \notin Checked
        BY <2>3, <3>1 DEF Stale
      <3>4. y \in RuntimeFiles /\ y \in Checked /\ y \notin Stale(v)
        BY <1>4, <2>3, <3>2 DEF Stale
      <3>5. y = x
        BY <1>5, <3>2, <3>4
      <3>6. z \in Stale(v)'
        BY <1>5, <3>1, <3>3, <3>4, <3>5
      <3> QED
        BY <1>4, <2>3, <3>3, <3>6
    <2> QED
      BY <1>6, <2>1, <2>2, <2>3
  <1> QED
    BY <1>7, <1>8

LEMMA ReplaceDispatched ==
  ASSUME Updating, Dispatched, Replace
  PROVE  Dispatched'
  <1>1. /\ setup' = setup /\ updates < setup.limit /\ updates' = updates + 1
        /\ UNCHANGED <<stage, call, exit>>
        /\ witnessed' = (witnessed \/ InOrder(files'))
    BY DEF Replace, frame
  <1> SUFFICES ASSUME setup.tool = "dispatch" PROVE Dispatched'
    BY <1>1 DEF Dispatched
  <1>2. /\ Stored /\ Passing /\ stage \in {"dispatch", "done"}
        /\ exit = 0 => witnessed
    BY DEF Dispatched
  <1>3. PICK change \in setup.changes : files' = [files EXCEPT ![change[1]] = change[2]]
    BY DEF Replace
  <1>4. setup.changes \subseteq RuntimeFiles \X Intact
    BY <1>2 DEF Updating, Stored
  <1>5. PICK x \in RuntimeFiles, w \in Intact : files' = [files EXCEPT ![x] = w]
    BY <1>3, <1>4
  <1>6. setup.limit \in Nat /\ updates \in Nat
    BY <1>2, ToolsAssumption DEF Stored
  <1>7. InOrder(files') = InOrder(files)'
    BY <1>1 DEF InOrder, RuntimeInOrder, CanonicalInOrder, RepositoryInOrder, OneRelease, Flawed
  <1>8. Stored'
    <2>1. files' = [y \in DOMAIN files' |-> files'[y]] /\ DOMAIN files' = DOMAIN files
      BY <1>2, <1>5 DEF Stored
    <2>2. files'["knowledge"] = files["knowledge"]
      BY <1>2, <1>5, RuntimeNames DEF Stored
    <2>3. InOrder(files') \in BOOLEAN
      BY DEF InOrder, RuntimeInOrder, OneRelease
    <2>4. witnessed' \in BOOLEAN /\ (~witnessed' => ~InOrder(files)')
      BY <1>1, <1>2, <1>7, <2>3 DEF Stored
    <2>5. updates' \in Nat /\ updates' <= setup'.limit
      BY <1>1, <1>6
    <2> QED
      BY <1>1, <1>2, <2>1, <2>2, <2>4, <2>5 DEF Stored
  <1>9. ~witnessed' => ~witnessed
    BY <1>1, <1>2 DEF Stored
  <1>10. \A v : \A n \in Nat : (Priced(v, n) => Priced(v, n)') /\ (Passed(v) => Passed(v)')
    BY <1>1, <1>2, <1>5, <1>8, <1>9, ReplacePrices
  <1>11. files["binary"] \in Intact => files'["binary"] \in Intact
    BY <1>2, <1>5, RuntimeNames DEF Stored
  <1>12. Passing'
    <2>1. Priced(call.sel, 0) => Priced(call.sel, 0)'
      <3>1. PICK v : v = call.sel
        OBVIOUS
      <3>2. Priced(v, 0) => Priced(v, 0)'
        BY <1>10
      <3> QED
        BY <1>1, <3>1, <3>2 DEF Priced, Stale, Checked, Usable, Flawed
    <2>2. Priced(call.sel, 2) => Priced(call.sel, 2)'
      <3>1. PICK v : v = call.sel
        OBVIOUS
      <3>2. Priced(v, 2) => Priced(v, 2)'
        BY <1>10
      <3> QED
        BY <1>1, <3>1, <3>2 DEF Priced, Stale, Checked, Usable, Flawed
    <2>3. Passed(call.sel) => Passed(call.sel)'
      <3>1. PICK v : v = call.sel
        OBVIOUS
      <3>2. Passed(v) => Passed(v)'
        BY <1>10
      <3> QED
        BY <1>1, <3>1, <3>2 DEF Passed, Usable, Flawed
    <2>4. Passed(call.want) => Passed(call.want)'
      <3>1. PICK v : v = call.want
        OBVIOUS
      <3>2. Passed(v) => Passed(v)'
        BY <1>10
      <3> QED
        BY <1>1, <3>1, <3>2 DEF Passed, Usable, Flawed
    <2>5. witnessed => witnessed'
      BY <1>8, <1>9 DEF Stored
    <2> QED
      BY <1>1, <1>2, <1>11, <2>1, <2>2, <2>3, <2>4, <2>5 DEF Passing
  <1> QED
    BY <1>1, <1>2, <1>8, <1>9, <1>12 DEF Dispatched, Stored

\* A read of a file that is of release v costs nothing.
LEMMA ReadPrices ==
  ASSUME UNCHANGED <<world, updates>>, call.step \in 1..15, call'.step = call.step + 1,
         NEW v, NEW n \in Nat, files[RuntimeReads[call.step]] = v
  PROVE  Priced(v, n) => Priced(v, n)'
  <1>1. Checked' = Checked \cup {RuntimeReads[call.step]}
    <2>1. 1..(call'.step - 1) = 1..(call.step - 1) \cup {call.step}
      OBVIOUS
    <2> QED
      BY <2>1 DEF Checked
  <1>2. Stale(v)' = Stale(v) /\ Usable' = Usable
    BY DEF world, Stale, Usable, Flawed
  <1>3. RuntimeReads[call.step] \notin Stale(v)
    BY DEF Stale
  <1> QED
    BY <1>1, <1>2, <1>3 DEF Priced, world

\* The first read chooses the release.
LEMMA FirstPrices ==
  ASSUME Stored, setup.tool = "dispatch", UNCHANGED <<world, updates>>,
         call.step = 1, call'.step = 2, NEW v \in Intact, NEW n \in Nat,
         files["manifest"] = v, ~witnessed /\ Usable => updates >= n
  PROVE  Priced(v, n)'
  <1>1. Checked' = {"manifest"}
    BY DEF Checked, RuntimeReads
  <1>2. Stale(v)' = Stale(v) /\ Usable' = Usable
    BY DEF world, Stale, Usable, Flawed
  <1>3. "manifest" \notin Stale(v)
    BY DEF Stale
  <1>4. ~witnessed /\ Usable => Stale(v) # {}
    BY StaleOne
  <1> QED
    BY <1>1, <1>2, <1>3, <1>4 DEF Priced, world

\* A pass over all files has paid in full.
LEMMA Paid ==
  ASSUME call.step = 16, NEW v, NEW n \in Nat, Priced(v, n)
  PROVE  ~witnessed /\ Usable => updates >= n + 2
  <1>1. Checked = RuntimeFiles
    BY RuntimeNames DEF Checked
  <1> QED
    BY <1>1 DEF Priced, Stale

LEMMA LastPaid ==
  ASSUME call.step = 15, NEW v, NEW n \in Nat, Priced(v, n), files["flake_lock"] = v
  PROVE  ~witnessed /\ Usable => updates >= n + 2
  <1>1. Stale(v) \subseteq Checked
    <2>1. RuntimeReads[15] = "flake_lock" /\ 1..15 = 1..14 \cup {15}
      BY DEF RuntimeReads
    <2>2. RuntimeFiles = Checked \cup {"flake_lock"}
      BY <2>1, RuntimeNames DEF Checked
    <2> QED
      BY <2>2 DEF Stale
  <1> QED
    BY <1>1 DEF Priced

\* What is left to show of a step of the dispatch.
LEMMA StoredStays == Stored /\ UNCHANGED world => Stored'
  BY DEF Stored, world, InOrder, RuntimeInOrder, CanonicalInOrder,
         RepositoryInOrder, OneRelease, Flawed

LEMMA ReadDispatched ==
  ASSUME IsCall, Stored, setup.tool = "dispatch", Passing, ReadRuntime, UNCHANGED world
  PROVE  Passing'
  <1> DEFINE file == RuntimeReads[call.step]
             sel == IF file = "manifest" THEN files[file] ELSE call.sel
  <1>1. /\ call.proc \in {"resolve", "invoke"} /\ call.step \in 1..15
        /\ call.target = "knowledge"
    BY Order DEF ReadRuntime, Passing, NoCall
  <1>2. /\ UNCHANGED <<setup, files, updates, witnessed>> /\ Usable' = Usable
    BY DEF world, Usable, Flawed
  <1>3. ASSUME NEW result, result \notin {"selected", "ran"}, Return(result)
        PROVE  Passing'
    <2>1. /\ call'.step = 0 /\ call'.proc = call.proc /\ call'.target = call.target
          /\ call'.result = result
      BY <1>3 DEF Return, IsCall
    <2> QED
      BY <1>1, <1>3, <2>1 DEF Passing
  <1>4. CASE ReadFault(file) # "none" /\ Return(ReadFault(file))
    <2>1. ReadFault(file) \notin {"selected", "ran"}
      BY DEF ReadFault
    <2> QED
      BY <1>3, <1>4, <2>1
  <1>5. CASE ReadFault(file) = "none" /\ call.step < 15 /\ Advance(sel)
    <2>1. call' = [call EXCEPT !.step = call.step + 1, !.sel = sel]
      BY <1>5 DEF Advance, IsCall
    <2>2. /\ call'.step = call.step + 1 /\ call'.sel = sel /\ call'.proc = call.proc
          /\ call'.target = call.target /\ call'.want = call.want
          /\ call'.result = call.result /\ call'.bytes = call.bytes
          /\ call'.code = call.code
      BY <2>1 DEF IsCall
    <2>3. PICK v : v = sel
      OBVIOUS
    <2>4. CASE call.step = 1
      <3>1. file = "manifest"
        BY <2>4 DEF RuntimeReads
      <3>2. files["manifest"] = v /\ v \in Intact
        BY <1>5, <2>3, <3>1 DEF ReadFault
      <3>3. call'.step = 2
        BY <2>2, <2>4
      <3>4. ASSUME NEW n \in Nat, ~witnessed /\ Usable => updates >= n
            PROVE  Priced(call.sel, n)'
        <4>1. Priced(v, n)'
          BY <1>2, <2>4, <3>2, <3>3, <3>4, FirstPrices
        <4> QED
          BY <2>2, <2>3, <4>1 DEF Priced, Stale, Checked, Usable, Flawed
      <3>5. call.proc = "resolve" => Priced(call.sel, 0)'
        <4>1. updates >= 0
          BY DEF Stored
        <4> QED
          BY <3>4, <4>1
      <3>6. call.proc = "invoke" => Priced(call.sel, 2)' /\ Passed(call.want)'
        <4>1. call.proc = "invoke" => Passed(call.want)
          BY <2>4 DEF Passing
        <4>2. Passed(call.want) => (~witnessed /\ Usable => updates >= 2)
          BY DEF Passed
        <4>3. Passed(call.want) => Passed(call.want)'
          BY <1>2, <2>2 DEF Passed
        <4> QED
          BY <3>4, <4>1, <4>2, <4>3
      <3>7. call'.sel \in Intact
        BY <2>2, <2>3, <3>2
      <3>8. call'.result = "ran" /\ call'.bytes # "none" /\ call'.code = 0 => witnessed'
        BY <1>2, <2>2 DEF Passing
      <3> QED
        BY <1>1, <2>2, <3>3, <3>5, <3>6, <3>7, <3>8 DEF Passing
    <2>5. CASE call.step # 1
      <3>1. file # "manifest" /\ call.step \in 2..14
        BY <1>1, <1>5, <2>5, Order
      <3>2. files[file] = v /\ v = call.sel
        BY <1>5, <2>3, <3>1 DEF ReadFault
      <3>3. ASSUME NEW n \in Nat, Priced(call.sel, n)
            PROVE  Priced(call.sel, n)'
        <4>1. Priced(v, n)
          BY <3>2, <3>3
        <4>2. UNCHANGED <<world, updates>>
          BY <1>2
        <4>3. Priced(v, n)'
          BY <1>1, <2>2, <3>2, <4>1, <4>2, ReadPrices
        <4> QED
          BY <2>2, <2>3, <4>3 DEF Priced, Stale, Checked, Usable, Flawed
      <3>4. call.proc = "resolve" => Priced(call.sel, 0)'
        BY <3>1, <3>3 DEF Passing
      <3>5. call.proc = "invoke" =>
              /\ Passed(call.want)'
              /\ call'.sel = call'.want => Priced(call.sel, 2)'
              /\ call'.sel \in Intact
        <4>1. call.proc = "invoke" =>
                /\ Passed(call.want)
                /\ call.sel = call.want => Priced(call.sel, 2)
                /\ call.sel \in Intact
          BY <3>1 DEF Passing
        <4>2. Passed(call.want) => Passed(call.want)'
          BY <1>2, <2>2 DEF Passed
        <4> QED
          BY <2>2, <2>3, <3>2, <3>3, <4>1, <4>2
      <3>6. call.proc = "invoke" => files'["binary"] \in Intact
        <4>1. CASE call.step = 2
          <5>1. file = "binary"
            BY <4>1 DEF RuntimeReads
          <5> QED
            BY <1>2, <3>2, <3>5, <2>2, <2>3, <5>1
        <4>2. CASE call.step # 2
          BY <1>2, <3>1, <4>2 DEF Passing
        <4> QED
          BY <4>1, <4>2
      <3>7. call'.result = "ran" /\ call'.bytes # "none" /\ call'.code = 0 => witnessed'
        BY <1>2, <2>2 DEF Passing
      <3>8. call'.step \in 3..15
        BY <2>2, <3>1
      <3> QED
        BY <1>1, <2>2, <3>4, <3>5, <3>6, <3>7, <3>8 DEF Passing
    <2> QED
      BY <2>4, <2>5
  <1>6. CASE ReadFault(file) = "none" /\ call.step = 15 /\ Resolved
    <2>1. file = "flake_lock" /\ files[file] = call.sel
      BY <1>6 DEF RuntimeReads, ReadFault
    <2>2. CASE call.proc = "resolve"
      <3>1. Return("selected")
        BY <1>6, <2>2 DEF Resolved
      <3>2. /\ call'.step = 0 /\ call'.proc = "resolve" /\ call'.target = call.target
            /\ call'.result = "selected" /\ call'.sel = call.sel
        BY <2>2, <3>1 DEF Return, IsCall
      <3>3. Priced(call.sel, 0)
        BY <1>6, <2>2 DEF Passing
      <3>4. ~witnessed /\ Usable => updates >= 2
        <4>1. ~witnessed /\ Usable => updates >= 0 + 2
          BY <1>6, <2>1, <3>3, LastPaid
        <4> QED
          BY <4>1
      <3>5. Passed(call.sel)'
        BY <1>2, <3>2, <3>3, <3>4 DEF Passed, Priced
      <3> QED
        BY <1>1, <3>2, <3>5 DEF Passing
    <2>3. CASE call.proc = "invoke" /\ call.sel # call.want
      <3>1. Return("integrity")
        BY <1>6, <2>3 DEF Resolved
      <3> QED
        BY <1>3, <3>1
    <2>4. CASE call.proc = "invoke" /\ call.sel = call.want
      <3>1. Advance(call.sel)
        BY <1>6, <2>4 DEF Resolved
      <3>2. call' = [call EXCEPT !.step = call.step + 1, !.sel = call.sel]
        BY <3>1 DEF Advance, IsCall
      <3>3. /\ call'.step = 16 /\ call'.sel = call.sel /\ call'.proc = call.proc
            /\ call'.target = call.target /\ call'.want = call.want
            /\ call'.result = call.result /\ call'.bytes = call.bytes
            /\ call'.code = call.code
        BY <1>6, <3>2 DEF IsCall
      <3>4. PICK v : v = call.sel
        OBVIOUS
      <3>5. Priced(v, 2) /\ Passed(call.want) /\ v \in Intact /\ files["binary"] \in Intact
        BY <1>6, <2>4, <3>4 DEF Passing
      <3>6. Priced(v, 2)'
        <4>1. call'.step = call.step + 1 /\ UNCHANGED <<world, updates>>
          BY <1>2, <1>6, <3>3
        <4> QED
          BY <1>1, <2>1, <3>4, <3>5, <4>1, ReadPrices
      <3>7. Priced(call.sel, 2)'
        BY <3>3, <3>4, <3>6 DEF Priced, Stale, Checked, Usable, Flawed
      <3>8. Passed(call.want)'
        BY <1>2, <3>3, <3>5 DEF Passed
      <3>9. call'.result = "ran" /\ call'.bytes # "none" /\ call'.code = 0 => witnessed'
        BY <1>2, <3>3 DEF Passing
      <3> QED
        BY <1>1, <1>2, <2>4, <3>3, <3>4, <3>5, <3>7, <3>8, <3>9 DEF Passing
    <2> QED
      BY <1>1, <2>2, <2>3, <2>4
  <1> QED
    BY <1>1, <1>4, <1>5, <1>6, Order DEF ReadRuntime

LEMMA ExecuteDispatched ==
  ASSUME Updating, IsCall, Stored, setup.tool = "dispatch", Passing, Execute,
         UNCHANGED world
  PROVE  Passing'
  <1>1. call.proc = "invoke" /\ call.step = 16
    <2>1. call.proc = "invoke" /\ call.step = Len(RuntimeReads) + 1
      BY DEF Execute
    <2>2. Len(RuntimeReads) = 15
      BY Order
    <2> QED
      BY <2>1, <2>2
  <1>2. /\ call.sel = call.want /\ Priced(call.sel, 2) /\ call.target = "knowledge"
        /\ files["binary"] \in Intact
    BY <1>1 DEF Passing, NoCall
  <1>3. ~witnessed => ~Usable
    <2>1. ~witnessed /\ Usable => updates >= 2 + 2
      BY <1>1, <1>2, Paid
    <2>2. updates <= 3
      <3>1. setup.limit <= 3 /\ setup.limit \in Nat
        BY ToolsAssumption DEF Updating, Stored
      <3> QED
        BY <3>1 DEF Stored
    <2> QED
      BY <2>1, <2>2 DEF Stored
  <1>4. CASE Return("invocation")
    <2>1. /\ call'.step = 0 /\ call'.proc = call.proc /\ call'.target = call.target
          /\ call'.result = "invocation"
      BY <1>4 DEF Return, IsCall
    <2> QED
      BY <1>1, <1>2, <2>1 DEF Passing
  <1>5. CASE ~Return("invocation")
    <2>1. ~Flawed("rust_slow")
      BY <1>5 DEF Execute
    <2>2. PICK answer \in Answers(files["binary"]) :
            call' = [call EXCEPT !.step = 0, !.result = "ran",
                                 !.bytes = answer[1], !.code = answer[2]]
      BY <1>5 DEF Execute
    <2>3. /\ call'.step = 0 /\ call'.proc = "invoke" /\ call'.target = call.target
          /\ call'.bytes = answer[1] /\ call'.code = answer[2]
      BY <1>1, <2>2 DEF IsCall
    <2>4. answer[1] # "none" /\ answer[2] = 0 => Usable
      <3>1. CASE Flawed("rust_crashes")
        <4>1. answer = <<"none", 134>>
          BY <1>2, <2>2, <3>1 DEF Answers
        <4> QED
          BY <4>1
      <3>2. CASE ~Flawed("rust_crashes")
        <4>1. answer = <<Report("knowledge"), IF Report("knowledge") = "valid" THEN 0 ELSE 1>>
          BY <1>2, <2>2, <3>2 DEF Answers
        <4>2. Report("knowledge") = "valid" => files["knowledge"] \in Intact
          BY DEF Report, Stored, Intact
        <4> QED
          BY <2>1, <3>2, <4>1, <4>2 DEF Usable
      <3> QED
        BY <3>1, <3>2
    <2>5. witnessed' = witnessed /\ witnessed \in BOOLEAN
      BY DEF world, Stored
    <2> QED
      BY <1>2, <1>3, <2>3, <2>4, <2>5 DEF Passing
  <1> QED
    BY <1>4, <1>5

LEMMA DispatchDispatched ==
  ASSUME Updating, IsCall, Dispatched, setup.tool = "dispatch", Dispatch, UNCHANGED world
  PROVE  Dispatched'
  <1>1. /\ Stored /\ Passing /\ stage \in {"dispatch", "done"} /\ Stored'
        /\ exit = 0 => witnessed
    BY StoredStays DEF Dispatched
  <1>2. UNCHANGED <<setup, files, updates, witnessed>>
    BY DEF world
  <1>3. CASE (ReadRuntime \/ Execute) /\ UNCHANGED <<stage, exit>>
    BY <1>1, <1>2, <1>3, ReadDispatched, ExecuteDispatched DEF Dispatched
  <1>4. CASE DispatchStart
    <2>1. /\ call'.proc = "resolve" /\ call'.step = 1 /\ call'.target = "knowledge"
          /\ call'.result = "none" /\ UNCHANGED <<stage, exit>>
      BY <1>4 DEF DispatchStart, Call, NoCall
    <2>2. Passing'
      BY <2>1 DEF Passing
    <2> QED
      BY <1>1, <1>2, <2>1, <2>2 DEF Dispatched
  <1>5. CASE DispatchInvoke
    <2>1. /\ call.proc = "resolve" /\ call.step = 0 /\ call.result = "selected"
          /\ UNCHANGED <<stage, exit>>
      BY <1>5 DEF DispatchInvoke, Returned
    <2>2. /\ call'.proc = "invoke" /\ call'.step = 1 /\ call'.target = "knowledge"
          /\ call'.result = "none" /\ call'.want = call.sel
      BY <1>5 DEF DispatchInvoke, Call, NoCall
    <2>3. Passed(call.sel)
      BY <1>1, <2>1 DEF Passing
    <2>4. Passed(call.want)'
      BY <1>2, <2>2, <2>3 DEF Passed, Usable, Flawed
    <2>5. Passing'
      BY <2>2, <2>4 DEF Passing
    <2> QED
      BY <1>1, <1>2, <2>1, <2>5 DEF Dispatched
  <1>6. CASE DispatchEnd
    <2>1. call' = call /\ stage' = "done"
          /\ exit' = IF call.result = "ran" /\ call.bytes # "none" THEN call.code
                     ELSE IF call.result = "garbled" THEN 1 ELSE 70
      BY <1>6 DEF DispatchEnd
    <2>2. exit' = 0 => witnessed
      BY <1>1, <2>1 DEF Passing
    <2>3. Passing'
      BY <1>1, <1>2, <2>1 DEF Passing, Priced, Passed, Stale, Checked, Usable, Flawed
    <2> QED
      BY <1>1, <1>2, <2>1, <2>2, <2>3 DEF Dispatched
  <1> QED
    BY <1>3, <1>4, <1>5, <1>6 DEF Dispatch

LEMMA DispatchedNext ==
  ASSUME Updating, Verified, Dispatched, [ToolsNext]_toolVars
  PROVE  Dispatched'
  <1>1. CASE Replace
    BY <1>1, ReplaceDispatched
  <1>2. CASE Tool /\ UNCHANGED world
    <2>1. setup' = setup
      BY <1>2 DEF world
    <2>2. setup.tool = "dispatch" => Dispatch
      BY <1>2 DEF Tool
    <2> QED
      BY <1>2, <2>1, <2>2, DispatchDispatched DEF Verified, Dispatched
  <1>3. CASE UNCHANGED tool
    <2>1. UNCHANGED world /\ UNCHANGED <<stage, call, exit>>
      BY <1>3 DEF tool, frame
    <2>2. UNCHANGED <<setup, files, updates, witnessed>>
      BY <2>1 DEF world
    <2>3. Passing => Passing'
      BY <2>1, <2>2 DEF Passing, Priced, Passed, Stale, Checked, Usable, Flawed
    <2> QED
      BY <2>1, <2>2, <2>3, StoredStays DEF Dispatched
  <1> QED
    BY <1>1, <1>2, <1>3 DEF ToolsNext, toolVars

\* For any installation: while the bundle is updated from release to release, at
\* most three files during a call, a dispatch that ends with zero had everything
\* in order at one instant, because both passes must be fooled and each costs two
\* replacements.
THEOREM UpdatesWitnessed ==
  ASSUME Updating
  PROVE  ToolsSpec => [](setup.tool = "dispatch" => SuccessWitnessed)
  <1>1. Dispatched => (setup.tool = "dispatch" => SuccessWitnessed)
    BY DEF Dispatched, SuccessWitnessed
  <1>2. Verified /\ Dispatched /\ [ToolsNext]_toolVars => Dispatched'
    BY DispatchedNext
  <1> QED
    BY <1>1, <1>2, DispatchedStart, VerifiedAlways, PTL DEF ToolsSpec

-----------------------------------------------------------------------------
(* The audit while one file is replaced *)

Labels == {"mutating", "owner"}

\* What a file is or was when the audit began.
Was(x, v) == v \in {setup.files[x], files[x]}
Had(x, V) == \E v \in V : Was(x, v)
HadOnce(names, v) == v \in Intact /\ \A x \in names : Was(x, v)

\* The statements before a finding is made.
Unparsed == {"plugin_manifest"}
Unvalidated == Unparsed \cup {"lock", "run_plugin", "run_skill"}
Uncataloged == Unvalidated \cup {"catalog"}
Unselected == Uncataloged \cup {"artifact"}
Unread == Unselected \cup {"okf"}
Unexecuted == Unread \cup {"okf_halves", "rust_okf_core"}
Unasked == Unexecuted \cup {"ask_matt"}

\* What a validator that accepted saw, and what the canonical findings say.
Ran(which, v) ==
  /\ Was(which, v) /\ Had(Subject[which], Intact)
  /\ ~Flawed("validator_slow") /\ ~Flawed("yaml_unusable")
CanonicalOnce ==
  \E v \in Intact : /\ HadOnce(CanonicalFiles, v)
                    /\ Ran("plugin_validator", v)
                    /\ Had("skills", {"empty"}) \/ Ran("skill_validator", v)
AskedOnce == \E r \in Intact : HadOnce({"ask_lock", "ask_adapter", "ask_installed"}, r)
RuledOnce == Had("policy", {"v1", "v2", "missing", "odd"})
LegibleIn(now) == now["setup_docs"] \in {"missing", "odd"} \/ now["setup_receipt"] # "garbled"
LegibleOnce == LegibleIn(setup.files) \/ LegibleIn(files)

\* A policy that was never in order and is not labelled as what it is; the only
\* way to it is a replacement between the two reads of the policy.
Unlabelled == ~RuledOnce /\ memo.document \notin Labels
Turned ==
  updates = 1 /\ files["policy"] \notin {"v1", "v2", "missing", "odd"} \cup Labels

\* What an audit without a finding has seen up to its statement.
Facts ==
  /\ stage \notin Unparsed => Had("plugin_json", Intact)
  /\ stage = "run_skill" => Ran("plugin_validator", memo.runtime)
  /\ stage \notin Unvalidated => CanonicalOnce
  /\ stage \notin Uncataloged => Had("catalog", Intact)
  /\ stage \notin Unselected => memo.selection \in Intact
  /\ stage \notin Unread => Had("knowledge", Intact)
  /\ stage \notin Unexecuted => ~Flawed("rust_slow")
  /\ stage \notin Unasked => AskedOnce
  /\ stage = "policy_again" => Had("policy", Intact \cup Labels)
  /\ stage = "rust_repository_policy" /\ Unlabelled => Turned
  /\ stage \in {"git", "setup"} => ~Unlabelled
  /\ stage = "owner" => RuledOnce \/ memo.document = "owner"
  /\ stage = "overall" => RuledOnce
  /\ stage \in {"owner", "overall"} => LegibleOnce

Kept ==
  /\ memo = [listed |-> memo.listed, runtime |-> memo.runtime,
             selection |-> memo.selection, unavailable |-> memo.unavailable,
             okf |-> memo.okf, receipt |-> memo.receipt,
             document |-> memo.document, ask |-> memo.ask]
  /\ stage \in {"run_plugin", "run_skill"} => HadOnce(CanonicalFiles, memo.runtime)
  /\ memo.listed = "none" => Had("skills", {"empty"})
  /\ memo.selection # "none" => HadOnce(RuntimeFiles, memo.selection)
  /\ memo.unavailable \in {"FAIL", "INCONCLUSIVE"}

LoadingOnce ==
  /\ call.proc = "load" /\ call.step \in 0..6
  /\ call.step > 1 => HadOnce({LockReads[k] : k \in 1..(call.step - 1)}, call.sel)
  /\ call.step = 0 =>
       \/ call.result = "loaded" /\ HadOnce(CanonicalFiles, call.sel)
       \/ call.result \in {"lock", "invalid", "inconclusive"}
RunningOnce(which) ==
  /\ call.proc = "validator" /\ call.target = which /\ call.sel = "none"
  /\ call.want = memo.runtime
  /\ call.step \in 0..2
  /\ call.step = 2 => Was(which, memo.runtime)
  /\ call.step = 0 =>
       \/ call.result = "accepted" /\ Ran(which, memo.runtime)
       \/ call.result \in {"invalid", "mismatch", "rejected", "inconclusive", "timeout"}
ResolvingOnce ==
  /\ call.proc = "resolve" /\ call.step \in 0..15
  /\ call.step > 1 => HadOnce({RuntimeReads[k] : k \in 1..(call.step - 1)}, call.sel)
  /\ call.step = 0 /\ call.result = "selected" => HadOnce(RuntimeFiles, call.sel)
InvokingOnce(target) ==
  /\ call.proc = "invoke" /\ call.target = target /\ call.step \in 0..16
  /\ call.step > 1 => call.sel \in Intact
  /\ call.step = 0 =>
       \/ call.result \in {"integrity", "unsupported", "garbled", "invocation"}
       \/ call.result = "ran" /\ ~Flawed("rust_slow")

\* The genuine binary rejects what was turned into no policy before it was called.
Rejecting ==
  Clean /\ Unlabelled =>
    /\ call.step > 2 => files["binary"] \in Intact
    /\ call.step = 0 /\ call.result = "ran" => call.bytes = "none" \/ call.code # 0

ProceedingOnce ==
  /\ stage = "lock" => LoadingOnce
  /\ stage = "run_plugin" => RunningOnce("plugin_validator")
  /\ stage = "run_skill" => RunningOnce("skill_validator")
  /\ stage = "artifact" => ResolvingOnce
  /\ stage = "rust_okf_core" => InvokingOnce("knowledge")
  /\ stage = "rust_repository_policy" => InvokingOnce("policy") /\ Rejecting
  /\ stage \notin {"lock", "run_plugin", "run_skill", "artifact", "rust_okf_core",
                   "rust_repository_policy"} => call.step = 0

\* The one replacement, and the instants before and after it.
World ==
  /\ setup \in Setups /\ setup.limit <= 1 /\ updates \in 0..setup.limit
  /\ updates = 0 => files = setup.files
  /\ updates = 1 => ~Flawed("rust_crashes") /\ \E change \in setup.changes :
       files = [setup.files EXCEPT ![change[1]] = change[2]]
  /\ files["knowledge"] \notin Labels
  /\ witnessed \in BOOLEAN /\ (InOrder(setup.files) \/ InOrder(files) => witnessed)

Once ==
  setup.tool = "doctor" =>
    /\ World /\ Kept /\ ProceedingOnce
    /\ stage # "done" /\ Clean => Facts
    /\ exit = 0 => witnessed

\* What was seen once stays seen: a replacement has the files of the beginning
\* behind it.
LEMMA Carry ==
  ASSUME setup' = setup, \A x, v : Was(x, v) => Was(x, v)'
  PROVE  /\ \A x, V : Had(x, V) => Had(x, V)'
         /\ \A names, v : HadOnce(names, v) => HadOnce(names, v)'
         /\ \A which, v : Ran(which, v) => Ran(which, v)'
         /\ CanonicalOnce => CanonicalOnce'
         /\ AskedOnce => AskedOnce'
         /\ RuledOnce => RuledOnce'
         /\ memo' = memo /\ Unlabelled' => Unlabelled
         /\ Flawed("rust_slow")' = Flawed("rust_slow")
         /\ Flawed("rust_crashes")' = Flawed("rust_crashes")
  <1>1. \A x, V : Had(x, V) => Had(x, V)'
    BY DEF Had
  <1>2. \A names, v : HadOnce(names, v) => HadOnce(names, v)'
    BY DEF HadOnce
  <1>3. \A what : Flawed(what)' = Flawed(what)
    BY DEF Flawed
  <1>4. \A which, v : Ran(which, v) => Ran(which, v)'
    BY <1>1, <1>3 DEF Ran
  <1>5. CanonicalOnce => CanonicalOnce'
    BY <1>1, <1>2, <1>4 DEF CanonicalOnce
  <1>6. AskedOnce => AskedOnce'
    BY <1>2 DEF AskedOnce
  <1>7. RuledOnce => RuledOnce'
    BY <1>1 DEF RuledOnce
  <1>8. memo' = memo /\ Unlabelled' => Unlabelled
    BY <1>7 DEF Unlabelled
  <1> QED
    BY <1>1, <1>2, <1>3, <1>4, <1>5, <1>6, <1>7, <1>8

LEMMA Unmoved ==
  ASSUME UNCHANGED <<files, setup>> PROVE \A x, v : Was(x, v) => Was(x, v)'
  BY DEF Was

LEMMA WorldStays == ASSUME World, UNCHANGED world PROVE World'
  <1>1. UNCHANGED <<setup, files, updates, witnessed>>
    BY DEF world
  <1>2. /\ (InOrder(files)' <=> InOrder(files))
        /\ (InOrder(setup.files)' <=> InOrder(setup.files))
        /\ Flawed("rust_crashes")' = Flawed("rust_crashes")
    BY <1>1 DEF InOrder, CanonicalInOrder, RuntimeInOrder, RepositoryInOrder, Flawed
  <1> QED
    BY <1>1, <1>2 DEF World

\* One replacement leaves all files but one as they were.
LEMMA Others ==
  ASSUME World, updates # 0
  PROVE  \E c : \A x \in DOMAIN setup.files : x # c => files[x] = setup.files[x]
  <1>1. updates = 1
    BY ToolsAssumption DEF World
  <1>2. PICK change \in setup.changes : files = [setup.files EXCEPT ![change[1]] = change[2]]
    BY <1>1 DEF World
  <1>3. PICK c : c = change[1]
    OBVIOUS
  <1> QED
    BY <1>2, <1>3

\* So what was required of each of them, before or after it, was so of all of
\* them before or of all of them after.
LEMMA OneSide ==
  ASSUME World, NEW names, names \subseteq DOMAIN setup.files, NEW required,
         \A x \in names : Had(x, required[x])
  PROVE  \/ \A x \in names : setup.files[x] \in required[x]
         \/ \A x \in names : files[x] \in required[x]
  <1>1. \A x \in names : setup.files[x] \in required[x] \/ files[x] \in required[x]
    BY DEF Had, Was
  <1>2. CASE updates = 0
    BY <1>1, <1>2 DEF World
  <1>3. CASE updates # 0
    <2>1. PICK c : \A x \in DOMAIN setup.files : x # c => files[x] = setup.files[x]
      BY <1>3, Others
    <2>2. \A x \in names : x # c => setup.files[x] \in required[x] /\ files[x] \in required[x]
      BY <1>1, <2>1
    <2> QED
      BY <1>1, <2>2
  <1> QED
    BY <1>2, <1>3

LEMMA BundleNames ==
  /\ {"runtime_lock", "uv_lock"} \subseteq RuntimeFiles \cap CanonicalFiles
  /\ "catalog" \in RuntimeFiles
  /\ Validators = {"plugin_validator", "skill_validator"}
  /\ \A x \in RuntimeFiles \cup CanonicalFiles \cup Validators :
       x \notin {"plugin_json", "skills", "knowledge", "ask_lock", "ask_adapter",
                 "ask_installed", "policy", "setup_docs", "setup_receipt"}
  <1>1. CanonicalFiles = {"validator_lock", "runtime_lock", "uv_lock", "builder",
                          "runner", "payload"}
    <2>1. DOMAIN LockReads = 1..6
      BY DEF LockReads
    <2>2. 1..6 = {1, 2, 3, 4, 5, 6}
      OBVIOUS
    <2>3. CanonicalFiles = {LockReads[k] : k \in {1, 2, 3, 4, 5, 6}}
      BY <2>1, <2>2 DEF CanonicalFiles
    <2> QED
      BY <2>3 DEF LockReads
  <1>2. Validators = {"plugin_validator", "skill_validator"}
    BY DEF Validators, Subject
  <1> QED
    BY <1>1, <1>2, RuntimeNames

LEMMA OneReleaseOnce ==
  ASSUME World, NEW v, NEW w, HadOnce(RuntimeFiles, v), HadOnce(CanonicalFiles, w)
  PROVE  v = w
  <1>1. {"runtime_lock", "uv_lock"} \subseteq DOMAIN setup.files
    BY BundleNames, ToolsAssumption DEF World, Everything
  <1>2. \E x \in {"runtime_lock", "uv_lock"} : files[x] = setup.files[x]
    <2>1. CASE updates = 0
      BY <2>1 DEF World
    <2>2. CASE updates # 0
      BY <1>1, <2>2, Others
    <2> QED
      BY <2>1, <2>2
  <1>3. PICK x \in {"runtime_lock", "uv_lock"} : files[x] = setup.files[x]
    BY <1>2
  <1>4. x \in RuntimeFiles /\ x \in CanonicalFiles
    BY BundleNames
  <1> QED
    BY <1>3, <1>4 DEF HadOnce, Was

\* What an audit has seen once of everything was in order at one instant.
LEMMA SeenInOrder ==
  ASSUME World, setup.tool = "doctor", ~Flawed("rust_crashes"), ~Flawed("rust_slow"),
         CanonicalOnce, Had("plugin_json", Intact), AskedOnce, RuledOnce, LegibleOnce,
         Had("knowledge", Intact), NEW v, HadOnce(RuntimeFiles, v)
  PROVE  InOrder(setup.files) \/ InOrder(files)
  <1>1. PICK w \in Intact : /\ HadOnce(CanonicalFiles, w)
                            /\ Ran("plugin_validator", w)
                            /\ Had("skills", {"empty"}) \/ Ran("skill_validator", w)
    BY DEF CanonicalOnce
  <1>2. w = v
    BY <1>1, OneReleaseOnce
  <1> DEFINE full == Ran("skill_validator", v)
             bundle == RuntimeFiles \cup CanonicalFiles \cup {"plugin_validator"}
                         \cup (IF full THEN {"skill_validator"} ELSE {})
             asks == {"ask_lock", "ask_adapter", "ask_installed"}
             names == bundle \cup asks \cup {"policy", "plugin_json", "skills", "knowledge"}
  <1>3. PICK r \in Intact : HadOnce(asks, r)
    BY DEF AskedOnce
  <1> DEFINE required ==
        [x \in names |-> IF x \in bundle THEN {v}
                         ELSE IF x \in asks THEN {r}
                         ELSE IF x = "policy" THEN {"v1", "v2", "missing", "odd"}
                         ELSE IF x = "skills" /\ ~full THEN {"empty"}
                         ELSE Intact]
  <1>4. /\ bundle \subseteq RuntimeFiles \cup CanonicalFiles \cup Validators
        /\ \A x \in bundle : x \notin asks
        /\ {"policy", "plugin_json", "skills", "knowledge"} \cap bundle = {}
        /\ "setup_docs" \notin names /\ "setup_receipt" \notin names
    BY BundleNames
  <1>5. \A x \in names : Had(x, required[x])
    <2>1. \A x \in bundle : Was(x, v)
      BY <1>1, <1>2, BundleNames DEF HadOnce, Ran
    <2>2. \A x \in asks : Was(x, r)
      BY <1>3 DEF HadOnce
    <2>3. /\ Had("policy", {"v1", "v2", "missing", "odd"})
          /\ IF full THEN Had("skills", Intact) ELSE Had("skills", {"empty"})
      BY <1>1, <1>2 DEF RuledOnce, Ran, Subject
    <2>4. ASSUME NEW x \in names PROVE Had(x, required[x])
      <3>1. CASE x \in bundle
        BY <2>1, <3>1 DEF Had
      <3>2. CASE x \notin bundle /\ x \in asks
        BY <2>2, <3>2 DEF Had
      <3>3. CASE x \notin bundle /\ x \notin asks
        <4> HIDE DEF bundle, full
        <4> QED
          BY <2>3, <3>3
      <3> QED
        BY <3>1, <3>2, <3>3
    <2> QED
      BY <2>4
  <1>6. names \subseteq DOMAIN setup.files
    BY <1>4, ToolsAssumption DEF World, Everything
  <1>7. ASSUME NEW now, \A x \in names : now[x] \in required[x], LegibleIn(now)
        PROVE  InOrder(now)
    <2>1. v \in Intact /\ \A x \in bundle : now[x] = v
      BY <1>7 DEF HadOnce
    <2>2. \A x \in asks : now[x] = r
      BY <1>4, <1>7
    <2>3. /\ now["policy"] \in {"v1", "v2", "missing", "odd"}
          /\ {now["plugin_json"], now["knowledge"]} \subseteq Intact
          /\ now["skills"] \in (IF full THEN Intact ELSE {"empty"})
      <3> HIDE DEF bundle, full
      <3> QED
        BY <1>4, <1>7
    <2>4. RuntimeInOrder(now)
      BY <2>1 DEF RuntimeInOrder, OneRelease
    <2>5. CanonicalInOrder(now)
      <3>1. ~Flawed("validator_slow") /\ ~Flawed("yaml_unusable")
        BY <1>1 DEF Ran
      <3>2. CASE full
        <4>1. OneRelease(CanonicalFiles \cup Validators, now)
          BY <2>1, <3>2, BundleNames DEF OneRelease
        <4>2. now["skills"] \in Intact
          BY <2>3, <3>2
        <4> QED
          BY <2>3, <3>1, <4>1, <4>2 DEF CanonicalInOrder
      <3>3. CASE ~full
        <4>1. OneRelease(CanonicalFiles \cup {"plugin_validator"}, now)
          BY <2>1 DEF OneRelease
        <4>2. now["skills"] = "empty"
          BY <2>3, <3>3
        <4> QED
          BY <2>3, <3>1, <4>1, <4>2 DEF CanonicalInOrder
      <3> QED
        BY <3>2, <3>3
    <2>6. RepositoryInOrder(now)
      <3>1. now["catalog"] \in Intact
        BY <2>1, BundleNames
      <3>2. OneRelease(asks, now)
        BY <2>2 DEF OneRelease
      <3> QED
        BY <1>7, <2>3, <3>1, <3>2 DEF RepositoryInOrder, LegibleIn
    <2> QED
      BY <2>4, <2>5, <2>6 DEF InOrder
  <1> HIDE DEF required, names
  <1>8. \/ \A x \in names : setup.files[x] \in required[x]
        \/ \A x \in names : files[x] \in required[x]
    BY <1>5, <1>6, OneSide
  \* The receipt of the setup and its documents are two files: either it was one
  \* of them that was replaced, and no other, or neither.
  <1>9. \/ (\A x \in names : setup.files[x] \in required[x]) /\ LegibleIn(setup.files)
        \/ (\A x \in names : files[x] \in required[x]) /\ LegibleIn(files)
    <2>1. CASE updates = 0
      BY <1>8, <2>1 DEF World, LegibleOnce
    <2>2. CASE updates # 0
      <3>1. PICK c : \A x \in DOMAIN setup.files : x # c => files[x] = setup.files[x]
        BY <2>2, Others
      <3>2. CASE c \in {"setup_docs", "setup_receipt"}
        <4>1. \A x \in names : files[x] = setup.files[x]
          BY <1>4, <1>6, <3>1, <3>2
        <4> QED
          BY <1>8, <4>1 DEF LegibleOnce
      <3>3. CASE c \notin {"setup_docs", "setup_receipt"}
        <4>1. {"setup_docs", "setup_receipt"} \subseteq DOMAIN setup.files
          BY ToolsAssumption DEF World, Everything
        <4>2. LegibleIn(files) <=> LegibleIn(setup.files)
          BY <3>1, <3>3, <4>1 DEF LegibleIn
        <4> QED
          BY <1>8, <4>2 DEF LegibleOnce
      <3> QED
        BY <3>2, <3>3
    <2> QED
      BY <2>1, <2>2
  <1> QED
    BY <1>7, <1>9

\* Audits that one replacement is made under: not by a program that no longer
\* crashes, and not by the label of a policy on a knowledge bundle.
Auditing ==
  \A s \in Setups : s.tool = "doctor" =>
    /\ s.limit <= 1
    /\ s.limit = 1 => "rust_crashes" \notin s.flaws
    /\ \A change \in s.changes : change[1] = "knowledge" => change[2] \notin Labels

LEMMA ReplaceOnce ==
  ASSUME Auditing, setup.tool = "doctor", Once, Replace PROVE Once'
  <1>1. /\ World /\ Kept /\ ProceedingOnce /\ (stage # "done" /\ Clean => Facts)
        /\ exit = 0 => witnessed
        /\ stage # "done" /\ updates < setup.limit /\ updates' = updates + 1
        /\ witnessed' = (witnessed \/ InOrder(files'))
        /\ UNCHANGED <<setup, stage, call, exit, memo, found>>
    BY DEF Once, Replace, frame, doctor
  <1>2. /\ setup.limit = 1 /\ updates = 0 /\ updates' = 1 /\ files = setup.files
        /\ "rust_crashes" \notin setup.flaws
        /\ \A change \in setup.changes : change[1] = "knowledge" => change[2] \notin Labels
    BY <1>1, ToolsAssumption DEF World, Auditing
  <1>3. PICK change \in setup.changes : files' = [files EXCEPT ![change[1]] = change[2]]
    BY DEF Replace
  <1>4. \A x, v : Was(x, v) => Was(x, v)'
    BY <1>1, <1>2 DEF Was
  <1>5. World'
    <2>1. files'["knowledge"] \notin Labels
      <3>1. "knowledge" \in DOMAIN files
        BY <1>1, <1>2, ToolsAssumption DEF World, Everything
      <3>2. CASE change[1] = "knowledge"
        BY <1>2, <1>3, <3>1, <3>2
      <3>3. CASE change[1] # "knowledge"
        BY <1>1, <1>3, <3>1, <3>3 DEF World
      <3> QED
        BY <3>2, <3>3
    <2>2. /\ InOrder(files)' = InOrder(files') /\ InOrder(setup.files)' = InOrder(setup.files)
          /\ InOrder(files') \in BOOLEAN
      BY <1>1 DEF InOrder, CanonicalInOrder, RuntimeInOrder, RepositoryInOrder, OneRelease,
                  Flawed
    <2>3. ~Flawed("rust_crashes")'
      BY <1>1, <1>2 DEF Flawed
    <2>4. witnessed' \in BOOLEAN /\ ((InOrder(setup.files) \/ InOrder(files'))  => witnessed')
      BY <1>1, <1>2, <2>2 DEF World
    <2> QED
      BY <1>1, <1>2, <1>3, <2>1, <2>2, <2>3, <2>4 DEF World
  <1>6. Kept'
    BY <1>1, <1>4, Carry DEF Kept
  <1>7. stage = "rust_repository_policy" /\ Clean => ~Unlabelled /\ ~Unlabelled'
    <2>1. ~Turned
      BY <1>2 DEF Turned
    <2> QED
      BY <1>1, <1>4, <2>1, Carry DEF Facts
  <1>8. Clean' = Clean
    BY <1>1 DEF Clean
  <1>9. ProceedingOnce'
    <2>1. LoadingOnce => LoadingOnce'
      BY <1>1, <1>4, Carry DEF LoadingOnce
    <2>2. \A which : RunningOnce(which) => RunningOnce(which)'
      BY <1>1, <1>4, Carry DEF RunningOnce
    <2>3. ResolvingOnce => ResolvingOnce'
      BY <1>1, <1>4, Carry DEF ResolvingOnce
    <2>4. \A target : InvokingOnce(target) => InvokingOnce(target)'
      BY <1>1, <1>4, Carry DEF InvokingOnce
    <2>5. stage = "rust_repository_policy" => Rejecting'
      BY <1>7, <1>8 DEF Rejecting
    <2> QED
      BY <1>1, <2>1, <2>2, <2>3, <2>4, <2>5 DEF ProceedingOnce
  <1>10. stage # "done" /\ Clean => Facts'
    <2> SUFFICES ASSUME stage # "done", Clean PROVE Facts'
      OBVIOUS
    <2>1. Facts
      BY <1>1
    <2>2. LegibleOnce => LegibleOnce'
      BY <1>1, <1>2 DEF LegibleOnce, LegibleIn
    <2> QED
      BY <1>1, <1>4, <1>7, <2>1, <2>2, Carry DEF Facts
  <1> QED
    BY <1>1, <1>5, <1>6, <1>8, <1>9, <1>10 DEF Once

LEMMA LoadRuntimeOnce ==
  ASSUME IsCall, LoadingOnce, LoadRuntime, UNCHANGED <<files, setup>>
  PROVE  LoadingOnce'
  <1> DEFINE file == LockReads[call.step]
             sel == IF file = "validator_lock" THEN files[file] ELSE call.sel
  <1>1. /\ DOMAIN LockReads = 1..6 /\ Len(LockReads) = 6
        /\ LockReads[1] = "validator_lock"
        /\ \A k \in 2..6 : LockReads[k] # "validator_lock"
    BY DEF LockReads
  <1>2. call.step \in 1..6 /\ call.proc = "load"
    BY <1>1 DEF LoadRuntime
  <1>3. \A x, v : Was(x, v)' <=> Was(x, v)
    BY DEF Was
  <1>4. CASE LockFault(file) # "none"
    <2>1. Return(LockFault(file))
      BY <1>4 DEF LoadRuntime
    <2>2. call'.proc = "load" /\ call'.step = 0 /\ call'.result = LockFault(file)
      BY <1>2, <2>1, ReturnsCall
    <2>3. LockFault(file) \in {"inconclusive", "invalid", "lock"}
      BY <1>4 DEF LockFault
    <2> QED
      BY <2>2, <2>3 DEF LoadingOnce
  <1>5. CASE LockFault(file) = "none"
    <2>1. sel \in Intact /\ files[file] = sel /\ (call.step > 1 => sel = call.sel)
      <3>1. CASE call.step = 1
        BY <1>1, <1>5, <3>1 DEF LockFault
      <3>2. CASE call.step # 1
        BY <1>1, <1>2, <1>5, <3>2 DEF LockFault, LoadingOnce, HadOnce
      <3> QED
        BY <3>1, <3>2
    <2>2. HadOnce({LockReads[k] : k \in 1..call.step}, sel)
      <3>1. \A k \in 1..call.step : k = call.step \/ (call.step > 1 /\ k \in 1..(call.step - 1))
        BY <1>2
      <3>2. \A k \in 1..call.step : Was(LockReads[k], sel)
        BY <2>1, <3>1 DEF LoadingOnce, HadOnce, Was
      <3> QED
        BY <2>1, <3>2 DEF HadOnce
    <2>3. CASE call.step = 6
      <3>1. Return("loaded")
        BY <1>1, <1>5, <2>3 DEF LoadRuntime
      <3>2. /\ call'.proc = "load" /\ call'.step = 0 /\ call'.result = "loaded"
            /\ call'.sel = call.sel
        BY <1>2, <3>1, ReturnsCall
      <3>3. CanonicalFiles = {LockReads[k] : k \in 1..6}
        BY <1>1 DEF CanonicalFiles
      <3>4. HadOnce(CanonicalFiles, call.sel)
        BY <2>1, <2>2, <2>3, <3>3
      <3> QED
        BY <1>3, <3>2, <3>4 DEF LoadingOnce, HadOnce
    <2>4. CASE call.step # 6
      <3>1. Advance(sel)
        BY <1>1, <1>5, <2>4 DEF LoadRuntime
      <3>2. call'.proc = "load" /\ call'.sel = sel /\ call'.step = call.step + 1
        BY <1>2, <3>1, AdvancesCall
      <3>3. call'.step \in 0..6 /\ call'.step # 0 /\ call'.step - 1 = call.step
        BY <1>2, <2>4, <3>2
      <3> QED
        BY <1>3, <2>2, <3>2, <3>3 DEF LoadingOnce, HadOnce
    <2> QED
      BY <2>3, <2>4
  <1> QED
    BY <1>4, <1>5

LEMMA ValidatorOnce ==
  ASSUME IsCall, NEW which \in {"plugin_validator", "skill_validator"},
         RunningOnce(which), memo.runtime \in Intact,
         ReadValidator \/ RunSnapshot, UNCHANGED <<files, setup, memo>>
  PROVE  RunningOnce(which)'
  <1>1. /\ call.proc = "validator" /\ call.target = which /\ call.sel = "none"
        /\ call.want = memo.runtime
    BY DEF RunningOnce
  <1>2. (\A v : Was(which, v)' <=> Was(which, v)) /\ (\A v : Ran(which, v)' <=> Ran(which, v))
    BY DEF Was, Ran, Had, Flawed
  <1>3. \A result : Return(result) =>
          /\ call'.proc = "validator" /\ call'.target = which /\ call'.sel = "none"
          /\ call'.want = memo.runtime /\ call'.step = 0 /\ call'.result = result
    BY <1>1, ReturnsCall
  <1>4. CASE ReadValidator
    <2>1. CASE files[which] # memo.runtime
      <3>1. Return("inconclusive") \/ Return("invalid") \/ Return("mismatch")
        BY <1>1, <1>4, <2>1 DEF ReadValidator
      <3> QED
        BY <1>3, <3>1 DEF RunningOnce
    <2>2. CASE files[which] = memo.runtime
      <3>1. call' = [call EXCEPT !.step = 2, !.bytes = files[which]]
        BY <1>1, <1>4, <2>2 DEF ReadValidator, Intact
      <3>2. /\ call'.proc = "validator" /\ call'.target = which /\ call'.sel = "none"
            /\ call'.want = memo.runtime /\ call'.step = 2
        BY <1>1, <3>1 DEF IsCall
      <3> QED
        BY <1>2, <2>2, <3>2 DEF RunningOnce, Was
    <2> QED
      BY <2>1, <2>2
  <1>5. CASE RunSnapshot
    <2>1. Was(which, memo.runtime) /\ Return(Verdicts)
      BY <1>5 DEF RunSnapshot, RunningOnce
    <2>2. \/ Verdicts \in {"timeout", "invalid", "rejected"}
          \/ Verdicts = "accepted" /\ Ran(which, memo.runtime)
      BY <1>1, <2>1 DEF Verdicts, Ran, Had, Was
    <2> QED
      BY <1>2, <1>3, <2>1, <2>2 DEF RunningOnce
  <1> QED
    BY <1>4, <1>5

\* One read of resolve_binary, of whichever pass.
LEMMA ReadRuntimeOnce ==
  ASSUME IsCall, ReadRuntime,
         call.step > 1 => call.sel \in Intact
  PROVE  /\ call'.proc = call.proc /\ call'.target = call.target
         /\ \/ /\ call'.step = 0
               /\ call'.result \in {"integrity", "unsupported", "garbled"}
            \/ /\ call'.step = call.step + 1 /\ call'.sel \in Intact
               /\ files[RuntimeReads[call.step]] = call'.sel
               /\ call.step > 1 => call'.sel = call.sel
               /\ call'.step = 16 => call.proc = "invoke"
            \/ /\ call.proc = "resolve" /\ call.step = 15 /\ call'.step = 0
               /\ call'.result = "selected" /\ call'.sel = call.sel
               /\ files[RuntimeReads[15]] = call.sel
  <1> DEFINE file == RuntimeReads[call.step]
             sel == IF file = "manifest" THEN files[file] ELSE call.sel
  <1>1. /\ DOMAIN RuntimeReads = 1..15 /\ Len(RuntimeReads) = 15
        /\ RuntimeReads[1] = "manifest"
        /\ \A k \in 2..15 : RuntimeReads[k] # "manifest"
    BY DEF RuntimeReads
  <1>2. call.step \in 1..15 /\ call.proc \in {"resolve", "invoke"}
    BY <1>1 DEF ReadRuntime
  <1>3. (file = "manifest" <=> call.step = 1)
    BY <1>1, <1>2
  <1>4. CASE ReadFault(file) # "none"
    <2>1. Return(ReadFault(file))
      BY <1>4 DEF ReadRuntime
    <2>2. ReadFault(file) \in {"integrity", "unsupported", "garbled"}
      BY <1>4 DEF ReadFault
    <2> QED
      BY <2>1, <2>2, ReturnsCall
  <1>5. CASE ReadFault(file) = "none"
    <2>1. sel \in Intact /\ files[file] = sel /\ (call.step > 1 => sel = call.sel)
      <3>1. CASE call.step = 1
        BY <1>3, <1>5, <3>1 DEF ReadFault
      <3>2. CASE call.step # 1
        BY <1>2, <1>3, <1>5, <3>2 DEF ReadFault
      <3> QED
        BY <3>1, <3>2
    <2>2. CASE call.step # 15
      <3>1. Advance(sel)
        BY <1>1, <1>5, <2>2 DEF ReadRuntime
      <3> QED
        BY <1>2, <2>1, <2>2, <3>1, AdvancesCall
    <2>3. CASE call.step = 15
      <3>1. Resolved
        BY <1>1, <1>5, <2>3 DEF ReadRuntime
      <3>2. CASE call.proc = "resolve"
        <4>1. Return("selected")
          BY <3>1, <3>2 DEF Resolved
        <4> QED
          BY <2>1, <2>3, <3>2, <4>1, ReturnsCall
      <3>3. CASE call.proc = "invoke" /\ call.sel # call.want
        <4>1. Return("integrity")
          BY <3>1, <3>3 DEF Resolved
        <4> QED
          BY <4>1, ReturnsCall
      <3>4. CASE call.proc = "invoke" /\ call.sel = call.want
        <4>1. Advance(call.sel)
          BY <3>1, <3>4 DEF Resolved
        <4> QED
          BY <2>1, <2>3, <3>4, <4>1, AdvancesCall
      <3> QED
        BY <1>2, <3>2, <3>3, <3>4
    <2> QED
      BY <2>2, <2>3
  <1> QED
    BY <1>4, <1>5

LEMMA ReadResolvesOnce ==
  ASSUME IsCall, ResolvingOnce, ReadRuntime, UNCHANGED <<files, setup>>
  PROVE  ResolvingOnce'
  <1>1. /\ call.proc = "resolve" /\ call.step \in 1..15
        /\ call.step > 1 => /\ call.sel \in Intact
                            /\ \A k \in 1..(call.step - 1) : Was(RuntimeReads[k], call.sel)
    BY Order DEF ResolvingOnce, HadOnce, ReadRuntime
  <1>2. \A x, v : Was(x, v)' <=> Was(x, v)
    BY DEF Was
  <1>3. \A k \in 1..call.step : k = call.step \/ (call.step > 1 /\ k \in 1..(call.step - 1))
    BY <1>1
  <1>4. CASE call'.step = 0 /\ call'.result # "selected"
    BY <1>1, <1>4, ReadRuntimeOnce DEF ResolvingOnce
  <1>5. CASE call'.step = call.step + 1
    <2>1. /\ call'.proc = "resolve" /\ call'.sel \in Intact /\ call'.step # 16
          /\ files[RuntimeReads[call.step]] = call'.sel
          /\ call.step > 1 => call'.sel = call.sel
      BY <1>1, <1>5, ReadRuntimeOnce
    <2>2. \A k \in 1..call.step : Was(RuntimeReads[k], call'.sel)
      BY <1>1, <1>3, <2>1 DEF Was
    <2>3. call'.step \in 0..15 /\ call'.step # 0 /\ call'.step - 1 = call.step
      BY <1>1, <1>5, <2>1
    <2> QED
      BY <1>2, <2>1, <2>2, <2>3 DEF ResolvingOnce, HadOnce
  <1>6. CASE call'.step = 0 /\ call'.result = "selected"
    <2>1. /\ call'.proc = "resolve" /\ call.step = 15 /\ call'.sel = call.sel
          /\ files[RuntimeReads[15]] = call.sel
      BY <1>1, <1>6, ReadRuntimeOnce
    <2>2. \A k \in 1..15 : Was(RuntimeReads[k], call.sel)
      BY <1>1, <1>3, <2>1 DEF Was
    <2>3. HadOnce(RuntimeFiles, call.sel)
      BY <1>1, <2>1, <2>2, RuntimeNames DEF HadOnce
    <2> QED
      BY <1>2, <1>6, <2>1, <2>3 DEF ResolvingOnce, HadOnce
  <1> QED
    BY <1>1, <1>4, <1>5, <1>6, ReadRuntimeOnce

LEMMA ReadInvokesOnce ==
  ASSUME IsCall, NEW target, InvokingOnce(target), ReadRuntime, UNCHANGED <<files, setup>>
  PROVE  InvokingOnce(target)'
  <1>1. /\ call.proc = "invoke" /\ call.target = target /\ call.step \in 1..15
        /\ call.step > 1 => call.sel \in Intact
    BY Order DEF InvokingOnce, ReadRuntime
  <1> QED
    BY <1>1, ReadRuntimeOnce DEF InvokingOnce

LEMMA ReadRejects ==
  ASSUME IsCall, InvokingOnce("policy"), Rejecting, ReadRuntime,
         UNCHANGED <<files, setup, memo, found>>
  PROVE  Rejecting'
  <1>1. /\ call.proc = "invoke" /\ call.step \in 1..15
        /\ call.step > 1 => call.sel \in Intact
    BY Order DEF InvokingOnce, ReadRuntime
  <1>2. (Clean' = Clean) /\ (Unlabelled' => Unlabelled)
    BY Unmoved, Carry DEF Clean
  <1> SUFFICES ASSUME Clean, Unlabelled
               PROVE  /\ call'.step > 2 => files["binary"] \in Intact
                      /\ call'.step = 0 => call'.result # "ran"
    BY <1>2 DEF Rejecting
  <1>3. call'.step = 0 \/ call'.step = call.step + 1
    BY <1>1, ReadRuntimeOnce
  <1>4. call'.step = 0 => call'.result # "ran"
    BY <1>1, ReadRuntimeOnce
  <1>5. CASE call.step = 2 /\ call'.step = 3
    <2>1. RuntimeReads[2] = "binary"
      BY DEF RuntimeReads
    <2> QED
      BY <1>1, <1>4, <1>5, <2>1, ReadRuntimeOnce
  <1>6. CASE call.step # 2
    BY <1>1, <1>3, <1>4, <1>6 DEF Rejecting
  <1> QED
    BY <1>1, <1>3, <1>4, <1>5, <1>6

LEMMA ExecuteOnce ==
  ASSUME IsCall, NEW target, InvokingOnce(target), Execute, UNCHANGED <<files, setup>>
  PROVE  InvokingOnce(target)' /\ call'.step = 0
  <1>1. call.proc = "invoke" /\ call.target = target
    BY DEF InvokingOnce
  <1>2. CASE Return("invocation")
    BY <1>1, <1>2, ReturnsCall DEF InvokingOnce
  <1>3. CASE ~Return("invocation")
    <2>1. PICK answer \in Answers(files["binary"]) :
            call' = [call EXCEPT !.step = 0, !.result = "ran",
                                 !.bytes = answer[1], !.code = answer[2]]
      BY <1>3 DEF Execute
    <2>2. ~Flawed("rust_slow") /\ (Flawed("rust_slow")' <=> Flawed("rust_slow"))
      BY <1>3 DEF Execute, Flawed
    <2>3. /\ call'.proc = "invoke" /\ call'.target = target /\ call'.step = 0
          /\ call'.result = "ran"
      BY <1>1, <2>1 DEF IsCall
    <2> QED
      BY <2>2, <2>3 DEF InvokingOnce
  <1> QED
    BY <1>2, <1>3

LEMMA ExecuteRejects ==
  ASSUME IsCall, InvokingOnce("policy"), Rejecting, Clean /\ Unlabelled => Turned, Execute,
         UNCHANGED <<files, setup, memo, found>>
  PROVE  Rejecting'
  <1>1. (Clean' = Clean) /\ (Unlabelled' => Unlabelled)
    BY Unmoved, Carry DEF Clean
  <1>2. call'.step = 0
    BY ExecuteOnce
  <1> SUFFICES ASSUME Clean, Unlabelled
               PROVE  call'.result = "ran" => call'.bytes = "none" \/ call'.code # 0
    BY <1>1, <1>2 DEF Rejecting
  <1>3. call.target = "policy" /\ files["binary"] \in Intact
    <2>1. call.step = 16
      <3>1. call.step = Len(RuntimeReads) + 1
        BY DEF Execute
      <3> QED
        BY <3>1, Order
    <2> QED
      BY <2>1 DEF InvokingOnce, Rejecting
  <1>4. Report("policy") # "valid"
    BY DEF Turned, Labels, Report
  <1>5. CASE Return("invocation")
    BY <1>5, ReturnsCall
  <1>6. CASE ~Return("invocation")
    <2>1. PICK answer \in Answers(files["binary"]) :
            call' = [call EXCEPT !.step = 0, !.result = "ran",
                                 !.bytes = answer[1], !.code = answer[2]]
      BY <1>6 DEF Execute
    <2>2. call'.bytes = answer[1] /\ call'.code = answer[2]
      BY <2>1 DEF IsCall
    <2>3. answer = <<"none", 134>> \/ answer = <<Report("policy"), 1>>
      BY <1>3, <1>4 DEF Answers
    <2> QED
      BY <2>2, <2>3
  <1> QED
    BY <1>5, <1>6

LEMMA ProcedureOnce ==
  ASSUME IsCall, setup.tool = "doctor", Once, Procedure, UNCHANGED world
  PROVE  Once'
  <1>1. /\ World /\ Kept /\ ProceedingOnce /\ (stage # "done" /\ Clean => Facts)
        /\ exit = 0 => witnessed
        /\ UNCHANGED <<files, setup, updates, witnessed, stage, exit, memo, found>>
    BY DEF Once, world, Procedure
  <1>2. call.step # 0
    <2>1. DOMAIN LockReads = 1..6
      BY DEF LockReads
    <2>2. CASE ReadRuntime
      <3>1. call.step \in DOMAIN RuntimeReads
        BY <2>2 DEF ReadRuntime
      <3> QED
        BY <3>1, Order
    <2>3. CASE Execute
      <3>1. call.step = Len(RuntimeReads) + 1
        BY <2>3 DEF Execute
      <3> QED
        BY <3>1, Order
    <2>4. CASE LoadRuntime
      <3>1. call.step \in DOMAIN LockReads
        BY <2>4 DEF LoadRuntime
      <3> QED
        BY <2>1, <3>1
    <2>5. CASE ReadValidator \/ RunSnapshot
      BY <2>5 DEF ReadValidator, RunSnapshot
    <2> QED
      BY <2>2, <2>3, <2>4, <2>5 DEF Procedure, Canonical
  <1>3. Clean' = Clean /\ \A x, v : Was(x, v) => Was(x, v)'
    BY <1>1, Unmoved DEF Clean
  <1>4. Facts => Facts'
    BY <1>1, <1>3, Carry DEF Facts, Turned, LegibleOnce, LegibleIn
  <1>5. Kept'
    BY <1>1, <1>3, Carry DEF Kept
  <1>6. ProceedingOnce'
    <2>1. CASE stage = "lock"
      <3>1. LoadingOnce /\ LoadRuntime
        BY <1>1, <2>1 DEF ProceedingOnce, LoadingOnce, Procedure, ReadRuntime, Execute,
                          Canonical, ReadValidator, RunSnapshot
      <3> QED
        BY <1>1, <2>1, <3>1, LoadRuntimeOnce DEF ProceedingOnce
    <2>2. ASSUME NEW which \in {"plugin_validator", "skill_validator"}, RunningOnce(which),
                 stage \in {"run_plugin", "run_skill"}
          PROVE  RunningOnce(which)'
      <3>1. memo.runtime \in Intact
        BY <1>1, <2>2 DEF Kept, HadOnce
      <3>2. ReadValidator \/ RunSnapshot
        BY <2>2 DEF RunningOnce, Procedure, ReadRuntime, Execute, Canonical, LoadRuntime
      <3> QED
        BY <1>1, <2>2, <3>1, <3>2, ValidatorOnce
    <2>3. CASE stage = "run_plugin"
      <3>1. RunningOnce("plugin_validator")'
        BY <1>1, <2>2, <2>3 DEF ProceedingOnce
      <3> QED
        BY <1>1, <2>3, <3>1 DEF ProceedingOnce
    <2>4. CASE stage = "run_skill"
      <3>1. RunningOnce("skill_validator")'
        BY <1>1, <2>2, <2>4 DEF ProceedingOnce
      <3> QED
        BY <1>1, <2>4, <3>1 DEF ProceedingOnce
    <2>5. CASE stage = "artifact"
      <3>1. ResolvingOnce /\ ReadRuntime
        BY <1>1, <2>5 DEF ProceedingOnce, ResolvingOnce, Procedure, Execute, Canonical,
                          LoadRuntime, ReadValidator, RunSnapshot
      <3> QED
        BY <1>1, <2>5, <3>1, ReadResolvesOnce DEF ProceedingOnce
    <2>6. ASSUME NEW target, InvokingOnce(target)
          PROVE  InvokingOnce(target)' /\ (ReadRuntime \/ Execute)
      <3>1. ReadRuntime \/ Execute
        BY <2>6 DEF InvokingOnce, Procedure, Canonical, LoadRuntime, ReadValidator, RunSnapshot
      <3> QED
        BY <1>1, <2>6, <3>1, ReadInvokesOnce, ExecuteOnce
    <2>7. CASE stage = "rust_okf_core"
      <3>1. InvokingOnce("knowledge")'
        BY <1>1, <2>6, <2>7 DEF ProceedingOnce
      <3> QED
        BY <1>1, <2>7, <3>1 DEF ProceedingOnce
    <2>8. CASE stage = "rust_repository_policy"
      <3>1. InvokingOnce("policy") /\ Rejecting /\ (Clean /\ Unlabelled => Turned)
        BY <1>1, <2>8 DEF ProceedingOnce, Facts
      <3>2. InvokingOnce("policy")' /\ (ReadRuntime \/ Execute)
        BY <2>6, <3>1
      <3>3. Rejecting'
        BY <1>1, <3>1, <3>2, ReadRejects, ExecuteRejects
      <3> QED
        BY <1>1, <2>8, <3>2, <3>3 DEF ProceedingOnce
    <2> QED
      BY <1>1, <1>2, <2>1, <2>3, <2>4, <2>5, <2>7, <2>8 DEF ProceedingOnce
  <1> QED
    BY <1>1, <1>3, <1>4, <1>5, <1>6, WorldStays DEF Once

-----------------------------------------------------------------------------
(* The statements of an audit that one file is replaced under *)

\* Whatever a statement leaves alone, and that what was seen stays seen.
LEMMA StatementOnce ==
  ASSUME setup.tool = "doctor", Once, UNCHANGED world,
         exit' = exit \/ exit' # 0, Kept', ProceedingOnce',
         stage' # "done" /\ Clean' => Facts'
  PROVE  Once'
  BY WorldStays DEF Once, world

LEMMA Unmemorized ==
  ASSUME Kept, UNCHANGED <<files, setup, memo>>,
         stage' \notin {"run_plugin", "run_skill"} \/ stage \in {"run_plugin", "run_skill"}
  PROVE  Kept'
  BY Unmoved, Carry DEF Kept

LEMMA PluginManifestOnce ==
  ASSUME setup.tool = "doctor", Once, UNCHANGED world, PluginManifest PROVE Once'
  <1>1. /\ Kept /\ UNCHANGED <<files, setup, memo, exit>>
        /\ stage = "plugin_manifest" /\ stage' = "lock"
    BY DEF Once, world, PluginManifest, At, Then
  <1>2. /\ Find({<<"plugin_manifest_parse_smoke", FromFile("plugin_json")>>})
        /\ Call("load", "none", "none")
    BY DEF PluginManifest
  <1>3. Clean' => files["plugin_json"] \in Intact
    BY <1>2, FindsOne DEF FromFile
  <1>4. Clean' => Facts'
    BY <1>1, <1>3 DEF Facts, Had, Was, Unparsed, Unvalidated, Uncataloged, Unselected, Unread,
                      Unexecuted, Unasked
  <1>5. ProceedingOnce'
    BY <1>1, <1>2, CallsCall DEF ProceedingOnce, LoadingOnce
  <1> QED
    BY <1>1, <1>4, <1>5, Unmemorized, StatementOnce

LEMMA ListSkillsOnce ==
  ASSUME IsCall, setup.tool = "doctor", Once, UNCHANGED world, ListSkills PROVE Once'
  <1>1. /\ Kept /\ LoadingOnce /\ (Clean => Facts)
        /\ UNCHANGED <<files, setup, updates, exit, stage, found>>
        /\ stage = "lock" /\ call.step = 2
    BY DEF Once, world, ListSkills, At, ProceedingOnce
  <1>2. \/ memo' = memo
        \/ memo' = [memo EXCEPT !.listed = IF files["skills"] = "empty" THEN "none" ELSE "some"]
    BY DEF ListSkills
  <1>3. Kept'
    BY <1>1, <1>2 DEF Kept, HadOnce, Had, Was
  <1>4. Clean' => Facts'
    <2>1. Clean' = Clean
      BY <1>1 DEF Clean
    <2>2. Had("plugin_json", Intact)' <=> Had("plugin_json", Intact)
      BY <1>1 DEF Had, Was
    <2> QED
      BY <1>1, <2>1, <2>2 DEF Facts, Unparsed, Unvalidated, Uncataloged, Unselected, Unread,
                      Unexecuted, Unasked
  <1>5. LoadingOnce'
    <2>1. CASE Return("lock")
      BY <1>1, <2>1, ReturnsCall DEF LoadingOnce
    <2>2. CASE UNCHANGED call
      BY <1>1, <2>2 DEF LoadingOnce, HadOnce, Was
    <2> QED
      BY <2>1, <2>2 DEF ListSkills
  <1>6. ProceedingOnce'
    BY <1>1, <1>5 DEF ProceedingOnce
  <1> QED
    BY <1>1, <1>3, <1>4, <1>6, StatementOnce

\* A finding that fails or is inconclusive is never lost.
LEMMA Tainted ==
  ASSUME setup.tool = "doctor", Once, UNCHANGED world, UNCHANGED exit, ~Clean', Kept',
         ProceedingOnce'
  PROVE  Once'
  BY StatementOnce

LEMMA NotLoadedOnce ==
  ASSUME setup.tool = "doctor", Once, UNCHANGED world, NotLoaded PROVE Once'
  <1>1. /\ Kept /\ LoadingOnce /\ UNCHANGED <<files, setup, memo, exit, call>>
        /\ stage = "lock" /\ stage' = "catalog" /\ call.step = 0 /\ call.result # "loaded"
    BY DEF Once, world, NotLoaded, At, Then, Returned, ProceedingOnce
  <1> DEFINE checks == {"canonical_validator_runtime", "plugin_manifest_canonical"}
                         \cup (IF memo.listed = "some" THEN {"skill_canonical"} ELSE {})
  <1>2. \/ Find({<<"canonical_validator_lock", "FAIL">>})
        \/ Find(All(checks, CanonicalStatus(call.result)))
    BY DEF NotLoaded
  <1>3. CanonicalStatus(call.result) \in {"FAIL", "INCONCLUSIVE"}
    BY <1>1 DEF LoadingOnce, CanonicalStatus
  <1>4. "canonical_validator_runtime" \in checks
    OBVIOUS
  <1> HIDE DEF checks
  <1>5. ~Clean'
    BY <1>2, <1>3, <1>4, FindsOne, FindsAll
  <1>6. ProceedingOnce'
    BY <1>1 DEF ProceedingOnce
  <1> QED
    BY <1>1, <1>5, <1>6, Unmemorized, Tainted

LEMMA LoadedOnce ==
  ASSUME setup.tool = "doctor", Once, UNCHANGED world, Loaded PROVE Once'
  <1>1. /\ Kept /\ LoadingOnce /\ (Clean => Facts)
        /\ UNCHANGED <<files, setup, exit>>
        /\ stage = "lock" /\ stage' = "run_plugin" /\ call.step = 0
        /\ call.result = "loaded"
    BY DEF Once, world, Loaded, At, Then, Returned, ProceedingOnce
  <1>2. /\ Find({<<"canonical_validator_runtime", "PASS">>})
        /\ memo' = [memo EXCEPT !.runtime = call.sel]
        /\ Call("validator", call.sel, "plugin_validator")
    BY DEF Loaded
  <1>3. HadOnce(CanonicalFiles, call.sel)
    BY <1>1 DEF LoadingOnce
  <1>4. Clean' => Clean
    BY <1>2, FindsOne
  <1>5. /\ memo'.runtime = call.sel /\ memo'.selection = memo.selection
        /\ memo'.unavailable = memo.unavailable /\ memo'.listed = memo.listed
        /\ memo' = [listed |-> memo'.listed, runtime |-> memo'.runtime,
             selection |-> memo'.selection, unavailable |-> memo'.unavailable,
             okf |-> memo'.okf, receipt |-> memo'.receipt,
             document |-> memo'.document, ask |-> memo'.ask]
    BY <1>1, <1>2 DEF Kept
  <1>6. Kept'
    BY <1>1, <1>3, <1>5 DEF Kept, HadOnce, Had, Was
  <1>7. Clean' => Facts'
    <2>1. Had("plugin_json", Intact)' <=> Had("plugin_json", Intact)
      BY <1>1 DEF Had, Was
    <2> QED
      BY <1>1, <1>4, <2>1 DEF Facts, Unparsed, Unvalidated, Uncataloged, Unselected, Unread,
                              Unexecuted, Unasked
  <1>8. RunningOnce("plugin_validator")'
    BY <1>2, <1>5, CallsCall DEF RunningOnce
  <1>9. ProceedingOnce'
    BY <1>1, <1>8 DEF ProceedingOnce
  <1> QED
    BY <1>1, <1>6, <1>7, <1>9, StatementOnce

\* What a validator's result says of it.
LEMMA StatusOnce ==
  ASSUME NEW which, RunningOnce(which), call.step = 0,
         CanonicalStatus(call.result) \notin {"FAIL", "INCONCLUSIVE"}
  PROVE  Ran(which, memo.runtime)
  BY DEF RunningOnce, CanonicalStatus

\* The facts a statement inherits.
LEMMA Inherited ==
  ASSUME UNCHANGED <<files, setup, updates>>
  PROVE  /\ \A x : Had(x, Intact) => Had(x, Intact)'
         /\ CanonicalOnce => CanonicalOnce'
         /\ AskedOnce => AskedOnce'
         /\ RuledOnce => RuledOnce'
         /\ Flawed("rust_slow")' = Flawed("rust_slow")
         /\ Turned' = Turned
         /\ memo' = memo => (Unlabelled' => Unlabelled)
         /\ RuledOnce' => RuledOnce
         /\ LegibleOnce' = LegibleOnce
  <1>1. (RuledOnce' => RuledOnce) /\ LegibleOnce' = LegibleOnce
    BY DEF RuledOnce, Had, Was, LegibleOnce, LegibleIn
  <1>2. \A x : Had(x, Intact) => Had(x, Intact)'
    BY DEF Had, Was, Intact
  <1> QED
    BY <1>1, <1>2, Unmoved, Carry DEF Turned

LEMMA PluginValidatedOnce ==
  ASSUME setup.tool = "doctor", Once, UNCHANGED world, PluginValidated PROVE Once'
  <1>1. /\ Kept /\ RunningOnce("plugin_validator") /\ (Clean => Facts)
        /\ UNCHANGED <<files, setup, updates, memo, exit>>
        /\ stage = "run_plugin" /\ call.step = 0
    BY DEF Once, world, PluginValidated, At, Returned, ProceedingOnce
  <1>2. Find({<<"plugin_manifest_canonical", CanonicalStatus(call.result)>>})
    BY DEF PluginValidated
  <1>3. Clean' => Clean /\ Ran("plugin_validator", memo.runtime)
    BY <1>1, <1>2, FindsOne, StatusOnce
  <1>4. /\ Had("plugin_json", Intact) => Had("plugin_json", Intact)'
        /\ Ran("plugin_validator", memo.runtime) => Ran("plugin_validator", memo.runtime)'
    BY <1>1 DEF Had, Was, Ran, Flawed
  <1>5. CASE memo.listed = "none"
    <2>1. stage' = "catalog" /\ call' = call
      BY <1>5 DEF PluginValidated, Then
    <2>2. Clean' => CanonicalOnce
      BY <1>1, <1>3, <1>5 DEF Kept, CanonicalOnce, HadOnce
    <2>3. Clean' => CanonicalOnce'
      BY <1>1, <2>2, Inherited
    <2>4. Clean' => Facts'
      BY <1>1, <1>3, <1>4, <2>1, <2>3 DEF Facts, Unparsed, Unvalidated, Uncataloged,
                                          Unselected, Unread, Unexecuted, Unasked
    <2>5. ProceedingOnce'
      BY <1>1, <2>1 DEF ProceedingOnce
    <2> QED
      BY <1>1, <2>1, <2>4, <2>5, Unmemorized, StatementOnce
  <1>6. CASE memo.listed # "none"
    <2>1. stage' = "run_skill" /\ Call("validator", memo.runtime, "skill_validator")
      BY <1>6 DEF PluginValidated, Then
    <2>2. Clean' => Facts'
      BY <1>1, <1>3, <1>4, <2>1 DEF Facts, Unparsed, Unvalidated, Uncataloged, Unselected,
                                    Unread, Unexecuted, Unasked
    <2>3. RunningOnce("skill_validator")'
      BY <1>1, <2>1, CallsCall DEF RunningOnce
    <2>4. ProceedingOnce'
      BY <2>1, <2>3 DEF ProceedingOnce
    <2> QED
      BY <1>1, <2>1, <2>2, <2>4, Unmemorized, StatementOnce
  <1> QED
    BY <1>5, <1>6

LEMMA SkillValidatedOnce ==
  ASSUME setup.tool = "doctor", Once, UNCHANGED world, SkillValidated PROVE Once'
  <1>1. /\ Kept /\ RunningOnce("skill_validator") /\ (Clean => Facts)
        /\ UNCHANGED <<files, setup, memo, exit, call>>
        /\ stage = "run_skill" /\ stage' = "catalog" /\ call.step = 0
    BY DEF Once, world, SkillValidated, At, Then, Returned, ProceedingOnce
  <1>2. Find({<<"skill_canonical", CanonicalStatus(call.result)>>})
    BY DEF SkillValidated
  <1>3. Clean' => Clean /\ Ran("skill_validator", memo.runtime)
    BY <1>1, <1>2, FindsOne, StatusOnce
  <1>4. Clean' => CanonicalOnce /\ Had("plugin_json", Intact)
    BY <1>1, <1>3 DEF Facts, Kept, CanonicalOnce, HadOnce, Unparsed
  <1>5. Clean' => CanonicalOnce' /\ Had("plugin_json", Intact)'
    BY <1>1, <1>4, Unmoved, Carry
  <1>6. Clean' => Facts'
    BY <1>1, <1>5 DEF Facts, Unparsed, Unvalidated, Uncataloged, Unselected, Unread,
                      Unexecuted, Unasked
  <1>7. ProceedingOnce'
    BY <1>1 DEF ProceedingOnce
  <1> QED
    BY <1>1, <1>6, <1>7, Unmemorized, StatementOnce

LEMMA CatalogOnce ==
  ASSUME setup.tool = "doctor", Once, UNCHANGED world, Catalog PROVE Once'
  <1>1. /\ Kept /\ (Clean => Facts)
        /\ UNCHANGED <<files, setup, updates, memo, exit>>
        /\ stage = "catalog" /\ stage' = "artifact"
    BY DEF Once, world, Catalog, At, Then
  <1>2. /\ Find({<<"plugin_toolchain_lock", FromFile("catalog")>>})
        /\ Call("resolve", "none", "none")
    BY DEF Catalog
  <1>3. Clean' => Clean /\ files["catalog"] \in Intact
    BY <1>2, FindsOne DEF FromFile
  <1>4. files["catalog"] \in Intact => Had("catalog", Intact)'
    BY <1>1 DEF Had, Was
  <1>5. Clean' => Facts'
    BY <1>1, <1>3, <1>4, Inherited DEF Facts, Unparsed, Unvalidated, Uncataloged, Unselected,
                                       Unread, Unexecuted, Unasked
  <1>6. ProceedingOnce'
    BY <1>1, <1>2, CallsCall DEF ProceedingOnce, ResolvingOnce
  <1> QED
    BY <1>1, <1>5, <1>6, Unmemorized, StatementOnce

LEMMA ArtifactOnce ==
  ASSUME setup.tool = "doctor", Once, UNCHANGED world, Artifact PROVE Once'
  <1>1. /\ Kept /\ ResolvingOnce /\ (Clean => Facts)
        /\ UNCHANGED <<files, setup, updates, exit, call>>
        /\ stage = "artifact" /\ stage' = "okf" /\ call.step = 0
    BY DEF Once, world, Artifact, At, Then, Returned, ProceedingOnce
  <1>2. ProceedingOnce'
    BY <1>1 DEF ProceedingOnce
  <1>3. CASE call.result = "selected"
    <2>1. /\ Find({<<"rust_core_artifact", "PASS">>})
          /\ memo' = [memo EXCEPT !.selection = call.sel]
      BY <1>3 DEF Artifact
    <2>2. HadOnce(RuntimeFiles, call.sel)
      BY <1>1, <1>3 DEF ResolvingOnce
    <2>3. Clean' => Clean
      BY <2>1, FindsOne
    <2>4. /\ memo'.selection = call.sel /\ memo'.unavailable = memo.unavailable
          /\ memo'.listed = memo.listed
          /\ memo' = [listed |-> memo'.listed, runtime |-> memo'.runtime,
               selection |-> memo'.selection, unavailable |-> memo'.unavailable,
               okf |-> memo'.okf, receipt |-> memo'.receipt,
               document |-> memo'.document, ask |-> memo'.ask]
      BY <1>1, <2>1 DEF Kept
    <2>5. Kept'
      BY <1>1, <2>2, <2>4 DEF Kept, HadOnce, Had, Was
    <2>6. Clean' => Facts'
      BY <1>1, <2>2, <2>3, <2>4, Inherited
      DEF Facts, HadOnce, Unparsed, Unvalidated, Uncataloged, Unselected, Unread, Unexecuted,
          Unasked
    <2> QED
      BY <1>1, <1>2, <2>5, <2>6, StatementOnce
  <1>4. CASE call.result # "selected"
    <2>1. PICK status \in {"FAIL", "INCONCLUSIVE"} :
            /\ Find({<<"rust_core_artifact", status>>})
            /\ memo' = [memo EXCEPT !.unavailable = status]
      BY <1>4 DEF Artifact
    <2>2. ~Clean'
      BY <2>1, FindsOne
    <2>3. /\ memo'.selection = memo.selection /\ memo'.unavailable = status
          /\ memo'.listed = memo.listed
          /\ memo' = [listed |-> memo'.listed, runtime |-> memo'.runtime,
               selection |-> memo'.selection, unavailable |-> memo'.unavailable,
               okf |-> memo'.okf, receipt |-> memo'.receipt,
               document |-> memo'.document, ask |-> memo'.ask]
      BY <1>1, <2>1 DEF Kept
    <2>4. Kept'
      BY <1>1, <2>3 DEF Kept, HadOnce, Had, Was
    <2> QED
      BY <1>1, <1>2, <2>2, <2>4, Tainted
  <1> QED
    BY <1>3, <1>4

LEMMA OkfOnce ==
  ASSUME setup.tool = "doctor", Once, UNCHANGED world, Okf PROVE Once'
  <1>1. /\ Kept /\ World /\ (Clean => Facts)
        /\ UNCHANGED <<files, setup, updates, exit, call>>
        /\ stage = "okf" /\ stage' = "okf_halves" /\ call.step = 0
    BY DEF Once, world, Okf, At, Then, ProceedingOnce
  <1> DEFINE status == CASE Report("knowledge") = "valid" -> "PASS"
                         [] Report("knowledge") = "partial" -> "INCONCLUSIVE"
                         [] OTHER -> "FAIL"
  <1>2. /\ Find({<<"okf_core", status>>})
        /\ memo' = [memo EXCEPT !.okf = Report("knowledge")]
    BY DEF Okf
  <1>3. status \notin {"FAIL", "INCONCLUSIVE"} => files["knowledge"] \in Intact
    BY <1>1 DEF Report, World, Labels, Intact
  <1> HIDE DEF status
  <1>4. Clean' => Clean /\ files["knowledge"] \in Intact
    BY <1>2, <1>3, FindsOne
  <1>5. files["knowledge"] \in Intact => Had("knowledge", Intact)'
    BY <1>1 DEF Had, Was
  <1>6. /\ memo'.selection = memo.selection /\ memo'.unavailable = memo.unavailable
        /\ memo'.listed = memo.listed
        /\ memo' = [listed |-> memo'.listed, runtime |-> memo'.runtime,
             selection |-> memo'.selection, unavailable |-> memo'.unavailable,
             okf |-> memo'.okf, receipt |-> memo'.receipt,
             document |-> memo'.document, ask |-> memo'.ask]
    BY <1>1, <1>2 DEF Kept
  <1>7. Kept'
    BY <1>1, <1>6 DEF Kept, HadOnce, Had, Was
  <1>8. Clean' => Facts'
    BY <1>1, <1>4, <1>5, <1>6, Inherited DEF Facts, Unparsed, Unvalidated, Uncataloged,
                                       Unselected, Unread, Unexecuted, Unasked
  <1>9. ProceedingOnce'
    BY <1>1 DEF ProceedingOnce
  <1> QED
    BY <1>1, <1>7, <1>8, <1>9, StatementOnce

\* The Rust half of a check is called, or its absence is a finding.
LEMMA RustHalfOnce ==
  ASSUME Kept, NEW target, NEW rust, NEW differential, NEW next,
         RustHalf(target, rust, differential, next)
  PROVE  \/ ~Clean' /\ stage' = next /\ call' = call
         \/ /\ Clean' = Clean /\ stage' = rust
            /\ call'.proc = "invoke" /\ call'.step = 1 /\ call'.target = target
  <1>1. CASE memo.selection = "none"
    <2>1. /\ Find(All({rust, differential}, memo.unavailable))
          /\ stage' = next /\ call' = call
      BY <1>1 DEF RustHalf, Then
    <2>2. ~Clean'
      BY <2>1, FindsAll DEF Kept
    <2> QED
      BY <2>1, <2>2
  <1>2. CASE memo.selection # "none"
    <2>1. /\ Call("invoke", memo.selection, target) /\ stage' = rust /\ found' = found
      BY <1>2 DEF RustHalf, Then
    <2>2. Clean' = Clean
      BY <2>1 DEF Clean
    <2> QED
      BY <2>1, <2>2, CallsCall
  <1> QED
    BY <1>1, <1>2

LEMMA OkfHalvesOnce ==
  ASSUME setup.tool = "doctor", Once, UNCHANGED world, OkfHalves PROVE Once'
  <1>1. /\ Kept /\ (Clean => Facts)
        /\ UNCHANGED <<files, setup, updates, exit, memo>>
        /\ stage = "okf_halves" /\ call.step = 0
        /\ RustHalf("knowledge", "rust_okf_core", "okf_runtime_differential", "ask_matt")
    BY DEF Once, world, OkfHalves, At, ProceedingOnce
  <1>2. CASE ~Clean' /\ stage' = "ask_matt" /\ call' = call
    <2>1. ProceedingOnce'
      BY <1>1, <1>2 DEF ProceedingOnce
    <2> QED
      BY <1>1, <1>2, <2>1, Unmemorized, Tainted
  <1>3. CASE /\ Clean' = Clean /\ stage' = "rust_okf_core"
             /\ call'.proc = "invoke" /\ call'.step = 1 /\ call'.target = "knowledge"
    <2>1. ProceedingOnce'
      BY <1>3 DEF ProceedingOnce, InvokingOnce
    <2>2. Clean' => Facts'
      BY <1>1, <1>3, Inherited DEF Facts, Unparsed, Unvalidated, Uncataloged, Unselected,
                                   Unread, Unexecuted, Unasked
    <2> QED
      BY <1>1, <1>3, <2>1, <2>2, Unmemorized, StatementOnce
  <1> QED
    BY <1>1, <1>2, <1>3, RustHalfOnce

\* A Rust half that is found to pass was executed, and said so.
LEMMA RustPassed ==
  ASSUME NEW target, InvokingOnce(target), call.step = 0,
         NEW rust, NEW differential, NEW python, NEW next,
         RustChecked(rust, differential, python, next), Clean'
  PROVE  /\ Clean /\ call.result = "ran" /\ ~Flawed("rust_slow")
         /\ call.bytes # "none" /\ call.code = 0
  <1> DEFINE status == CASE call.result = "integrity" -> "FAIL"
                         [] call.result = "invocation" -> "INCONCLUSIVE"
                         [] OTHER -> InvocationStatus
             report == IF call.result = "ran" THEN call.bytes ELSE "none"
             verdict == IF report = "none" THEN "INCONCLUSIVE"
                        ELSE IF report = python THEN "PASS" ELSE "FAIL"
  <1>1. /\ Find({<<rust, status>>, <<differential, verdict>>})
        /\ call.result \notin {"unsupported", "garbled"}
    BY DEF RustChecked
  <1>2. \/ status \in {"FAIL", "INCONCLUSIVE"}
        \/ call.result \in {"unsupported", "garbled"}
        \/ /\ call.result = "ran" /\ ~Flawed("rust_slow")
           /\ call.bytes # "none" /\ call.code = 0
    BY DEF InvokingOnce, InvocationStatus
  <1> HIDE DEF status, verdict
  <1> QED
    BY <1>1, <1>2, FindsTwo

LEMMA OkfCheckedOnce ==
  ASSUME setup.tool = "doctor", Once, UNCHANGED world,
         RustChecked("rust_okf_core", "okf_runtime_differential", memo.okf, "ask_matt")
  PROVE  Once'
  <1>1. /\ Kept /\ InvokingOnce("knowledge") /\ (Clean => Facts)
        /\ UNCHANGED <<files, setup, updates, memo, call, exit>>
        /\ stage = "rust_okf_core" /\ stage' = "ask_matt" /\ call.step = 0
    BY DEF Once, world, RustChecked, At, Then, Returned, ProceedingOnce
  <1>2. Clean' => Clean /\ ~Flawed("rust_slow")
    BY <1>1, RustPassed
  <1>3. Clean' => Facts'
    BY <1>1, <1>2, Inherited DEF Facts, Unparsed, Unvalidated, Uncataloged, Unselected,
                                 Unread, Unexecuted, Unasked
  <1>4. ProceedingOnce'
    BY <1>1 DEF ProceedingOnce
  <1> QED
    BY <1>1, <1>3, <1>4, Unmemorized, StatementOnce

\* A traceback is no success.
LEMMA TracebackOnce ==
  ASSUME setup.tool = "doctor", Once, UNCHANGED world, Traceback, call.step = 0
  PROVE  Once'
  <1>1. /\ Kept /\ UNCHANGED <<files, setup, memo, call>> /\ stage' = "done" /\ exit' # 0
    BY DEF Once, world, Traceback
  <1>2. ProceedingOnce'
    BY <1>1 DEF ProceedingOnce
  <1> QED
    BY <1>1, <1>2, Unmemorized, StatementOnce

\* A local of audit() is assigned that the seen files are not about.
LEMMA MemorizedOnce ==
  ASSUME Kept, UNCHANGED <<files, setup>>, stage' \notin {"run_plugin", "run_skill"}, NEW v,
         \/ memo' = memo
         \/ memo' = [memo EXCEPT !.ask = v]
         \/ memo' = [memo EXCEPT !.receipt = v]
         \/ memo' = [memo EXCEPT !.document = v]
  PROVE  Kept' /\ memo'.selection = memo.selection
  <1>1. /\ memo'.selection = memo.selection /\ memo'.unavailable = memo.unavailable
        /\ memo'.listed = memo.listed
        /\ memo' = [listed |-> memo'.listed, runtime |-> memo'.runtime,
             selection |-> memo'.selection, unavailable |-> memo'.unavailable,
             okf |-> memo'.okf, receipt |-> memo'.receipt,
             document |-> memo'.document, ask |-> memo'.ask]
    BY DEF Kept
  <1> QED
    BY <1>1 DEF Kept, HadOnce, Had, Was

LEMMA AskMattOnce ==
  ASSUME setup.tool = "doctor", Once, UNCHANGED world, AskMatt PROVE Once'
  <1>1. /\ Kept /\ (Clean => Facts)
        /\ UNCHANGED <<files, setup, updates, call, exit>>
        /\ stage = "ask_matt" /\ stage' = "policy" /\ call.step = 0
    BY DEF Once, world, AskMatt, At, Then, ProceedingOnce
  <1> DEFINE parsed == files["ask_lock"] \in Intact /\ files["ask_adapter"] \in Intact
             installed == files["ask_installed"]
             status == IF installed \in {"missing", "odd"} THEN "INCONCLUSIVE"
                       ELSE IF installed = files["ask_lock"] THEN "PASS" ELSE "FAIL"
  <1>2. Clean' => Clean /\ Asked
    <2>1. CASE ~parsed
      <3>1. Find({<<"ask_matt_source_lock", "FAIL">>})
        BY <2>1 DEF AskMatt
      <3> QED
        BY <3>1, FindsOne
    <2>2. CASE parsed /\ files["ask_lock"] # files["ask_adapter"]
      <3>1. Find({<<"ask_matt_adapter_lock", "FAIL">>,
                  <<"ask_matt_installed_source", status>>})
        BY <2>2 DEF AskMatt, IsFile
      <3> HIDE DEF status
      <3>2. "FAIL" \in {"FAIL", "INCONCLUSIVE"}
        OBVIOUS
      <3> QED
        BY <3>1, <3>2, FindsTwo, Zenon
    <2>3. CASE parsed /\ files["ask_lock"] = files["ask_adapter"]
      <3>1. Find({<<"ask_matt_adapter_lock", "PASS">>,
                  <<"ask_matt_installed_source", status>>})
        BY <2>3 DEF AskMatt, IsFile
      <3>2. status \notin {"FAIL", "INCONCLUSIVE"} <=> Asked
        BY <2>3, IsAsked DEF Intact
      <3> HIDE DEF status
      <3>3. Clean' => Clean /\ status \notin {"FAIL", "INCONCLUSIVE"}
        BY <3>1, FindsTwo, Zenon
      <3> QED
        BY <3>2, <3>3
    <2> QED
      BY <2>1, <2>2, <2>3
  <1>3. Asked => AskedOnce'
    <2>1. Asked => AskedOnce
      BY IsAsked DEF AskedOnce, HadOnce, Was
    <2> QED
      BY <1>1, <2>1, Inherited
  <1>4. Kept' /\ memo'.selection = memo.selection
    <2>1. memo' = memo \/ memo' = [memo EXCEPT !.ask = files["ask_lock"]]
      BY DEF AskMatt
    <2> QED
      BY <1>1, <2>1, MemorizedOnce
  <1>5. Clean' => Facts'
    BY <1>1, <1>2, <1>3, <1>4, Inherited DEF Facts, Unparsed, Unvalidated, Uncataloged,
                                             Unselected, Unread, Unexecuted, Unasked
  <1>6. ProceedingOnce'
    BY <1>1 DEF ProceedingOnce
  <1> QED
    BY <1>1, <1>4, <1>5, <1>6, StatementOnce

LEMMA NoPolicyOnce ==
  ASSUME setup.tool = "doctor", Once, UNCHANGED world, NoPolicy PROVE Once'
  <1> DEFINE checks == {"repository_policy", "rust_repository_policy"}
  <1>1. /\ Kept /\ (Clean => Facts)
        /\ UNCHANGED <<files, setup, updates, memo, call, exit>>
        /\ stage = "policy" /\ stage' = "git" /\ call.step = 0
        /\ ~IsFile("policy") /\ Find(All(checks, "WARN"))
    BY DEF Once, world, NoPolicy, At, Then, ProceedingOnce
  <1>2. Clean' => Clean
    <2>1. checks # {}
      OBVIOUS
    <2> HIDE DEF checks
    <2> QED
      BY <1>1, <2>1, FindsAll
  <1>3. ~Unlabelled'
    <2>1. RuledOnce
      BY <1>1 DEF RuledOnce, Had, Was, IsFile
    <2> QED
      BY <1>1, <2>1, Inherited DEF Unlabelled
  <1>4. Clean' => Facts'
    BY <1>1, <1>2, <1>3, Inherited DEF Facts, Unparsed, Unvalidated, Uncataloged,
                                       Unselected, Unread, Unexecuted, Unasked
  <1>5. ProceedingOnce'
    BY <1>1 DEF ProceedingOnce
  <1> QED
    BY <1>1, <1>4, <1>5, Unmemorized, StatementOnce

LEMMA PolicyOnce ==
  ASSUME setup.tool = "doctor", Once, UNCHANGED world, Policy PROVE Once'
  <1> DEFINE status == IF Report("policy") = "valid" THEN "PASS" ELSE "FAIL"
  <1>1. /\ Kept /\ (Clean => Facts)
        /\ UNCHANGED <<files, setup, updates, call, exit>>
        /\ stage = "policy" /\ stage' = "policy_again" /\ call.step = 0
        /\ Find({<<"repository_policy", status>>})
        /\ memo' = [memo EXCEPT !.receipt = Report("policy")]
    BY DEF Once, world, Policy, At, Then, ProceedingOnce
  <1>2. status \notin {"FAIL", "INCONCLUSIVE"} => files["policy"] \in Intact \cup Labels
    BY DEF Report, Intact, Labels
  <1> HIDE DEF status
  <1>3. Clean' => Clean /\ files["policy"] \in Intact \cup Labels
    BY <1>1, <1>2, FindsOne
  <1>4. files["policy"] \in Intact \cup Labels => Had("policy", Intact \cup Labels)'
    BY <1>1 DEF Had, Was
  <1>5. Kept' /\ memo'.selection = memo.selection
    BY <1>1, MemorizedOnce
  <1>6. Clean' => Facts'
    BY <1>1, <1>3, <1>4, <1>5, Inherited DEF Facts, Unparsed, Unvalidated, Uncataloged,
                                             Unselected, Unread, Unexecuted, Unasked
  <1>7. ProceedingOnce'
    BY <1>1 DEF ProceedingOnce
  <1> QED
    BY <1>1, <1>5, <1>6, <1>7, StatementOnce

\* A policy that was valid when it was read first and is neither in order nor
\* labelled when it is read again was replaced in between.
LEMMA PolicyAgainOnce ==
  ASSUME setup.tool = "doctor", Once, UNCHANGED world, PolicyAgain PROVE Once'
  <1> DEFINE document == IF files["policy"] \in {"missing", "odd", "unreadable"}
                         THEN "none" ELSE files["policy"]
  <1>1. /\ World /\ Kept /\ (Clean => Facts)
        /\ UNCHANGED <<files, setup, updates, exit>>
        /\ stage = "policy_again" /\ call.step = 0
        /\ memo' = [memo EXCEPT !.document = document]
        /\ RustHalf("policy", "rust_repository_policy", "policy_runtime_differential", "git")
    BY DEF Once, world, PolicyAgain, At, ProceedingOnce
  <1>2. \/ ~Clean' /\ stage' = "git" /\ call' = call
        \/ /\ Clean' = Clean /\ stage' = "rust_repository_policy"
           /\ call'.proc = "invoke" /\ call'.step = 1 /\ call'.target = "policy"
    BY <1>1, RustHalfOnce
  <1>3. Kept' /\ memo'.selection = memo.selection
    BY <1>1, <1>2, MemorizedOnce
  <1>4. CASE ~Clean' /\ stage' = "git" /\ call' = call
    <2>1. ProceedingOnce'
      BY <1>1, <1>4 DEF ProceedingOnce
    <2> QED
      BY <1>1, <1>3, <1>4, <2>1, Tainted
  <1>5. CASE /\ Clean' = Clean /\ stage' = "rust_repository_policy"
             /\ call'.proc = "invoke" /\ call'.step = 1 /\ call'.target = "policy"
    <2>1. Clean /\ Unlabelled' => Turned'
      <3> SUFFICES ASSUME Clean, Unlabelled' PROVE Turned'
        OBVIOUS
      <3>1. memo'.document = document
        BY <1>1 DEF Kept
      <3>2. ~RuledOnce /\ document \notin Labels
        BY <1>1, <3>1, Inherited DEF Unlabelled
      <3>3. Had("policy", Intact \cup Labels)
        BY <1>1 DEF Facts
      <3>4. /\ files["policy"] \notin {"v1", "v2", "missing", "odd"} \cup Labels
            /\ setup.files["policy"] \in Labels
        BY <3>2, <3>3 DEF RuledOnce, Had, Was, Intact, Labels
      <3>5. updates = 1
        BY <1>1, <3>4, ToolsAssumption DEF World
      <3> QED
        BY <3>4, <3>5, <1>1, Inherited DEF Turned
    <2>2. Clean' => Facts'
      BY <1>1, <1>3, <1>5, <2>1, Inherited DEF Facts, Unparsed, Unvalidated, Uncataloged,
                                               Unselected, Unread, Unexecuted, Unasked
    <2>3. ProceedingOnce'
      BY <1>5 DEF ProceedingOnce, InvokingOnce, Rejecting
    <2> QED
      BY <1>1, <1>3, <2>2, <2>3, StatementOnce
  <1> QED
    BY <1>2, <1>4, <1>5

LEMMA PolicyCheckedOnce ==
  ASSUME setup.tool = "doctor", Once, UNCHANGED world,
         RustChecked("rust_repository_policy", "policy_runtime_differential",
                     memo.receipt, "git")
  PROVE  Once'
  <1>1. /\ Kept /\ InvokingOnce("policy") /\ Rejecting /\ (Clean => Facts)
        /\ UNCHANGED <<files, setup, updates, memo, call, exit>>
        /\ stage = "rust_repository_policy" /\ stage' = "git" /\ call.step = 0
    BY DEF Once, world, RustChecked, At, Then, Returned, ProceedingOnce
  <1>2. Clean' => /\ Clean /\ call.result = "ran" /\ call.bytes # "none" /\ call.code = 0
    BY <1>1, RustPassed
  <1>3. Clean' => Clean /\ ~Unlabelled
    BY <1>1, <1>2 DEF Rejecting
  <1>4. Clean' => Facts'
    BY <1>1, <1>3, Inherited DEF Facts, Unparsed, Unvalidated, Uncataloged, Unselected,
                                 Unread, Unexecuted, Unasked
  <1>5. ProceedingOnce'
    BY <1>1 DEF ProceedingOnce
  <1> QED
    BY <1>1, <1>4, <1>5, Unmemorized, StatementOnce

LEMMA GitOnce ==
  ASSUME setup.tool = "doctor", Once, UNCHANGED world, Git PROVE Once'
  <1> DEFINE status == IF files["git"] \in Intact /\ ~Flawed("git_slow")
                       THEN "PASS" ELSE "WARN"
  <1>1. /\ Kept /\ (Clean => Facts)
        /\ UNCHANGED <<files, setup, updates, memo, call, exit>>
        /\ stage = "git" /\ stage' = "setup" /\ call.step = 0
        /\ Find({<<"git_repository", status>>})
    BY DEF Once, world, Git, At, Then, ProceedingOnce
  <1> HIDE DEF status
  <1>2. Clean' => Clean
    BY <1>1, FindsOne
  <1>3. Clean' => Facts'
    BY <1>1, <1>2, Inherited DEF Facts, Unparsed, Unvalidated, Uncataloged, Unselected,
                                 Unread, Unexecuted, Unasked
  <1>4. ProceedingOnce'
    BY <1>1 DEF ProceedingOnce
  <1> QED
    BY <1>1, <1>3, <1>4, Unmemorized, StatementOnce

LEMMA SetupOnce ==
  ASSUME setup.tool = "doctor", Once, UNCHANGED world, Setup PROVE Once'
  <1>1. /\ Kept /\ (Clean => Facts)
        /\ UNCHANGED <<files, setup, updates, memo, call, exit>>
        /\ stage = "setup" /\ stage' = "owner" /\ call.step = 0
    BY DEF Once, world, Setup, At, Then, ProceedingOnce
  <1>2. \E status : /\ Find({<<"matt_setup", status>>})
                    /\ status \notin {"FAIL", "INCONCLUSIVE"} => memo.document # "mutating"
    <2> DEFINE ready == /\ IsFile("setup_docs")
                        /\ files["setup_receipt"] \in Intact
                        /\ files["setup_receipt"] = memo.ask
               mutating == memo.document = "mutating"
               status == CASE ready /\ ~mutating -> "PASS"
                           [] ready /\ mutating -> "INCONCLUSIVE"
                           [] ~ready /\ mutating -> "FAIL"
                           [] OTHER -> "WARN"
    <2>1. Find({<<"matt_setup", status>>})
      BY DEF Setup
    <2> HIDE DEF ready
    <2>2. status \notin {"FAIL", "INCONCLUSIVE"} => ~mutating
      OBVIOUS
    <2> HIDE DEF status
    <2> QED
      BY <2>1, <2>2
  <1>3. Clean' => Clean /\ memo.document # "mutating"
    BY <1>2, FindsOne
  <1>4. Clean' => RuledOnce' \/ memo.document = "owner"
    BY <1>1, <1>3, Inherited DEF Facts, Unlabelled, Labels
  <1>5. LegibleOnce'
    <2>1. LegibleIn(files)
      BY <1>1 DEF Setup, At, Uncaught, IsFile, LegibleIn
    <2> QED
      BY <1>1, <2>1, Inherited DEF LegibleOnce
  <1>6. Clean' => Facts'
    BY <1>1, <1>3, <1>4, <1>5, Inherited DEF Facts, Unparsed, Unvalidated, Uncataloged,
                                       Unselected, Unread, Unexecuted, Unasked
  <1>7. ProceedingOnce'
    BY <1>1 DEF ProceedingOnce
  <1> QED
    BY <1>1, <1>6, <1>7, Unmemorized, StatementOnce

LEMMA OwnerOnce ==
  ASSUME setup.tool = "doctor", Once, UNCHANGED world, Owner PROVE Once'
  <1>1. /\ Kept /\ (Clean => Facts)
        /\ UNCHANGED <<files, setup, updates, memo, call, exit>>
        /\ stage = "owner" /\ stage' = "overall" /\ call.step = 0
    BY DEF Once, world, Owner, At, Then, ProceedingOnce
  <1>2. Clean' => Clean /\ memo.document # "owner"
    <2>1. CASE memo.document # "owner"
      <3>1. Find({})
        BY <2>1 DEF Owner
      <3> QED
        BY <2>1, <3>1, Adds
    <2>2. CASE memo.document = "owner"
      <3> DEFINE findings ==
            {<<"owner_original_files", IF IsFile("owner_files") THEN "PASS" ELSE "FAIL">>,
             <<"owner_toolchain_lock", FromFile("owner_lock")>>}
            \cup All({"github_review_closeout", "trusted_code_review_attestation",
                      "llm_contract_ast_mapping"}, "INCONCLUSIVE")
      <3>1. Find(findings)
        BY <2>2 DEF Owner
      <3>2. <<"github_review_closeout", "INCONCLUSIVE">> \in findings
        BY DEF All
      <3>3. \E f \in findings : f[2] = "INCONCLUSIVE"
        <4>1. <<"github_review_closeout", "INCONCLUSIVE">>[2] = "INCONCLUSIVE"
          OBVIOUS
        <4> QED
          BY <3>2, <4>1
      <3> HIDE DEF findings
      <3> QED
        BY <3>1, <3>3, Adds
    <2> QED
      BY <2>1, <2>2
  <1>3. Clean' => RuledOnce'
    BY <1>1, <1>2, Inherited DEF Facts
  <1>4. Clean' => Facts'
    BY <1>1, <1>2, <1>3, Inherited DEF Facts, Unparsed, Unvalidated, Uncataloged,
                                       Unselected, Unread, Unexecuted, Unasked
  <1>5. ProceedingOnce'
    BY <1>1 DEF ProceedingOnce
  <1> QED
    BY <1>1, <1>4, <1>5, Unmemorized, StatementOnce

\* What was seen adds up; without a replacement the audit is exact.
LEMMA OverallOnce ==
  ASSUME setup.tool = "doctor", Audited, Once, UNCHANGED world, Overall PROVE Once'
  <1>1. /\ World /\ Kept /\ (Clean => Facts)
        /\ UNCHANGED <<files, setup, updates, witnessed, memo, call, found>>
        /\ stage = "overall" /\ stage' = "done" /\ exit' = AuditExitCode /\ call.step = 0
    BY DEF Once, world, Overall, ProceedingOnce
  <1>2. Kept' /\ ProceedingOnce'
    BY <1>1, Unmemorized DEF ProceedingOnce
  <1>3. exit' = 0 => Clean
    BY <1>1 DEF AuditExitCode, Clean, Has
  <1>4. ASSUME Clean, updates = 0 PROVE InOrder(files)
    BY <1>1, <1>4 DEF Audited, Findings
  <1>5. ASSUME Clean, updates # 0 PROVE InOrder(setup.files) \/ InOrder(files)
    <2>1. updates = 1
      BY <1>1, <1>5, ToolsAssumption DEF World
    <2>2. /\ CanonicalOnce /\ Had("plugin_json", Intact) /\ AskedOnce /\ RuledOnce /\ LegibleOnce
          /\ Had("knowledge", Intact) /\ ~Flawed("rust_slow") /\ memo.selection \in Intact
      BY <1>1, <1>5 DEF Facts, Unparsed, Unvalidated, Uncataloged, Unselected, Unread,
                        Unexecuted, Unasked
    <2>3. HadOnce(RuntimeFiles, memo.selection)
      BY <1>1, <2>2 DEF Kept, Intact
    <2>4. ~Flawed("rust_crashes")
      BY <1>1, <2>1 DEF World
    <2> QED
      BY <1>1, <2>2, <2>3, <2>4, SeenInOrder
  <1>6. exit' = 0 => witnessed'
    BY <1>1, <1>3, <1>4, <1>5 DEF World
  <1> QED
    BY <1>1, <1>2, <1>6, WorldStays DEF Once

LEMMA AuditOnce ==
  ASSUME IsCall, setup.tool = "doctor", Audited, Once, UNCHANGED world, Audit
  PROVE  Once'
  <1>1. CASE RustUnsupported
    <2>1. Traceback /\ call.step = 0
      BY <1>1 DEF RustUnsupported, Returned
    <2> QED
      BY <2>1, TracebackOnce
  <1>2. CASE Crash
    <2>1. Traceback /\ call.step = 0
      BY <1>2 DEF Crash, Uncaught, Returned, Once, ProceedingOnce
    <2> QED
      BY <2>1, TracebackOnce
  <1> QED
    BY <1>1, <1>2, ProcedureOnce, PluginManifestOnce, ListSkillsOnce, NotLoadedOnce,
       LoadedOnce, PluginValidatedOnce, SkillValidatedOnce, CatalogOnce, ArtifactOnce, OkfOnce,
       OkfHalvesOnce, OkfCheckedOnce, AskMattOnce, NoPolicyOnce, PolicyOnce,
       PolicyAgainOnce, PolicyCheckedOnce, GitOnce, SetupOnce, OwnerOnce, OverallOnce
    DEF Audit

LEMMA OnceStart == ASSUME Auditing, ToolsInit PROVE Once
  <1> SUFFICES ASSUME setup.tool = "doctor" PROVE Once
    BY DEF Once
  <1>1. /\ stage = FirstStage[setup.tool] /\ call = NoCall /\ found = {} /\ exit = NoExit
        /\ memo = NoMemo /\ setup \in Setups /\ files = setup.files /\ updates = 0
        /\ witnessed = InOrder(files)
    BY DEF ToolsInit
  <1>2. stage = "plugin_manifest"
    BY <1>1 DEF FirstStage
  <1>3. World
    <2>1. witnessed \in BOOLEAN /\ (InOrder(files) => witnessed)
      BY <1>1 DEF InOrder, CanonicalInOrder, RuntimeInOrder, RepositoryInOrder, OneRelease
    <2>2. files["knowledge"] \notin Labels /\ setup.limit \in Nat /\ setup.limit <= 1
      BY <1>1, ToolsAssumption DEF Labels, Auditing
    <2> QED
      BY <1>1, <2>1, <2>2 DEF World
  <1>4. Kept
    BY <1>1, <1>2 DEF Kept, NoMemo
  <1>5. Facts
    BY <1>2 DEF Facts, Unparsed, Unvalidated, Uncataloged, Unselected, Unread, Unexecuted,
                Unasked
  <1>6. ProceedingOnce
    BY <1>1, <1>2 DEF ProceedingOnce, NoCall
  <1> QED
    BY <1>1, <1>3, <1>4, <1>5, <1>6 DEF Once, NoExit

LEMMA OnceStutter ==
  ASSUME setup.tool = "doctor", Once, UNCHANGED tool PROVE Once'
  <1>1. /\ World /\ Kept /\ ProceedingOnce /\ (stage # "done" /\ Clean => Facts)
        /\ exit = 0 => witnessed
        /\ UNCHANGED world
        /\ UNCHANGED <<files, setup, updates, witnessed, stage, call, exit, memo, found>>
    BY DEF Once, tool, doctor, frame, world
  <1>2. Clean' = Clean /\ \A x, v : Was(x, v) => Was(x, v)'
    BY <1>1, Unmoved DEF Clean
  <1>3. Facts => Facts'
    BY <1>1, <1>2, Carry DEF Facts, Turned, LegibleOnce, LegibleIn
  <1>4. Kept'
    BY <1>1, <1>2, Carry DEF Kept
  <1>5. ProceedingOnce'
    <2>1. LoadingOnce => LoadingOnce'
      BY <1>1, <1>2, Carry DEF LoadingOnce
    <2>2. \A which : RunningOnce(which) => RunningOnce(which)'
      BY <1>1, <1>2, Carry DEF RunningOnce
    <2>3. ResolvingOnce => ResolvingOnce'
      BY <1>1, <1>2, Carry DEF ResolvingOnce
    <2>4. \A target : InvokingOnce(target) => InvokingOnce(target)'
      BY <1>1, <1>2, Carry DEF InvokingOnce
    <2>5. Rejecting => Rejecting'
      BY <1>1, <1>2, Carry DEF Rejecting
    <2> QED
      BY <1>1, <2>1, <2>2, <2>3, <2>4, <2>5 DEF ProceedingOnce
  <1> QED
    BY <1>1, <1>2, <1>3, <1>4, <1>5, WorldStays DEF Once

LEMMA OnceNext ==
  ASSUME Auditing, Verified, Audited, Once, [ToolsNext]_toolVars
  PROVE  Once'
  <1>1. CASE Replace
    <2>1. setup' = setup
      BY <1>1 DEF Replace
    <2> QED
      BY <1>1, <2>1, ReplaceOnce DEF Once
  <1>2. CASE Tool /\ UNCHANGED world
    <2>1. setup' = setup
      BY <1>2 DEF world
    <2>2. setup.tool = "doctor" => Audit
      BY <1>2 DEF Tool
    <2> QED
      BY <1>2, <2>1, <2>2, AuditOnce DEF Verified, Once
  <1>3. CASE UNCHANGED tool
    <2>1. setup' = setup
      BY <1>3 DEF tool, world
    <2> QED
      BY <1>3, <2>1, OnceStutter DEF Once
  <1> QED
    BY <1>1, <1>2, <1>3 DEF ToolsNext, toolVars

\* For any installation: an audit that ends with zero had everything in order at
\* one instant, though somebody replaced a file, any file by anything, between
\* two of its reads.
THEOREM AuditsWitnessed ==
  ASSUME Auditing
  PROVE  ToolsSpec => [](setup.tool = "doctor" => SuccessWitnessed)
  <1>1. Once => (setup.tool = "doctor" => SuccessWitnessed)
    BY DEF Once, SuccessWitnessed
  <1>2. Verified /\ Audited /\ Once /\ [ToolsNext]_toolVars => Once'
    BY OnceNext
  <1>3. ToolsSpec => []Audited
    BY AuditedStart, AuditedNext, VerifiedAlways, PTL DEF ToolsSpec
  <1> QED
    BY <1>1, <1>2, <1>3, OnceStart, VerifiedAlways, PTL DEF ToolsSpec

\* Both tools together.
THEOREM SuccessesWitnessed ==
  ASSUME Updating, Auditing
  PROVE  ToolsSpec => []SuccessWitnessed
  <1>1. /\ setup.tool = "dispatch" => SuccessWitnessed
        /\ setup.tool = "doctor" => SuccessWitnessed
        => SuccessWitnessed
    BY DEF SuccessWitnessed
  <1> QED
    BY <1>1, UpdatesWitnessed, AuditsWitnessed, PTL

-----------------------------------------------------------------------------
(* The projection of the toolchain digest *)

\* The loops go from one visited path to the next, or to what follows them.
LEMMA IndexNat ==
  DOMAIN Paths \subseteq Nat /\ 1 \in DOMAIN Paths /\ \A i \in DOMAIN Paths : 1 <= i
  <1>1. Paths \in Seq(Names) /\ Paths # <<>>
    BY ProjectionAssumption
  <1>2. DOMAIN Paths = 1..Len(Paths) /\ Len(Paths) \in Nat
    BY <1>1
  <1>3. Len(Paths) # 0
    BY <1>1
  <1> QED
    BY <1>2, <1>3

LEMMA LeastIndex ==
  ASSUME NEW S \in SUBSET DOMAIN Paths, S # {}
  PROVE  \E j \in S : \A i \in S : j <= i
  <1> DEFINE R == OpToRel(<, Nat)
  <1>1. \A x, y \in Nat : x < y => <<x, y>> \in R
    BY DEF OpToRel
  <1>2. IsWellFoundedOn(R, Nat)
    BY NatLessThanWellFounded
  <1> HIDE DEF R
  <1>3. S \in SUBSET Nat
    BY IndexNat
  <1>4. \E x \in S : \A y \in S : ~ (<<y, x>> \in R)
    BY <1>2, <1>3, WFMin, Zenon
  <1>5. PICK x \in S : \A y \in S : ~ (<<y, x>> \in R)
    BY <1>4
  <1>6. \A y \in S : ~ (y < x)
    BY <1>1, <1>3, <1>5, Zenon
  <1>7. \A y \in S : x <= y
    BY <1>3, <1>6
  <1> QED
    BY <1>7

LEMMA NextOfStep ==
  ASSUME NEW among, NEW step, NextOf(among, step),
         at.k \in DOMAIN Paths
  PROVE  \/ /\ Later(among) = {}
            /\ at' = [at EXCEPT !.step = step, !.k = 1]
            /\ \A i \in DOMAIN Paths : Paths[i] \in among => i <= at.k
         \/ \E j \in DOMAIN Paths :
              /\ at' = [at EXCEPT !.k = j]
              /\ Paths[j] \in among
              /\ at.k < j
              /\ \A i \in DOMAIN Paths : i < j /\ Paths[i] \in among => i <= at.k
  <1>1. CASE Later(among) = {}
    <2>1. at' = [at EXCEPT !.step = step, !.k = 1]
      BY <1>1 DEF NextOf, Goto
    <2>2. \A i \in DOMAIN Paths : Paths[i] \in among => ~ (i > at.k)
      BY <1>1 DEF Later
    <2> QED
      BY <1>1, <2>1, <2>2, IndexNat
  <1>2. CASE Later(among) # {}
    <2> DEFINE j == CHOOSE j \in Later(among) : \A i \in Later(among) : j <= i
    <2>1. Later(among) \in SUBSET DOMAIN Paths
      BY DEF Later
    <2>2. j \in Later(among) /\ \A i \in Later(among) : j <= i
      BY <1>2, <2>1, LeastIndex
    <2>3. at' = [at EXCEPT !.k = j]
      BY <1>2 DEF NextOf
    <2> HIDE DEF j
    <2>4. j \in DOMAIN Paths /\ j > at.k /\ Paths[j] \in among
      BY <2>2 DEF Later
    <2>5. \A i \in DOMAIN Paths : i < j /\ Paths[i] \in among => ~ (i > at.k)
      BY <2>2, <2>4, IndexNat DEF Later
    <2> QED
      BY <2>3, <2>4, <2>5, IndexNat
  <1> QED
    BY <1>1, <1>2

LEMMA FirstIs ==
  ASSUME NEW among, among \subseteq Names, among # {}
  PROVE  /\ First(among) \in DOMAIN Paths
         /\ Paths[First(among)] \in among
         /\ \A i \in DOMAIN Paths : Paths[i] \in among => First(among) <= i
  <1> DEFINE S == {j \in DOMAIN Paths : Paths[j] \in among}
  <1>1. S # {} /\ S \in SUBSET DOMAIN Paths
    BY DEF Names
  <1>2. \E j \in S : \A i \in S : j <= i
    BY <1>1, LeastIndex
  <1>3. \E j \in DOMAIN Paths :
          Paths[j] \in among /\ \A i \in DOMAIN Paths : Paths[i] \in among => j <= i
    BY <1>2
  <1> QED
    BY <1>3 DEF First

-----------------------------------------------------------------------------
(* The inductive invariant *)

\* What the running statement relies on, edits or not.
Control ==
  /\ at.step \in {"originals", "write", "rollback"} \/ at.trying =>
       local.mode = "write" /\ local.stale # {}
  /\ at.step \in {"originals", "write", "rollback"} => Paths[at.k] \in local.stale
  /\ at.step \in {"idle", "originals", "write"} => ~at.trying
  /\ at.step = "rollback" => at.trying
  /\ at.step # "idle" => ~local.unrestored /\ outcome = NoOutcome
  /\ at.step \notin {"idle", "catalog"} \/ at.trying =>
       local.before \in Digests \cup {"binary"}

\* The projection of the fixture the run found, into the catalog it read.
Rendered(p) ==
  entry[p] \in Json /\ local.expected[p] = [entry[p] EXCEPT !.digest = local.before]

\* The first visit of the loop over the projections is behind.
Past == {j \in DOMAIN Paths : j < at.k}

\* The catalog as the run knows it.
Known ==
  /\ at.step \notin {"idle", "catalog"} \/ at.trying => local.before = catalog
  /\ at.step \in {"reread", "render", "compare", "decide", "originals", "write"}
       \/ at.trying => catalog \in Valid

\* What the loops have established.
Looped ==
  /\ at.step = "render" => \A j \in Past : Rendered(Paths[j])
  /\ at.step \in {"compare", "decide", "originals", "write", "rollback"}
       \/ at.trying => \A p \in Names : Rendered(p)
  /\ at.step = "compare" =>
       \A j \in Past : Paths[j] \notin local.stale =>
                entry[Paths[j]] = local.expected[Paths[j]]
  /\ at.step \in {"decide", "originals", "write", "rollback"} \/ at.trying =>
       \A p \in Names \ local.stale : entry[p] = local.expected[p]
  /\ at.step = "originals" =>
       \A j \in Past : Paths[j] \in local.stale =>
                local.originals[Paths[j]] = entry[Paths[j]]
  /\ at.step \in {"write", "rollback"} \/ at.trying =>
       \A p \in local.stale : local.originals[p] = entry[p]

\* What the fixtures hold.
Holding ==
  /\ ~at.trying /\ at.step \notin {"idle", "write"} => fixture = entry
  /\ at.step = "write" =>
       /\ \A p \in Names : fixture[p] \in {entry[p], local.expected[p]}
       /\ \A p \in Names \ local.stale : fixture[p] = entry[p]
       /\ \A j \in Past : Paths[j] \in local.stale =>
                   fixture[Paths[j]] = local.expected[Paths[j]]
  /\ at.trying /\ at.step # "rollback" =>
       \A p \in Names : fixture[p] = local.expected[p]
  /\ at.step = "rollback" =>
       /\ \A p \in Names : fixture[p] \in {entry[p], local.expected[p], Torn}
       /\ \A p \in Names \ local.stale : fixture[p] = entry[p]
       /\ \A j \in Past : Paths[j] \in local.stale =>
                   fixture[Paths[j]] = entry[Paths[j]]

IInv ==
  /\ TypeOK
  /\ Control
  /\ ~edited => Known /\ Looped /\ Holding
  /\ PassMeansProjected
  /\ FixturesPreserved

LEMMA Silent ==
  ASSUME outcome' = NoOutcome
  PROVE  PassMeansProjected' /\ FixturesPreserved'
  BY DEF NoOutcome, PassMeansProjected, FixturesPreserved

LEMMA Onward ==
  ASSUME outcome' = NoOutcome, TypeOK', Control',
         ~edited' => Known' /\ Looped' /\ Holding'
  PROVE  IInv'
  BY Silent DEF IInv

\* One more visit is behind, or the loop is over and all are.
LEMMA Visited ==
  ASSUME TypeOK, NEW among, NEW step, NextOf(among, step)
  PROVE  /\ at' \in [step : {step, at.step}, k : DOMAIN Paths, trying : {at.trying}]
         /\ at.k \in DOMAIN Paths
         /\ \/ /\ at'.step = step /\ at'.k = 1
               /\ \A i \in DOMAIN Paths : Paths[i] \in among => i \in Past \cup {at.k}
            \/ /\ at'.step = at.step /\ Paths[at'.k] \in among
               /\ \A i \in Past' : Paths[i] \in among => i \in Past \cup {at.k}
  <1>1. at.k \in DOMAIN Paths /\ DOMAIN Paths \subseteq Nat /\ 1 \in DOMAIN Paths
    BY IndexNat DEF TypeOK
  <1>2. \A i \in DOMAIN Paths : i <= at.k => i \in Past \cup {at.k}
    BY <1>1 DEF Past
  <1>3. at = [step |-> at.step, k |-> at.k, trying |-> at.trying]
    BY DEF TypeOK
  <1>4. CASE /\ at' = [at EXCEPT !.step = step, !.k = 1]
             /\ \A i \in DOMAIN Paths : Paths[i] \in among => i <= at.k
    <2>1. at' = [step |-> step, k |-> 1, trying |-> at.trying]
      BY <1>3, <1>4
    <2> QED
      BY <1>1, <1>2, <1>4, <2>1
  <1>5. CASE \E j \in DOMAIN Paths :
               /\ at' = [at EXCEPT !.k = j]
               /\ Paths[j] \in among
               /\ at.k < j
               /\ \A i \in DOMAIN Paths : i < j /\ Paths[i] \in among => i <= at.k
    <2>1. PICK j \in DOMAIN Paths :
            /\ at' = [at EXCEPT !.k = j]
            /\ Paths[j] \in among
            /\ \A i \in DOMAIN Paths : i < j /\ Paths[i] \in among => i <= at.k
      BY <1>5
    <2>2. at' = [step |-> at.step, k |-> j, trying |-> at.trying]
      BY <1>3, <2>1
    <2>3. Past' = {i \in DOMAIN Paths : i < j}
      BY <2>2 DEF Past
    <2> QED
      BY <1>1, <1>2, <2>1, <2>2, <2>3
  <1> QED
    BY <1>1, <1>4, <1>5, NextOfStep

LEMMA Distinct == Torn \notin Json /\ Odd \notin Json /\ Torn # Odd
  BY ProjectionAssumption DEF Torn, Odd, Json

\* Before the first run nothing is claimed of the fixtures.
THEOREM Starts == Init => IInv
  <1> SUFFICES ASSUME Init PROVE IInv
    OBVIOUS
  <1>1. NoContent \in [Names -> Contents]
    BY DEF NoContent, Contents
  <1>2. TypeOK
    BY <1>1, IndexNat DEF Init, TypeOK, Idle, NoLocal
  <1>3. Control /\ Known /\ Looped /\ Holding
    BY DEF Init, Control, Known, Looped, Holding, Idle
  <1>4. PassMeansProjected /\ FixturesPreserved
    BY DEF Init, PassMeansProjected, FixturesPreserved, NoOutcome
  <1> QED
    BY <1>2, <1>3, <1>4 DEF IInv

\* A run that ends although nothing was written or everything was.
LEMMA Ended ==
  ASSUME IInv, NEW status \in {"FAIL", "killed", "traceback"}, NEW code,
         Finish(status, code), at.step \notin {"idle", "write", "rollback"},
         status = "FAIL" => ~at.trying,
         UNCHANGED <<Files, History, local>>
  PROVE  IInv'
  <1>1. /\ at' = Idle /\ outcome' = [status |-> status, code |-> code]
        /\ UNCHANGED <<catalog, fixture, entry, edited, local>>
    BY DEF Finish, Files, History
  <1>2. TypeOK'
    BY <1>1, IndexNat DEF IInv, TypeOK, Idle
  <1>3. Control' /\ (Known /\ Looped /\ Holding)'
    BY <1>1 DEF Control, Known, Looped, Holding, Idle
  <1>4. PassMeansProjected'
    BY <1>1 DEF PassMeansProjected
  <1>5. FixturesPreserved'
    <2>1. CASE edited
      BY <1>1, <2>1 DEF FixturesPreserved
    <2>2. CASE ~edited /\ ~at.trying
      <3>1. fixture = entry
        BY <2>2 DEF IInv, Holding
      <3> QED
        BY <1>1, <3>1 DEF FixturesPreserved
    <2>3. CASE ~edited /\ at.trying
      <3>1. /\ \A p \in Names : fixture[p] = local.expected[p]
            /\ local.mode = "write"
        BY <2>3 DEF IInv, Holding, Control
      <3> QED
        BY <1>1, <2>3, <3>1 DEF FixturesPreserved
    <2> QED
      BY <2>1, <2>2, <2>3 DEF IInv, TypeOK
  <1> QED
    BY <1>2, <1>3, <1>4, <1>5 DEF IInv

\* An exception before the write ends the run, one after it rolls back.
LEMMA Raised ==
  ASSUME IInv, NEW code, Raise(code),
         at.step \notin {"idle", "write", "rollback"},
         UNCHANGED <<Files, History, local>>
  PROVE  IInv'
  <1>1. CASE ~at.trying
    BY <1>1, Ended DEF Raise
  <1>2. CASE at.trying
    <2>1. /\ at' = [step |-> "rollback", k |-> First(local.stale), trying |-> TRUE]
          /\ UNCHANGED <<outcome, catalog, fixture, entry, edited, local>>
      BY <1>2 DEF Raise, Rollback, Files, History
    <2>2. /\ local.mode = "write" /\ local.stale # {} /\ local.stale \subseteq Names
          /\ ~local.unrestored /\ outcome = NoOutcome
          /\ local.before \in Digests \cup {"binary"}
      BY <1>2 DEF IInv, Control, TypeOK
    <2>3. /\ First(local.stale) \in DOMAIN Paths
          /\ Paths[First(local.stale)] \in local.stale
          /\ \A i \in DOMAIN Paths : Paths[i] \in local.stale => First(local.stale) <= i
      BY <2>2, FirstIs
    <2> DEFINE k == First(local.stale)
    <2>4. TypeOK'
      BY <2>1, <2>3 DEF IInv, TypeOK
    <2>5. ASSUME ~edited PROVE Known' /\ Looped' /\ Holding'
      <3>1. Known /\ Looped /\ Holding
        BY <2>5 DEF IInv
      <3>2. Known'
        BY <1>2, <2>1, <3>1 DEF Known
      <3>3. Looped'
        BY <1>2, <2>1, <3>1 DEF Looped, Rendered
      <3>4. \A j \in Past' : Paths[j] \notin local.stale
        BY <2>1, <2>3, IndexNat DEF Past
      <3>5. /\ \A p \in Names : fixture[p] = local.expected[p]
            /\ \A p \in Names \ local.stale : entry[p] = local.expected[p]
        BY <1>2, <3>1 DEF Holding, Looped, IInv
      <3>6. Holding'
        BY <2>1, <3>4, <3>5 DEF Holding
      <3> QED
        BY <3>2, <3>3, <3>6
    <2>6. Control'
      BY <2>1, <2>2, <2>3 DEF Control
    <2> QED
      BY <2>1, <2>2, <2>4, <2>5, <2>6, Onward
  <1> QED
    BY <1>1, <1>2 DEF IInv, TypeOK

-----------------------------------------------------------------------------
(* _expected *)

LEMMA ReadCatalogKeeps == IInv /\ ReadCatalog => IInv'
  <1> SUFFICES ASSUME IInv, ReadCatalog PROVE IInv'
    OBVIOUS
  <1>1. CASE catalog = "odd"
    BY <1>1, Raised DEF ReadCatalog
  <1>2. CASE catalog # "odd"
    <2>1. /\ at.step = "catalog" /\ at' = [at EXCEPT !.step = "validate", !.k = 1]
          /\ local' = [local EXCEPT !.before = catalog]
          /\ UNCHANGED <<outcome, catalog, fixture, entry, edited>>
      BY <1>2 DEF ReadCatalog, Goto, Files, History
    <2>2. TypeOK /\ Control
      BY DEF IInv
    <2>3. /\ at'.step = "validate" /\ at'.k = 1 /\ at'.trying = at.trying
          /\ local'.before = catalog /\ local'.mode = local.mode
          /\ local'.expected = local.expected /\ local'.stale = local.stale
          /\ local'.originals = local.originals
          /\ local'.unrestored = local.unrestored
      BY <2>1, <2>2 DEF TypeOK
    <2>4. TypeOK'
      BY <2>1, <2>2, IndexNat DEF TypeOK
    <2>5. Control'
      BY <1>2, <2>1, <2>2, <2>3 DEF Control, TypeOK, Catalogs
    <2>6. ASSUME ~edited PROVE Known' /\ Looped' /\ Holding'
      <3>1. Known /\ Looped /\ Holding
        BY <2>6 DEF IInv
      <3>2. Known'
        BY <2>1, <2>3, <3>1 DEF Known
      <3>3. Looped'
        BY <2>1, <2>3, <3>1 DEF Known, Looped, Rendered
      <3>4. Holding'
        BY <2>1, <2>3, <3>1 DEF Holding
      <3> QED
        BY <3>2, <3>3, <3>4
    <2>7. outcome' = NoOutcome
      BY <2>1, <2>2 DEF Control
    <2> QED
      BY <2>1, <2>4, <2>5, <2>6, <2>7, Onward
  <1> QED
    BY <1>1, <1>2

\* A step of the control alone, within _expected.
LEMMA WentOn ==
  ASSUME IInv, NEW step,
         \/ at.step = "validate" /\ step = "reread" /\ catalog \in Valid
         \/ at.step = "reread" /\ step = "render",
         Goto(step), UNCHANGED <<Files, History, local, outcome>>
  PROVE  IInv'
  <1>1. /\ at' = [at EXCEPT !.step = step, !.k = 1]
        /\ UNCHANGED <<outcome, catalog, fixture, entry, edited, local>>
    BY DEF Goto, Files, History
  <1>2. TypeOK /\ Control
    BY DEF IInv
  <1>3. at'.step = step /\ at'.k = 1 /\ at'.trying = at.trying
    BY <1>1, <1>2 DEF TypeOK
  <1>4. TypeOK'
    BY <1>1, <1>2, IndexNat DEF TypeOK
  <1>5. Control'
    BY <1>1, <1>2, <1>3 DEF Control
  <1>6. ASSUME ~edited PROVE Known' /\ Looped' /\ Holding'
    <2>1. Known /\ Looped /\ Holding
      BY <1>6 DEF IInv
    <2>2. Past' = {}
      BY <1>3, IndexNat DEF Past
    <2>3. Known'
      BY <1>1, <1>3, <2>1 DEF Known
    <2>4. Looped'
      BY <1>1, <1>3, <2>1, <2>2 DEF Looped, Rendered
    <2>5. Holding'
      BY <1>1, <1>3, <2>1 DEF Holding
    <2> QED
      BY <2>3, <2>4, <2>5
  <1>7. outcome' = NoOutcome
    BY <1>1, <1>2 DEF Control
  <1> QED
    BY <1>1, <1>4, <1>5, <1>6, <1>7, Onward

LEMMA ValidateCatalogKeeps == IInv /\ ValidateCatalog => IInv'
  <1> SUFFICES ASSUME IInv, ValidateCatalog PROVE IInv'
    OBVIOUS
  <1>1. CASE catalog = "binary"
    BY <1>1, Ended DEF ValidateCatalog
  <1>2. CASE catalog # "binary" /\ catalog \notin Valid
    BY <1>2, Raised DEF ValidateCatalog
  <1>3. CASE catalog # "binary" /\ catalog \in Valid
    BY <1>3, WentOn DEF ValidateCatalog
  <1> QED
    BY <1>1, <1>2, <1>3

LEMMA RereadCatalogKeeps == IInv /\ RereadCatalog => IInv'
  <1> SUFFICES ASSUME IInv, RereadCatalog PROVE IInv'
    OBVIOUS
  <1>1. CASE catalog = "odd" \/ catalog # local.before
    BY <1>1, Raised DEF RereadCatalog
  <1>2. CASE catalog # "odd" /\ catalog = local.before
    BY <1>2, WentOn DEF RereadCatalog
  <1> QED
    BY <1>1, <1>2
LEMMA Redrawn ==
  ASSUME NEW content \in Json, NEW digest
  PROVE  [[content EXCEPT !.digest = digest] EXCEPT !.digest = digest]
           = [content EXCEPT !.digest = digest]
  BY DEF Json

LEMMA RenderKeeps == IInv /\ Render => IInv'
  <1> SUFFICES ASSUME IInv, Render PROVE IInv'
    OBVIOUS
  <1>1. CASE fixture[path] \in {Odd, Torn}
    BY <1>1, Raised, Distinct DEF Render
  <1>2. CASE fixture[path] \notin {Odd, Torn}
    <2>1. /\ at.step = "render" /\ NextOf(Names, "compare")
          /\ local' = [local EXCEPT !.expected[path] =
                         [fixture[path] EXCEPT !.digest = local.before]]
          /\ UNCHANGED <<outcome, catalog, fixture, entry, edited>>
      BY <1>2 DEF Render, Files, History
    <2>2. TypeOK /\ Control
      BY DEF IInv
    <2>3. path \in Names /\ path = Paths[at.k] /\ at.trying \in BOOLEAN
      BY <2>2 DEF TypeOK, Names, path
    <2>3a. PICK q \in Names : q = path
      BY <2>3
    <2>4. fixture[path] \in Json
      BY <1>2, <2>2, <2>3 DEF TypeOK, Contents
    <2> DEFINE drawn == [fixture[path] EXCEPT !.digest = local.before]
    <2>5. drawn \in Json
      BY <2>1, <2>2, <2>4 DEF Json, Control
    <2>6. /\ local'.before = local.before /\ local'.mode = local.mode
          /\ local'.expected = [local.expected EXCEPT ![path] = drawn]
          /\ local'.stale = local.stale /\ local'.originals = local.originals
          /\ local'.unrestored = local.unrestored
      BY <2>1, <2>2 DEF TypeOK
    <2>7. local.expected \in [Names -> Contents]
      BY <2>2 DEF TypeOK
    <2>8. /\ local'.expected[path] = drawn
          /\ \A p \in Names \ {path} : local'.expected[p] = local.expected[p]
          /\ local'.expected \in [Names -> Contents]
      BY <2>3, <2>5, <2>6, <2>7 DEF Contents
    <2> HIDE DEF drawn
    <2>9. /\ at' \in [step : {"compare", "render"}, k : DOMAIN Paths,
                      trying : {at.trying}]
          /\ \/ /\ at'.step = "compare" /\ at'.k = 1
                /\ \A i \in DOMAIN Paths : i \in Past \cup {at.k}
             \/ /\ at'.step = "render"
                /\ \A i \in Past' : i \in Past \cup {at.k}
      BY <2>1, <2>2, Visited DEF Names, Past
    <2>10. TypeOK'
      BY <2>1, <2>2, <2>3, <2>6, <2>8, <2>9 DEF TypeOK
    <2>11. Control'
      BY <2>1, <2>2, <2>6, <2>9 DEF Control
    <2>12. ASSUME ~edited PROVE Known' /\ Looped' /\ Holding'
      <3>1. Known /\ Looped /\ Holding
        BY <2>12 DEF IInv
      <3>2. Known'
        BY <2>1, <2>6, <2>9, <3>1 DEF Known
      <3>3. ~at.trying => fixture = entry
        BY <2>1, <3>1 DEF Holding
      <3>4. at.trying => fixture[path] = local.expected[path]
        BY <2>1, <2>3, <3>1 DEF Holding
      <3>5. entry[path] \in Json /\ drawn = [entry[path] EXCEPT !.digest = local.before]
        <4>1. CASE ~at.trying
          BY <2>4, <3>3, <4>1 DEF drawn
        <4>2. CASE at.trying
          <5>1. entry[path] \in Json /\ fixture[path] = [entry[path] EXCEPT !.digest = local.before]
            BY <2>3, <3>1, <3>4, <4>2 DEF Looped, Rendered
          <5> QED
            BY <5>1, Redrawn DEF drawn
        <4> QED
          BY <2>3, <4>1, <4>2
      <3>6. \A p \in Names : Rendered(p) => Rendered(p)'
        BY <2>1, <2>3, <2>6, <2>8, <3>5 DEF Rendered
      <3>7. Rendered(q)'
        BY <2>1, <2>3, <2>3a, <2>6, <2>8, <3>5 DEF Rendered
      <3>8. at.trying => local'.expected = local.expected
        <4>1. at.trying => local.expected[path] = drawn
          BY <2>3, <3>1, <3>5 DEF Looped, Rendered
        <4> QED
          BY <2>3, <2>6, <2>7, <2>8, <4>1
      <3>9. \A i \in DOMAIN Paths : Paths[i] \in Names
        BY DEF Names
      <3>10. /\ at'.step = "render" => \A i \in Past' : Rendered(Paths[i])'
             /\ at'.step = "compare" \/ at'.trying => \A p \in Names : Rendered(p)'
        <4>1. \A i \in Past : Rendered(Paths[i])'
          BY <2>1, <3>1, <3>6, <3>9 DEF Looped, Past
        <4>2. at'.step = "render" => \A i \in Past' : Rendered(Paths[i])'
          BY <2>3, <2>3a, <2>9, <3>7, <4>1
        <4>3. at'.step = "compare" => \A p \in Names : Rendered(p)'
          BY <2>3, <2>3a, <2>9, <3>7, <4>1 DEF Names
        <4>4. at'.trying => \A p \in Names : Rendered(p)'
          BY <2>9, <3>1, <3>6 DEF Looped
        <4> QED
          BY <4>2, <4>3, <4>4
      <3>11. Looped'
        <4>1. at'.step = "compare" => Past' = {}
          BY <2>9, IndexNat DEF Past
        <4>2. at'.trying =>
                /\ \A p \in Names \ local'.stale : entry'[p] = local'.expected[p]
                /\ \A p \in local'.stale : local'.originals[p] = entry'[p]
          BY <2>1, <2>6, <2>9, <3>1, <3>8 DEF Looped
        <4> QED
          BY <2>9, <3>10, <4>1, <4>2 DEF Looped
      <3>12. Holding'
        BY <2>1, <2>9, <3>1, <3>8 DEF Holding
      <3> QED
        BY <3>2, <3>11, <3>12
    <2>13. outcome' = NoOutcome
      BY <2>1, <2>2 DEF Control
    <2> QED
      BY <2>1, <2>10, <2>11, <2>12, <2>13, Onward
  <1> QED
    BY <1>1, <1>2
-----------------------------------------------------------------------------
(* synchronize *)

LEMMA CompareKeeps == IInv /\ Compare => IInv'
  <1> SUFFICES ASSUME IInv, Compare PROVE IInv'
    OBVIOUS
  <1> DEFINE differs == fixture[path] # local.expected[path]
  <1>1. CASE fixture[path] = Odd \/ (at.trying /\ differs)
    BY <1>1, Raised DEF Compare
  <1>2. CASE fixture[path] # Odd /\ ~(at.trying /\ differs)
    <2>1. /\ at.step = "compare" /\ NextOf(Names, "decide")
          /\ local' = IF differs THEN [local EXCEPT !.stale = @ \cup {path}] ELSE local
          /\ UNCHANGED <<outcome, catalog, fixture, entry, edited>>
      BY <1>2 DEF Compare, Files, History
    <2>2. TypeOK /\ Control
      BY DEF IInv
    <2>3. path \in Names /\ path = Paths[at.k] /\ at.trying \in BOOLEAN
      BY <2>2 DEF TypeOK, Names, path
    <2>4. PICK q \in Names : q = path
      BY <2>3
    <2>5. /\ local'.before = local.before /\ local'.mode = local.mode
          /\ local'.expected = local.expected /\ local'.originals = local.originals
          /\ local'.unrestored = local.unrestored
          /\ local'.stale = local.stale \cup (IF differs THEN {path} ELSE {})
      BY <2>1, <2>2 DEF TypeOK
    <2>6. at.trying => local'.stale = local.stale
      BY <1>2, <2>5
    <2>7. /\ at' \in [step : {"decide", "compare"}, k : DOMAIN Paths,
                      trying : {at.trying}]
          /\ \/ /\ at'.step = "decide" /\ at'.k = 1
                /\ \A i \in DOMAIN Paths : i \in Past \cup {at.k}
             \/ /\ at'.step = "compare"
                /\ \A i \in Past' : i \in Past \cup {at.k}
      BY <2>1, <2>2, Visited DEF Names, Past
    <2>8. TypeOK'
      BY <2>1, <2>2, <2>3, <2>5, <2>7 DEF TypeOK
    <2>9. Control'
      BY <2>1, <2>2, <2>5, <2>6, <2>7 DEF Control
    <2>10. ASSUME ~edited PROVE Known' /\ Looped' /\ Holding'
      <3>1. Known /\ Looped /\ Holding
        BY <2>10 DEF IInv
      <3>2. Known'
        BY <2>1, <2>5, <2>7, <3>1 DEF Known
      <3>3. Holding'
        BY <2>1, <2>5, <2>6, <2>7, <3>1 DEF Holding
      <3>4. ~at.trying => fixture = entry
        BY <2>1, <3>1 DEF Holding
      <3>5. q \notin local'.stale => entry[q] = local.expected[q]
        <4>1. CASE at.trying
          BY <2>1, <2>4, <2>6, <3>1, <4>1 DEF Looped
        <4>2. CASE ~at.trying
          BY <2>4, <2>5, <3>4, <4>2
        <4> QED
          BY <4>1, <4>2
      <3>6. \A i \in Past : Paths[i] \notin local'.stale
                             => entry[Paths[i]] = local.expected[Paths[i]]
        BY <2>1, <2>5, <3>1 DEF Looped
      <3>7. /\ at'.step = "compare" =>
                 \A i \in Past' : Paths[i] \notin local'.stale
                                   => entry[Paths[i]] = local.expected[Paths[i]]
            /\ at'.step = "decide" =>
                 \A p \in Names \ local'.stale : entry[p] = local.expected[p]
        BY <2>3, <2>4, <2>7, <3>5, <3>6 DEF Names
      <3>8. at.trying =>
              /\ \A p \in Names \ local'.stale : entry[p] = local.expected[p]
              /\ \A p \in local'.stale : local.originals[p] = entry[p]
        BY <2>6, <3>1 DEF Looped
      <3>9. \A p \in Names : Rendered(p)'
        BY <2>1, <2>5, <3>1 DEF Looped, Rendered
      <3>10. Looped'
        BY <2>1, <2>5, <2>7, <3>7, <3>8, <3>9 DEF Looped
      <3> QED
        BY <3>2, <3>3, <3>10
    <2>11. outcome' = NoOutcome
      BY <2>1, <2>2 DEF Control
    <2> QED
      BY <2>1, <2>8, <2>9, <2>10, <2>11, Onward
  <1> QED
    BY <1>1, <1>2

LEMMA DecideKeeps == IInv /\ Decide => IInv'
  <1> SUFFICES ASSUME IInv, Decide PROVE IInv'
    OBVIOUS
  <1>1. CASE at.trying \/ local.stale = {}
    <2>1. /\ at' = Idle /\ outcome' = [status |-> "PASS", code |-> "none"]
          /\ at.step = "decide"
          /\ UNCHANGED <<catalog, fixture, entry, edited, local>>
      BY <1>1 DEF Decide, Finish, Files, History
    <2>2. TypeOK /\ Control
      BY DEF IInv
    <2>3. TypeOK'
      BY <2>1, <2>2, IndexNat DEF TypeOK, Idle
    <2>4. Control' /\ (Known /\ Looped /\ Holding)'
      BY <2>1 DEF Control, Known, Looped, Holding, Idle
    <2>5. CASE edited
      BY <2>1, <2>3, <2>4, <2>5 DEF IInv, PassMeansProjected, FixturesPreserved
    <2>6. CASE ~edited
      <3>1. Known /\ Looped /\ Holding
        BY <2>6 DEF IInv
      <3>2. catalog \in Valid /\ local.before = catalog
        BY <2>1, <3>1 DEF Known
      <3>3. \A p \in Names : fixture[p] = local.expected[p]
        <4>1. CASE at.trying
          BY <2>1, <3>1, <4>1 DEF Holding
        <4>2. CASE ~at.trying
          BY <1>1, <2>1, <3>1, <4>2 DEF Holding, Looped
        <4> QED
          BY <4>1, <4>2
      <3>4. \A p \in Names : /\ entry[p] \in Json
                             /\ fixture[p] = [entry[p] EXCEPT !.digest = local.before]
        BY <2>1, <3>1, <3>3 DEF Looped, Rendered
      <3>5. \A p \in Names : /\ fixture[p] \in Json /\ fixture[p].digest = catalog
                             /\ fixture[p].body = entry[p].body
        BY <3>2, <3>4, ProjectionAssumption DEF Json
      <3>6. local.mode = "check" => fixture = entry
        BY <1>1, <2>1, <2>2, <3>1 DEF Holding, Control
      <3> QED
        BY <2>1, <2>3, <2>4, <3>2, <3>3, <3>5, <3>6
        DEF IInv, PassMeansProjected, FixturesPreserved
    <2> QED
      BY <2>2, <2>5, <2>6 DEF TypeOK
  <1>2. CASE ~at.trying /\ local.stale # {} /\ local.mode = "check"
    BY <1>2, Ended DEF Decide
  <1>3. CASE ~at.trying /\ local.stale # {} /\ local.mode # "check"
    <2>1. /\ at' = [at EXCEPT !.step = "originals", !.k = First(local.stale)]
          /\ at.step = "decide"
          /\ UNCHANGED <<outcome, catalog, fixture, entry, edited, local>>
      BY <1>3 DEF Decide, Files, History
    <2>2. TypeOK /\ Control
      BY DEF IInv
    <2>3. /\ First(local.stale) \in DOMAIN Paths
          /\ Paths[First(local.stale)] \in local.stale
          /\ \A i \in DOMAIN Paths : Paths[i] \in local.stale => First(local.stale) <= i
      BY <1>3, <2>2, FirstIs DEF TypeOK
    <2>4. /\ at'.step = "originals" /\ at'.k = First(local.stale) /\ at'.trying = at.trying
      BY <2>1, <2>2 DEF TypeOK
    <2>5. TypeOK'
      BY <2>1, <2>2, <2>3 DEF TypeOK
    <2>6. Control'
      BY <1>3, <2>1, <2>2, <2>3, <2>4 DEF Control, TypeOK
    <2>7. ASSUME ~edited PROVE Known' /\ Looped' /\ Holding'
      <3>1. Known /\ Looped /\ Holding
        BY <2>7 DEF IInv
      <3>2. \A j \in Past' : Paths[j] \notin local.stale
        BY <2>3, <2>4, IndexNat DEF Past
      <3>3. Known'
        BY <2>1, <2>4, <3>1 DEF Known
      <3>4. Looped'
        BY <1>3, <2>1, <2>4, <3>1, <3>2 DEF Looped, Rendered
      <3>5. Holding'
        BY <1>3, <2>1, <2>4, <3>1 DEF Holding
      <3> QED
        BY <3>3, <3>4, <3>5
    <2>8. outcome' = NoOutcome
      BY <2>1, <2>2 DEF Control
    <2> QED
      BY <2>1, <2>5, <2>6, <2>7, <2>8, Onward
  <1> QED
    BY <1>1, <1>2, <1>3
\* The last visit of a loop over the stale fixtures, and the first of the next.
LEMMA Last ==
  ASSUME TypeOK, NEW among, Later(among) = {}
  PROVE  \A i \in DOMAIN Paths : Paths[i] \in among => i \in Past \cup {at.k}
  <1>1. \A i \in DOMAIN Paths : Paths[i] \in among => ~ (i > at.k)
    BY DEF Later
  <1> QED
    BY <1>1, IndexNat DEF TypeOK, Past

LEMMA Firstly ==
  ASSUME TypeOK, local.stale # {}
  PROVE  /\ First(local.stale) \in DOMAIN Paths
         /\ Paths[First(local.stale)] \in local.stale
         /\ \A i \in DOMAIN Paths : i < First(local.stale) => Paths[i] \notin local.stale
  <1>1. /\ First(local.stale) \in DOMAIN Paths
        /\ Paths[First(local.stale)] \in local.stale
        /\ \A i \in DOMAIN Paths : Paths[i] \in local.stale => First(local.stale) <= i
    BY FirstIs DEF TypeOK
  <1> QED
    BY <1>1, IndexNat

\* Neither side of a projection is torn or odd.
LEMMA Sides ==
  ASSUME \A p \in Names : Rendered(p), local.before \in Digests \cup {"binary"}
  PROVE  \A p \in Names : entry[p] \in Json /\ local.expected[p] \in Json
  BY DEF Rendered, Json

LEMMA ReadOriginalKeeps == IInv /\ ReadOriginal => IInv'
  <1> SUFFICES ASSUME IInv, ReadOriginal PROVE IInv'
    OBVIOUS
  <1>1. CASE fixture[path] = Odd
    BY <1>1, Raised DEF ReadOriginal
  <1>2. CASE fixture[path] # Odd
    <2>1. /\ at.step = "originals"
          /\ IF Later(local.stale) = {}
             THEN at' = [at EXCEPT !.step = "write", !.k = First(local.stale)]
             ELSE NextOf(local.stale, "write")
          /\ local' = [local EXCEPT !.originals[path] = fixture[path]]
          /\ UNCHANGED <<outcome, catalog, fixture, entry, edited>>
      BY <1>2 DEF ReadOriginal, Files, History
    <2>2. TypeOK /\ Control
      BY DEF IInv
    <2>3. /\ path \in Names /\ path = Paths[at.k] /\ at.trying = FALSE
          /\ path \in local.stale /\ local.stale # {} /\ local.mode = "write"
      BY <2>1, <2>2 DEF TypeOK, Names, path, Control
    <2>4. PICK q \in Names : q = path
      BY <2>3
    <2>5. /\ local'.before = local.before /\ local'.mode = local.mode
          /\ local'.expected = local.expected /\ local'.stale = local.stale
          /\ local'.unrestored = local.unrestored
          /\ local'.originals = [local.originals EXCEPT ![path] = fixture[path]]
      BY <2>1, <2>2 DEF TypeOK
    <2>6. /\ local'.originals \in [Names -> Contents]
          /\ local'.originals[q] = fixture[q]
          /\ \A p \in Names \ {q} : local'.originals[p] = local.originals[p]
      BY <2>2, <2>4, <2>5 DEF TypeOK
    <2>7. /\ at' \in [step : {"originals", "write"}, k : DOMAIN Paths,
                      trying : {FALSE}]
          /\ Paths[at'.k] \in local.stale
          /\ \/ /\ at'.step = "write"
                /\ \A i \in Past' : Paths[i] \notin local.stale
                /\ \A i \in DOMAIN Paths : Paths[i] \in local.stale
                                          => i \in Past \cup {at.k}
             \/ /\ at'.step = "originals"
                /\ \A i \in Past' : Paths[i] \in local.stale => i \in Past \cup {at.k}
      <3>1. CASE Later(local.stale) = {}
        <4>1. at' = [step |-> "write", k |-> First(local.stale), trying |-> FALSE]
          BY <2>1, <2>2, <2>3, <3>1 DEF TypeOK
        <4>2. \A i \in Past' : Paths[i] \notin local.stale
          BY <2>2, <2>3, <4>1, Firstly DEF Past
        <4> QED
          BY <2>2, <2>3, <3>1, <4>1, <4>2, Firstly, Last
      <3>2. CASE Later(local.stale) # {}
        <4>1. at'.step = at.step /\ Paths[at'.k] \in local.stale
          BY <2>1, <2>2, <3>2, NextOfStep DEF TypeOK
        <4> QED
          BY <2>1, <2>2, <2>3, <3>2, <4>1, Visited
      <3> QED
        BY <3>1, <3>2
    <2>8. TypeOK'
      BY <2>1, <2>2, <2>5, <2>6, <2>7 DEF TypeOK
    <2>9. Control'
      BY <2>1, <2>2, <2>3, <2>5, <2>7 DEF Control
    <2>10. ASSUME ~edited PROVE Known' /\ Looped' /\ Holding'
      <3>1. Known /\ Looped /\ Holding
        BY <2>10 DEF IInv
      <3>2. Known'
        BY <2>1, <2>5, <2>7, <3>1 DEF Known
      <3>3. fixture = entry
        BY <2>1, <2>3, <3>1 DEF Holding
      <3>4. Holding'
        BY <2>1, <2>5, <2>7, <3>3 DEF Holding
      <3>5. \A p \in Names : Rendered(p)'
        BY <2>1, <2>5, <3>1 DEF Looped, Rendered
      <3>6. \A p \in Names \ local'.stale : entry[p] = local.expected[p]
        BY <2>1, <2>5, <3>1 DEF Looped
      <3>7. \A i \in DOMAIN Paths : Paths[i] \in local.stale /\ i \in Past \cup {at.k} =>
              local'.originals[Paths[i]] = entry[Paths[i]]
        BY <2>1, <2>3, <2>4, <2>6, <3>1, <3>3 DEF Looped, Names, Past
      <3>8. at'.step = "write" =>
              \A p \in local'.stale : local'.originals[p] = entry[p]
        <4>1. \A p \in local.stale : \E i \in DOMAIN Paths : p = Paths[i]
          BY <2>2 DEF TypeOK, Names
        <4> QED
          BY <2>5, <2>7, <3>7, <4>1
      <3>9. at'.step = "originals" =>
              \A i \in Past' : Paths[i] \in local'.stale =>
                               local'.originals[Paths[i]] = entry[Paths[i]]
        BY <2>5, <2>7, <3>7 DEF Past
      <3>10. Looped'
        BY <2>1, <2>5, <2>7, <3>5, <3>6, <3>8, <3>9 DEF Looped
      <3> QED
        BY <3>2, <3>4, <3>10
    <2>11. outcome' = NoOutcome
      BY <2>1, <2>2 DEF Control
    <2> QED
      BY <2>1, <2>8, <2>9, <2>10, <2>11, Onward
  <1> QED
    BY <1>1, <1>2
\* A regular file takes what is written.
LEMMA Taken ==
  ASSUME NEW content, Put(content), fixture[path] # Odd
  PROVE  fixture' = [fixture EXCEPT ![path] = content]
  BY DEF Put

LEMMA WriteOneKeeps == IInv /\ WriteOne => IInv'
  <1> SUFFICES ASSUME IInv, WriteOne PROVE IInv'
    OBVIOUS
  <1>1. /\ at.step = "write" /\ Put(local.expected[path])
        /\ IF Later(local.stale) = {}
           THEN at' = [step |-> "catalog", k |-> 1, trying |-> TRUE]
           ELSE NextOf(local.stale, "catalog")
        /\ UNCHANGED <<outcome, catalog, entry, edited, local>>
    BY DEF WriteOne, History
  <1>2. TypeOK /\ Control
    BY DEF IInv
  <1>3. /\ path \in Names /\ path = Paths[at.k] /\ at.trying = FALSE
        /\ path \in local.stale /\ local.stale # {} /\ local.mode = "write"
        /\ at.k \in DOMAIN Paths
    BY <1>1, <1>2 DEF TypeOK, Names, path, Control
  <1>4. PICK q \in Names : q = path
    BY <1>3
  <1>5. fixture' \in [Names -> Contents]
    BY <1>1, <1>2, <1>3 DEF TypeOK, Put, Contents
  <1>6. /\ at' \in [step : {"catalog", "write"}, k : DOMAIN Paths, trying : BOOLEAN]
        /\ \/ /\ at'.step = "catalog" /\ at'.trying = TRUE
              /\ \A i \in DOMAIN Paths : Paths[i] \in local.stale
                                        => i \in Past \cup {at.k}
           \/ /\ at'.step = "write" /\ at'.trying = FALSE
              /\ Paths[at'.k] \in local.stale
              /\ \A i \in Past' : Paths[i] \in local.stale => i \in Past \cup {at.k}
    <2>1. CASE Later(local.stale) = {}
      <3>1. at' = [step |-> "catalog", k |-> 1, trying |-> TRUE]
        BY <1>1, <2>1
      <3>2. \A i \in DOMAIN Paths : Paths[i] \in local.stale => i \in Past \cup {at.k}
        BY <1>2, <2>1, Last
      <3> QED
        BY <3>1, <3>2, IndexNat
    <2>2. CASE Later(local.stale) # {}
      <3>1. at'.step = at.step /\ Paths[at'.k] \in local.stale
        BY <1>1, <1>2, <2>2, NextOfStep DEF TypeOK
      <3> QED
        BY <1>1, <1>2, <1>3, <2>2, <3>1, Visited
    <2> QED
      BY <2>1, <2>2
  <1>7. TypeOK'
    BY <1>1, <1>2, <1>5, <1>6, IndexNat DEF TypeOK
  <1>8. Control'
    BY <1>1, <1>2, <1>3, <1>6 DEF Control
  <1>9. ASSUME ~edited PROVE Known' /\ Looped' /\ Holding'
    <2>1. Known /\ Looped /\ Holding
      BY <1>9 DEF IInv
    <2>2. Known'
      BY <1>1, <1>6, <2>1 DEF Known
    <2>3. Looped'
      BY <1>1, <1>6, <2>1 DEF Looped, Rendered
    <2>4. \A p \in Names : entry[p] \in Json /\ local.expected[p] \in Json
      BY <1>1, <1>2, <2>1, Sides DEF Looped, Control
    <2>5. fixture[path] # Odd
      BY <1>1, <1>3, <2>1, <2>4, Distinct DEF Holding
    <2>6. fixture' = [fixture EXCEPT ![path] = local.expected[path]]
      BY <1>1, <2>5, Taken
    <2>7. /\ fixture'[q] = local.expected[q]
          /\ \A p \in Names \ {q} : fixture'[p] = fixture[p]
      BY <1>2, <1>4, <2>6 DEF TypeOK
    <2>8. /\ \A p \in Names : fixture'[p] \in {entry[p], local.expected[p]}
          /\ \A p \in Names \ local.stale : fixture'[p] = entry[p]
      BY <1>1, <1>3, <1>4, <2>1, <2>7 DEF Holding
    <2>9. \A i \in DOMAIN Paths : Paths[i] \in local.stale /\ i \in Past \cup {at.k} =>
            fixture'[Paths[i]] = local.expected[Paths[i]]
      BY <1>1, <1>3, <1>4, <2>1, <2>7 DEF Holding, Names, Past
    <2>10. at'.trying => \A p \in Names : fixture'[p] = local.expected[p]
      <3>1. \A p \in Names \ local.stale : entry[p] = local.expected[p]
        BY <1>1, <2>1 DEF Looped
      <3>2. at'.trying =>
              \A i \in DOMAIN Paths : Paths[i] \in local.stale =>
                fixture'[Paths[i]] = local.expected[Paths[i]]
        BY <1>6, <2>9
      <3> QED
        BY <2>8, <3>1, <3>2 DEF Names
    <2>11. at'.step = "write" =>
             \A i \in Past' : Paths[i] \in local.stale =>
               fixture'[Paths[i]] = local.expected[Paths[i]]
      BY <1>6, <2>9 DEF Past
    <2>12. Holding'
      BY <1>1, <1>6, <2>8, <2>10, <2>11 DEF Holding
    <2> QED
      BY <2>2, <2>3, <2>12
  <1>10. outcome' = NoOutcome
    BY <1>1, <1>2 DEF Control
  <1> QED
    BY <1>1, <1>7, <1>8, <1>9, <1>10, Onward

LEMMA WriteFailsKeeps == IInv /\ WriteFails => IInv'
  <1> SUFFICES ASSUME IInv, WriteFails PROVE IInv'
    OBVIOUS
  <1>1. /\ at.step = "write" /\ Break
        /\ at' = [step |-> "rollback", k |-> First(local.stale), trying |-> TRUE]
        /\ UNCHANGED <<outcome, catalog, entry, edited, local>>
    BY DEF WriteFails, Rollback, History
  <1>2. TypeOK /\ Control
    BY DEF IInv
  <1>3. path \in Names /\ path \in local.stale /\ local.stale # {}
    BY <1>1, <1>2 DEF TypeOK, Names, path, Control
  <1>4. PICK q \in Names : q = path
    BY <1>3
  <1>5. PICK after \in {fixture[path], Torn} : fixture' = [fixture EXCEPT ![path] = after]
    BY <1>1 DEF Break
  <1>6. /\ fixture'[q] \in {fixture[q], Torn}
        /\ \A p \in Names \ {q} : fixture'[p] = fixture[p]
        /\ fixture' \in [Names -> Contents]
    BY <1>2, <1>4, <1>5 DEF TypeOK, Contents
  <1>7. TypeOK'
    BY <1>1, <1>2, <1>3, <1>6, Firstly DEF TypeOK
  <1>8. Control'
    BY <1>1, <1>2, <1>3, Firstly DEF Control
  <1>9. ASSUME ~edited PROVE Known' /\ Looped' /\ Holding'
    <2>1. Known /\ Looped /\ Holding
      BY <1>9 DEF IInv
    <2>2. Known'
      BY <1>1, <2>1 DEF Known
    <2>3. Looped'
      BY <1>1, <2>1 DEF Looped, Rendered
    <2>4. \A i \in Past' : Paths[i] \notin local.stale
      BY <1>1, <1>2, <1>3, Firstly DEF Past
    <2>5. /\ \A p \in Names : fixture'[p] \in {entry[p], local.expected[p], Torn}
          /\ \A p \in Names \ local.stale : fixture'[p] = entry[p]
      BY <1>1, <1>3, <1>4, <1>6, <2>1 DEF Holding
    <2>6. Holding'
      BY <1>1, <2>4, <2>5 DEF Holding
    <2> QED
      BY <2>2, <2>3, <2>6
  <1>10. outcome' = NoOutcome
    BY <1>1, <1>2 DEF Control
  <1> QED
    BY <1>1, <1>7, <1>8, <1>9, <1>10, Onward

LEMMA RestoreOneKeeps == IInv /\ RestoreOne => IInv'
  <1> SUFFICES ASSUME IInv, RestoreOne PROVE IInv'
    OBVIOUS
  <1>1. /\ at.step = "rollback" /\ Put(local.originals[path])
        /\ IF Later(local.stale) = {} THEN Finish("FAIL", "WRITE_FAILED")
           ELSE NextOf(local.stale, "rollback") /\ UNCHANGED outcome
        /\ UNCHANGED <<catalog, entry, edited, local>>
    BY DEF RestoreOne, History
  <1>2. TypeOK /\ Control
    BY DEF IInv
  <1>3. /\ path \in Names /\ path = Paths[at.k] /\ at.trying = TRUE
        /\ path \in local.stale /\ local.stale # {} /\ local.mode = "write"
        /\ at.k \in DOMAIN Paths /\ outcome = NoOutcome
    BY <1>1, <1>2 DEF TypeOK, Names, path, Control
  <1>4. PICK q \in Names : q = path
    BY <1>3
  <1>5. fixture' \in [Names -> Contents]
    BY <1>1, <1>2, <1>3 DEF TypeOK, Put, Contents
  <1>6. ASSUME ~edited
        PROVE  /\ \A p \in Names : fixture'[p] \in {entry[p], local.expected[p], Torn}
               /\ \A p \in Names \ local.stale : fixture'[p] = entry[p]
               /\ \A i \in DOMAIN Paths :
                    Paths[i] \in local.stale /\ i \in Past \cup {at.k} =>
                      fixture'[Paths[i]] = entry[Paths[i]]
    <2>1. Looped /\ Holding
      BY <1>6 DEF IInv
    <2>2. \A p \in Names : entry[p] \in Json /\ local.expected[p] \in Json
      BY <1>1, <1>2, <2>1, Sides DEF Looped, Control
    <2>3. fixture[path] # Odd
      BY <1>1, <1>3, <2>1, <2>2, Distinct DEF Holding
    <2>4. fixture' = [fixture EXCEPT ![path] = local.originals[path]]
      BY <1>1, <2>3, Taken
    <2>5. local.originals[q] = entry[q]
      BY <1>1, <1>3, <1>4, <2>1 DEF Looped
    <2>6. /\ fixture'[q] = entry[q]
          /\ \A p \in Names \ {q} : fixture'[p] = fixture[p]
      BY <1>2, <1>4, <2>4, <2>5 DEF TypeOK
    <2>7. \A i \in DOMAIN Paths :
            Paths[i] \in local.stale /\ i \in Past \cup {at.k} =>
              fixture'[Paths[i]] = entry[Paths[i]]
      BY <1>1, <1>3, <1>4, <2>1, <2>6 DEF Holding, Names, Past
    <2> QED
      BY <1>1, <1>3, <1>4, <2>1, <2>6, <2>7 DEF Holding
  <1>7. CASE Later(local.stale) = {}
    <2>1. at' = Idle /\ outcome' = [status |-> "FAIL", code |-> "WRITE_FAILED"]
      BY <1>1, <1>7 DEF Finish
    <2>2. TypeOK'
      BY <1>1, <1>2, <1>5, <2>1, IndexNat DEF TypeOK, Idle
    <2>3. Control' /\ (Known /\ Looped /\ Holding)' /\ PassMeansProjected'
      BY <1>1, <2>1 DEF Control, Known, Looped, Holding, Idle, PassMeansProjected
    <2>4. ASSUME ~edited PROVE fixture' = entry
      <3>1. \A i \in DOMAIN Paths : Paths[i] \in local.stale => i \in Past \cup {at.k}
        BY <1>2, <1>7, Last
      <3>2. \A p \in Names : fixture'[p] = entry[p]
        BY <1>6, <2>4, <3>1 DEF Names
      <3> QED
        BY <1>2, <1>5, <3>2 DEF TypeOK
    <2>5. FixturesPreserved'
      BY <1>1, <2>1, <2>4 DEF FixturesPreserved
    <2> QED
      BY <2>2, <2>3, <2>5 DEF IInv
  <1>8. CASE Later(local.stale) # {}
    <2>1. NextOf(local.stale, "rollback") /\ UNCHANGED outcome
      BY <1>1, <1>8
    <2>2. /\ at' \in [step : {"rollback"}, k : DOMAIN Paths, trying : {TRUE}]
          /\ Paths[at'.k] \in local.stale
          /\ \A i \in Past' : Paths[i] \in local.stale => i \in Past \cup {at.k}
      <3>1. at'.step = at.step /\ Paths[at'.k] \in local.stale
        BY <1>2, <1>8, <2>1, NextOfStep DEF TypeOK
      <3>2. at' \in [step : {"rollback"}, k : DOMAIN Paths, trying : {TRUE}]
        BY <1>1, <1>2, <1>3, <2>1, Visited
      <3>3. at'.k = 1 => Past' = {}
        BY IndexNat DEF Past
      <3>4. \A i \in Past' : Paths[i] \in local.stale => i \in Past \cup {at.k}
        BY <1>2, <2>1, <3>3, Visited DEF Past
      <3> QED
        BY <3>1, <1>1, <3>2, <3>4
    <2>3. TypeOK'
      BY <1>1, <1>2, <1>5, <2>2 DEF TypeOK
    <2>4. Control'
      BY <1>1, <1>2, <1>3, <2>1, <2>2 DEF Control
    <2>5. ASSUME ~edited PROVE Known' /\ Looped' /\ Holding'
      <3>1. Known /\ Looped
        BY <2>5 DEF IInv
      <3>2. Known'
        BY <1>1, <1>3, <2>2, <3>1 DEF Known
      <3>3. Looped'
        BY <1>1, <1>3, <2>2, <3>1 DEF Looped, Rendered
      <3>4. Holding'
        BY <1>1, <1>6, <2>2, <2>5 DEF Holding, Past
      <3> QED
        BY <3>2, <3>3, <3>4
    <2> QED
      BY <1>1, <1>3, <2>1, <2>3, <2>4, <2>5, Onward
  <1> QED
    BY <1>7, <1>8
-----------------------------------------------------------------------------
(* The ends that leave a part of a file, and the environment *)

LEMMA Broken ==
  ASSUME IInv, Break, at.step \in {"write", "rollback"},
         NEW status, NEW code, Finish(status, code),
         UNCHANGED <<catalog, History>>,
         \/ status = "killed" /\ UNCHANGED local
         \/ status = "FAIL" /\ local' = [local EXCEPT !.unrestored = TRUE]
  PROVE  IInv'
  <1>1. /\ at' = Idle /\ outcome' = [status |-> status, code |-> code]
        /\ UNCHANGED <<catalog, entry, edited>>
    BY DEF Finish, History
  <1>2. TypeOK /\ Control
    BY DEF IInv
  <1>3. path \in Names /\ path \in local.stale /\ local.mode = "write"
    BY <1>2 DEF TypeOK, Names, path, Control
  <1>4. PICK q \in Names : q = path
    BY <1>3
  <1>5. PICK after \in {fixture[path], Torn} : fixture' = [fixture EXCEPT ![path] = after]
    BY DEF Break
  <1>6. /\ fixture'[q] \in {fixture[q], Torn}
        /\ \A p \in Names \ {q} : fixture'[p] = fixture[p]
        /\ fixture' \in [Names -> Contents]
    BY <1>2, <1>4, <1>5 DEF TypeOK, Contents
  <1>7. /\ local'.mode = "write" /\ local'.expected = local.expected
        /\ status \in {"killed", "FAIL"} /\ (status = "FAIL" => local'.unrestored)
    BY <1>2, <1>3 DEF TypeOK
  <1>8. TypeOK'
    BY <1>1, <1>2, <1>6, IndexNat DEF TypeOK, Idle
  <1>9. Control' /\ (Known /\ Looped /\ Holding)' /\ PassMeansProjected'
    BY <1>1, <1>7 DEF Control, Known, Looped, Holding, Idle, PassMeansProjected
  <1>10. ASSUME ~edited
         PROVE  \A p \in Names : fixture'[p] \in {entry[p], local.expected[p], Torn}
    <2>1. Holding
      BY <1>10 DEF IInv
    <2>2. \A p \in Names : fixture[p] \in {entry[p], local.expected[p], Torn}
      BY <2>1 DEF Holding
    <2> QED
      BY <1>6, <2>2
  <1>11. FixturesPreserved'
    BY <1>1, <1>7, <1>10 DEF FixturesPreserved
  <1> QED
    BY <1>8, <1>9, <1>11 DEF IInv

LEMMA RestoreFailsKeeps == IInv /\ RestoreFails => IInv'
  BY Broken DEF RestoreFails

LEMMA KilledKeeps == IInv /\ Killed => IInv'
  <1> SUFFICES ASSUME IInv, Killed PROVE IInv'
    OBVIOUS
  <1>1. CASE at.step \in {"write", "rollback"}
    BY <1>1, Broken DEF Killed
  <1>2. CASE at.step \notin {"write", "rollback"}
    BY <1>2, Ended DEF Killed, Files
  <1> QED
    BY <1>1, <1>2

LEMMA RunKeeps == ASSUME NEW mode \in {"check", "write"}, IInv, Run(mode) PROVE IInv'
  <1>1. /\ at' = [Idle EXCEPT !.step = "catalog"]
        /\ local' = [NoLocal EXCEPT !.mode = mode]
        /\ outcome' = NoOutcome /\ entry' = fixture /\ edited' = FALSE
        /\ UNCHANGED <<catalog, fixture>>
    BY DEF Run, Files
  <1>2. /\ at'.step = "catalog" /\ at'.k = 1 /\ at'.trying = FALSE
        /\ ~local'.unrestored
    BY <1>1 DEF Idle, NoLocal
  <1>3. TypeOK'
    <2>1. NoContent \in [Names -> Contents]
      BY DEF NoContent, Contents
    <2>2. TypeOK
      BY DEF IInv
    <2>3. /\ at' = [step |-> "catalog", k |-> 1, trying |-> FALSE]
          /\ local' = [mode |-> mode, before |-> "none", expected |-> NoContent,
                       stale |-> {}, originals |-> NoContent, unrestored |-> FALSE]
          /\ UNCHANGED <<catalog, fixture>> /\ entry' = fixture /\ edited' = FALSE
      BY <1>1 DEF Idle, NoLocal
    <2> QED
      BY <2>1, <2>2, <2>3, IndexNat DEF TypeOK
  <1>4. Control'
    BY <1>1, <1>2 DEF Control
  <1>5. Known' /\ Looped' /\ Holding'
    BY <1>1, <1>2 DEF Known, Looped, Holding
  <1> QED
    BY <1>1, <1>3, <1>4, <1>5, Onward

LEMMA EditKeeps == IInv /\ Edit => IInv'
  <1> SUFFICES ASSUME IInv, Edit PROVE IInv'
    OBVIOUS
  <1>1. edited' = TRUE /\ UNCHANGED <<at, local, outcome, entry>>
    BY DEF Edit
  <1>2. TypeOK'
    BY <1>1 DEF Edit, IInv, TypeOK
  <1>3. Control'
    BY <1>1 DEF IInv, Control
  <1>4. PassMeansProjected' /\ FixturesPreserved'
    BY <1>1 DEF PassMeansProjected, FixturesPreserved
  <1> QED
    BY <1>1, <1>2, <1>3, <1>4 DEF IInv

-----------------------------------------------------------------------------
(* Safety *)

LEMMA StutterKeeps == IInv /\ UNCHANGED vars => IInv'
  <1> SUFFICES ASSUME IInv, UNCHANGED vars PROVE IInv'
    OBVIOUS
  <1>1. UNCHANGED <<catalog, fixture, at, local, outcome, entry, edited>>
    BY DEF vars
  <1>2. TypeOK' /\ Control' /\ PassMeansProjected' /\ FixturesPreserved'
    BY <1>1 DEF IInv, TypeOK, Control, PassMeansProjected, FixturesPreserved
  <1>3. ~edited' => Known' /\ Looped' /\ Holding'
    BY <1>1 DEF IInv, Known, Looped, Rendered, Holding, Past
  <1> QED
    BY <1>2, <1>3 DEF IInv

\* No read, write, restore, edit or kill disturbs what is relied on.
THEOREM Steps == IInv /\ [Next]_vars => IInv'
  <1> SUFFICES ASSUME IInv, [Next]_vars PROVE IInv'
    OBVIOUS
  <1>1. CASE Synchronize
    BY <1>1, ReadCatalogKeeps, ValidateCatalogKeeps, RereadCatalogKeeps,
       RenderKeeps, CompareKeeps, DecideKeeps, ReadOriginalKeeps, WriteOneKeeps,
       WriteFailsKeeps, RestoreOneKeeps, RestoreFailsKeeps DEF Synchronize
  <1>2. CASE \E mode \in {"check", "write"} : Run(mode)
    BY <1>2, RunKeeps
  <1>3. CASE Edit
    BY <1>3, EditKeeps
  <1>4. CASE Killed
    BY <1>4, KilledKeeps
  <1>5. CASE UNCHANGED vars
    BY <1>5, StutterKeeps
  <1> QED
    BY <1>1, <1>2, <1>3, <1>4, <1>5 DEF Next

\* What every statement of the projection relies on holds throughout.
THEOREM Invariance == Spec => []IInv
  BY Starts, Steps, PTL DEF Spec

\* A PASS nobody disturbed is over a valid catalog whose digest is everywhere.
THEOREM PassTruthful == Spec => []PassMeansProjected
  <1>1. IInv => PassMeansProjected
    BY DEF IInv
  <1> QED
    BY <1>1, Invariance, PTL

\* The fixtures survive a check, a failure and a rollback.
THEOREM RunsPreserve == Spec => []FixturesPreserved
  <1>1. IInv => FixturesPreserved
    BY DEF IInv
  <1> QED
    BY <1>1, Invariance, PTL

\* Nothing but the projection touches the fixtures the projection is of: the
\* tools together run it, or leave it idle.
THEOREM Projects == ToolsSpec => Spec
  <1>1. ToolsInit => Init
    <2> SUFFICES ASSUME ToolsInit PROVE Init
      OBVIOUS
    <2>1. NoContent \in [Names -> Contents]
      BY DEF NoContent, Contents
    <2> QED
      BY <2>1 DEF ToolsInit, Init, Catalogs
  <1>2. [ToolsNext]_toolVars => [Next]_vars
    BY DEF ToolsNext, toolVars, Replace
  <1> QED
    BY <1>1, <1>2, PTL DEF ToolsSpec, Spec
=============================================================================
