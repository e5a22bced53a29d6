------------------------- MODULE ValidateCanonical -------------------------
(***************************************************************************)
(* validate_canonical.py: the canonical Plugin and Skill validators run    *)
(* only from bytes that match references/canonical-validators.lock.json,   *)
(* on a YAML runtime that matches references/canonical-runtime.lock.json.  *)
(* Everything executed is a private copy of bytes read once and verified.  *)
(***************************************************************************)
EXTENDS PluginBundle

\* load_lock, load_runtime_contract with pyyaml_identity_sha256, load_runtime.
LockReads ==
  <<"validator_lock", "runtime_lock", "uv_lock", "builder", "runner", "payload">>

\* A missing file is inconclusive; a malformed validator lock is no runtime
\* error; everything must be of the release the validator lock names.
LockFault(file) ==
  IF files[file] = "missing" THEN "inconclusive"
  ELSE IF files[file] = "odd" THEN "invalid"
  ELSE IF file = "validator_lock" /\ files[file] \notin Intact THEN "lock"
  ELSE IF file # "validator_lock" /\ files[file] # call.sel THEN "invalid"
  ELSE "none"

LoadRuntime ==
  /\ call.proc = "load" /\ call.step \in DOMAIN LockReads
  /\ LET file == LockReads[call.step]
         sel == IF file = "validator_lock" THEN files[file] ELSE call.sel IN
     IF LockFault(file) # "none" THEN Return(LockFault(file))
     ELSE IF call.step = Len(LockReads) THEN Return("loaded")
     ELSE Advance(sel)
  /\ UNCHANGED ran

\* run_validator: one read of the validator, or of the copy fetched before.
ReadValidator ==
  /\ call.proc = "validator" /\ call.step = 1
  /\ LET bytes == IF call.sel = "fetched" THEN call.want ELSE files[call.target] IN
     IF bytes = "missing" THEN Return("inconclusive")
     ELSE IF bytes = "odd" THEN Return("invalid")
     ELSE IF bytes # call.want THEN Return("mismatch")
     ELSE call' = [call EXCEPT !.step = 2, !.bytes = bytes]
  /\ UNCHANGED ran

\* What the validators validate.
Subject == [plugin_validator |-> "plugin_json", skill_validator |-> "skills"]

\* What the run may end with: a time-out, an exit with 86 of the runner, whose
\* YAML import is not the private one, or the validator's own verdict.
Verdicts ==
  IF Flawed("validator_slow") THEN "timeout"
  ELSE IF Flawed("yaml_unusable") THEN "invalid"
  ELSE IF files[Subject[call.target]] \in Intact THEN "accepted" ELSE "rejected"

\* Mutant of RunSnapshot: the validator is executed where it is installed.
RunSnapshot_Path ==
  /\ call.proc = "validator" /\ call.step = 2
  /\ Executed(call.target, call.want, files[call.target])
  /\ Return(Verdicts)

\* The private copy is executed, by the runner that compares its digest again.
RunSnapshot ==
  /\ call.proc = "validator" /\ call.step = 2
  /\ Executed(call.target, call.want, call.bytes)
  /\ Return(Verdicts)

Canonical == LoadRuntime \/ ReadValidator \/ RunSnapshot
=============================================================================
