---------------------------- MODULE RustDispatch ----------------------------
(***************************************************************************)
(* rust_dispatch.py: resolve_binary verifies the bundled Rust binary and   *)
(* everything it was built from against bin/manifest.json; invoke verifies *)
(* all of it a second time, compares, and executes the binary by its path. *)
(***************************************************************************)
EXTENDS PluginBundle

\* The files in the order they are read: the binary's metadata, then its bytes,
\* source_digest over SOURCE_INPUTS, and the two locks once more.
RuntimeReads ==
  <<"manifest", "binary", "binary", "flake_lock", "runtime_lock",
    "validator_lock", "cargo_lock", "source", "runner", "builder", "catalog",
    "uv_lock", "payload", "cargo_lock", "flake_lock">>

\* What a read raises: the manifest must be well formed and declare exactly one
\* artifact for this host ("foreign" if not); the rest must be what it says.
\* A manifest that is not UTF-8 raises what no caller catches.
\* The code compares the digests of the inputs after it has read them all.
ReadFault(file) ==
  IF file = "manifest" /\ files[file] = "foreign" THEN "unsupported"
  ELSE IF file = "manifest" /\ files[file] = "garbled" THEN "garbled"
  ELSE IF \/ files[file] \in {"missing", "odd"}
          \/ file = "manifest" /\ files[file] \notin Intact
          \/ file # "manifest" /\ files[file] # call.sel
  THEN "integrity" ELSE "none"

\* A complete selection; invoke's must be the one that was verified before.
Resolved ==
  IF call.proc = "resolve" THEN Return("selected")
  ELSE IF call.sel # call.want THEN Return("integrity")
  ELSE Advance(call.sel)

\* Mutant of ReadRuntime: invoke trusts what was verified before it.
ReadRuntime_Once ==
  /\ call.proc \in {"resolve", "invoke"}
  /\ call.step \in DOMAIN RuntimeReads
  /\ LET file == RuntimeReads[call.step]
         sel == IF file = "manifest" THEN files[file] ELSE call.sel IN
     IF call.proc = "invoke"
     THEN call' = [call EXCEPT !.step = Len(RuntimeReads) + 1, !.sel = call.want]
     ELSE IF ReadFault(file) # "none" THEN Return(ReadFault(file))
     ELSE IF call.step = Len(RuntimeReads) THEN Resolved
     ELSE Advance(sel)
  /\ UNCHANGED ran

ReadRuntime ==
  /\ call.proc \in {"resolve", "invoke"}
  /\ call.step \in DOMAIN RuntimeReads
  /\ LET file == RuntimeReads[call.step]
         sel == IF file = "manifest" THEN files[file] ELSE call.sel IN
     IF ReadFault(file) # "none" THEN Return(ReadFault(file))
     ELSE IF call.step = Len(RuntimeReads) THEN Resolved
     ELSE Advance(sel)
  /\ UNCHANGED ran

\* The report of a genuine binary on what it is asked to check.
Report(target) ==
  CASE files[target] \in {"v1", "v2", "mutating", "owner"} -> "valid"
    [] files[target] = "partial" -> "partial"
    [] OTHER -> "invalid"

\* [report, code] pairs the executed bytes may end with.
Answers(bytes) ==
  IF bytes \notin Intact \/ Flawed("rust_crashes")
  THEN {<<"none", 134>>} \cup
       (IF bytes \in Intact THEN {} ELSE {"valid", "invalid"} \X {0, 1, 70})
  ELSE {<<Report(call.target), IF Report(call.target) = "valid" THEN 0 ELSE 1>>}

\* subprocess.run on the path, whatever it holds now.
Execute ==
  /\ call.proc = "invoke" /\ call.step = Len(RuntimeReads) + 1
  /\ IF files["binary"] = "missing" \/ Flawed("rust_slow")
     THEN Return("invocation") /\ UNCHANGED ran
     ELSE /\ Executed("binary", call.sel, files["binary"])
          /\ \E answer \in Answers(files["binary"]) :
               call' = [call EXCEPT !.step = 0, !.result = "ran",
                                    !.bytes = answer[1], !.code = answer[2]]

\* invocation_status of a call that ran.
InvocationStatus ==
  IF call.bytes = "none" \/ call.code \notin {0, 1} THEN "INCONCLUSIVE"
  ELSE IF call.code = 0 THEN "PASS" ELSE "FAIL"

\* main: resolve, then invoke.
DispatchStart ==
  /\ stage = "dispatch" /\ call = NoCall
  /\ Call("resolve", "none", "knowledge")
  /\ UNCHANGED <<stage, exit>>

DispatchInvoke ==
  /\ stage = "dispatch" /\ Returned("resolve") /\ call.result = "selected"
  /\ Call("invoke", call.sel, "knowledge")
  /\ UNCHANGED <<stage, exit>>

DispatchEnd ==
  /\ stage = "dispatch"
  /\ \/ Returned("invoke")
     \/ Returned("resolve") /\ call.result # "selected"
  /\ stage' = "done"
  /\ exit' = IF call.result = "ran" /\ call.bytes # "none" THEN call.code
             ELSE IF call.result = "garbled" THEN 1 ELSE 70
  /\ UNCHANGED call

Dispatch ==
  \/ (ReadRuntime \/ Execute) /\ UNCHANGED <<stage, exit>>
  \/ (DispatchStart \/ DispatchInvoke \/ DispatchEnd) /\ UNCHANGED ran
=============================================================================
