------------------------------- MODULE Doctor -------------------------------
(***************************************************************************)
(* doctor.py: the read-only audit of the installed plugin and of one       *)
(* repository.  audit() adds finding after finding and takes what earlier  *)
(* steps read (the runtime's snapshot, the Rust selection, a policy's      *)
(* receipt) into later ones; the exit code is the worst status.            *)
(***************************************************************************)
EXTENDS RustDispatch, ValidateCanonical

VARIABLES
  memo,  \* audit()'s locals
  found  \* the findings, as <<check, status>>

\* listed: whether the Skills were listed, and found "some" or "none".
NoMemo == [listed |-> "no", runtime |-> "none", selection |-> "none",
           unavailable |-> "INCONCLUSIVE", okf |-> "none", receipt |-> "none",
           document |-> "none", ask |-> "none"]

Find(findings) == found' = found \cup findings
All(checks, status) == checks \X {status}
FromFile(file) == IF files[file] \in Intact THEN "PASS" ELSE "FAIL"
IsFile(file) == files[file] \notin {"missing", "odd"}

\* The statements whose except clauses, if any, name OSError and errors of the
\* JSON and TOML parsers, and do not catch what garbled bytes raise; the digest
\* of a policy that may not be read is taken outside of them.
Uncaught ==
  \/ stage = "plugin_manifest" /\ files["plugin_json"] = "garbled"
  \/ stage = "catalog" /\ files["catalog"] = "garbled"
  \/ stage = "artifact" /\ Returned("resolve") /\ call.result = "garbled"
  \/ stage = "ask_matt" /\ files["ask_lock"] = "garbled"
  \/ stage = "ask_matt" /\ files["ask_lock"] \in Intact /\ files["ask_adapter"] = "garbled"
  \/ stage = "policy" /\ files["policy"] \in {"garbled", "unreadable"}
  \/ stage = "policy_again" /\ files["policy"] = "garbled"
  \/ stage = "setup" /\ IsFile("setup_docs") /\ files["setup_receipt"] = "garbled"
  \/ stage = "owner" /\ memo.document = "owner" /\ files["owner_lock"] = "garbled"

\* A traceback.
Traceback == stage' = "done" /\ exit' = 1 /\ UNCHANGED <<call, memo, found, ran>>
Crash == Uncaught /\ Traceback

At(at) == stage = at /\ ~Uncaught /\ UNCHANGED <<ran, exit>>
Then(next) == stage' = next

PluginManifest ==
  /\ At("plugin_manifest")
  /\ Find({<<"plugin_manifest_parse_smoke", FromFile("plugin_json")>>})
  /\ Then("lock") /\ Call("load", "none", "none")
  /\ UNCHANGED memo

-----------------------------------------------------------------------------
(* Canonical validators *)

\* Between the two locks the Skills are listed.
ListSkills ==
  /\ At("lock") /\ call.step = 2 /\ memo.listed = "no"
  /\ IF ~IsFile("skills") THEN Return("lock") /\ UNCHANGED memo
     ELSE /\ memo' = [memo EXCEPT !.listed =
                        IF files["skills"] = "empty" THEN "none" ELSE "some"]
          /\ UNCHANGED call
  /\ UNCHANGED <<stage, found>>

\* canonical_validator, and the except clauses of audit().
CanonicalStatus(result) ==
  CASE result \in {"loaded", "accepted"} -> "PASS"
    [] result \in {"inconclusive", "timeout"} -> "INCONCLUSIVE"
    [] OTHER -> "FAIL"

NotLoaded ==
  /\ At("lock") /\ Returned("load") /\ call.result # "loaded"
  /\ Find(IF call.result = "lock" THEN {<<"canonical_validator_lock", "FAIL">>}
          ELSE All({"canonical_validator_runtime", "plugin_manifest_canonical"}
                   \cup (IF memo.listed = "some" THEN {"skill_canonical"} ELSE {}),
                   CanonicalStatus(call.result)))
  /\ Then("catalog")
  /\ UNCHANGED <<call, memo>>

Loaded ==
  /\ At("lock") /\ Returned("load") /\ call.result = "loaded"
  /\ Find({<<"canonical_validator_runtime", "PASS">>})
  /\ memo' = [memo EXCEPT !.runtime = call.sel]
  /\ Then("run_plugin") /\ Call("validator", call.sel, "plugin_validator")

\* The loop over the Skills has no turn when there are none.
PluginValidated ==
  /\ At("run_plugin") /\ Returned("validator")
  /\ Find({<<"plugin_manifest_canonical", CanonicalStatus(call.result)>>})
  /\ IF memo.listed = "none" THEN Then("catalog") /\ UNCHANGED call
     ELSE Then("run_skill") /\ Call("validator", memo.runtime, "skill_validator")
  /\ UNCHANGED memo

SkillValidated ==
  /\ At("run_skill") /\ Returned("validator")
  /\ Find({<<"skill_canonical", CanonicalStatus(call.result)>>})
  /\ Then("catalog")
  /\ UNCHANGED <<call, memo>>

-----------------------------------------------------------------------------
(* The Rust core and the differentials *)

Catalog ==
  /\ At("catalog")
  /\ Find({<<"plugin_toolchain_lock", FromFile("catalog")>>})
  /\ Then("artifact") /\ Call("resolve", "none", "none")
  /\ UNCHANGED memo

Artifact ==
  /\ At("artifact") /\ Returned("resolve")
  /\ IF call.result = "selected"
     THEN /\ Find({<<"rust_core_artifact", "PASS">>})
          /\ memo' = [memo EXCEPT !.selection = call.sel]
     ELSE LET status == IF call.result = "unsupported"
                        THEN "INCONCLUSIVE" ELSE "FAIL" IN
          /\ Find({<<"rust_core_artifact", status>>})
          /\ memo' = [memo EXCEPT !.unavailable = status]
  /\ Then("okf")
  /\ UNCHANGED call

\* The Rust half of a check: executed, or reported as not executed.
RustHalf(target, rust, differential, next) ==
  IF memo.selection = "none"
  THEN /\ Find(All({rust, differential}, memo.unavailable))
       /\ Then(next) /\ UNCHANGED call
  ELSE /\ Then(rust) /\ Call("invoke", memo.selection, target)
       /\ UNCHANGED found

\* The Python half is kept to be compared.
Okf ==
  /\ At("okf")
  /\ memo' = [memo EXCEPT !.okf = Report("knowledge")]
  /\ Find({<<"okf_core",
             CASE Report("knowledge") = "valid" -> "PASS"
               [] Report("knowledge") = "partial" -> "INCONCLUSIVE"
               [] OTHER -> "FAIL">>})
  /\ Then("okf_halves")
  /\ UNCHANGED call

OkfHalves ==
  /\ At("okf_halves")
  /\ RustHalf("knowledge", "rust_okf_core", "okf_runtime_differential", "ask_matt")
  /\ UNCHANGED memo

\* rust_check and the comparison with what Python had said.
RustChecked(rust, differential, python, next) ==
  /\ At(rust) /\ Returned("invoke") /\ call.result \notin {"unsupported", "garbled"}
  /\ LET status == CASE call.result = "integrity" -> "FAIL"
                     [] call.result = "invocation" -> "INCONCLUSIVE"
                     [] OTHER -> InvocationStatus
         report == IF call.result = "ran" THEN call.bytes ELSE "none" IN
     Find({<<rust, status>>,
           <<differential, IF report = "none" THEN "INCONCLUSIVE"
                           ELSE IF report = python THEN "PASS" ELSE "FAIL">>})
  /\ Then(next)
  /\ UNCHANGED <<call, memo>>

\* rust_check does not catch the UnsupportedHostError of a manifest that has
\* lost this host's artifact since it was selected, nor what a garbled one raises.
RustUnsupported ==
  /\ stage \in {"rust_okf_core", "rust_repository_policy"}
  /\ Returned("invoke") /\ call.result \in {"unsupported", "garbled"}
  /\ Traceback

-----------------------------------------------------------------------------
(* The routes of ask-matt and the repository *)

AskMatt ==
  /\ At("ask_matt")
  /\ LET parsed == files["ask_lock"] \in Intact /\ files["ask_adapter"] \in Intact
         installed == files["ask_installed"] IN
     /\ Find(IF ~parsed THEN {<<"ask_matt_source_lock", "FAIL">>}
             ELSE {<<"ask_matt_adapter_lock",
                     IF files["ask_lock"] = files["ask_adapter"]
                     THEN "PASS" ELSE "FAIL">>,
                   <<"ask_matt_installed_source",
                     IF ~IsFile("ask_installed") THEN "INCONCLUSIVE"
                     ELSE IF installed = files["ask_lock"] THEN "PASS"
                     ELSE "FAIL">>})
     /\ memo' = IF parsed THEN [memo EXCEPT !.ask = files["ask_lock"]] ELSE memo
  /\ Then("policy")
  /\ UNCHANGED call

\* Whatever is no regular file counts as no policy.
NoPolicy ==
  /\ At("policy") /\ ~IsFile("policy")
  /\ Find(All({"repository_policy", "rust_repository_policy"}, "WARN"))
  /\ Then("git")
  /\ UNCHANGED <<call, memo>>

Policy ==
  /\ At("policy") /\ IsFile("policy")
  /\ memo' = [memo EXCEPT !.receipt = Report("policy")]
  /\ Find({<<"repository_policy",
             IF Report("policy") = "valid" THEN "PASS" ELSE "FAIL">>})
  /\ Then("policy_again")
  /\ UNCHANGED call

\* The document later checks go by comes from a second read.
PolicyAgain ==
  /\ At("policy_again")
  /\ memo' = [memo EXCEPT !.document =
                IF files["policy"] \in {"missing", "odd", "unreadable"}
                THEN "none" ELSE files["policy"]]
  /\ RustHalf("policy", "rust_repository_policy", "policy_runtime_differential",
              "git")

Git ==
  /\ At("git")
  /\ Find({<<"git_repository",
             IF files["git"] \in Intact /\ ~Flawed("git_slow")
             THEN "PASS" ELSE "WARN">>})
  /\ Then("setup")
  /\ UNCHANGED <<call, memo>>

\* The receipt of the setup is bound to the ask-matt source that is locked.
Setup ==
  /\ At("setup")
  /\ LET ready == /\ IsFile("setup_docs")
                  /\ files["setup_receipt"] \in Intact
                  /\ files["setup_receipt"] = memo.ask
         mutating == memo.document = "mutating" IN
     Find({<<"matt_setup",
             CASE ready /\ ~mutating -> "PASS"
               [] ready /\ mutating -> "INCONCLUSIVE"
               [] ~ready /\ mutating -> "FAIL"
               [] OTHER -> "WARN">>})
  /\ Then("owner")
  /\ UNCHANGED <<call, memo>>

Owner ==
  /\ At("owner")
  /\ Find(IF memo.document # "owner" THEN {}
          ELSE {<<"owner_original_files",
                  IF IsFile("owner_files") THEN "PASS" ELSE "FAIL">>,
                <<"owner_toolchain_lock", FromFile("owner_lock")>>}
               \cup All({"github_review_closeout",
                         "trusted_code_review_attestation",
                         "llm_contract_ast_mapping"}, "INCONCLUSIVE"))
  /\ Then("overall")
  /\ UNCHANGED <<call, memo>>

Has(status) == \E finding \in found : finding[2] = status

\* Mutant of AuditExitCode: only a failure is an error.
AuditExitCode_Open == IF Has("FAIL") THEN 1 ELSE 0

AuditExitCode ==
  IF Has("FAIL") THEN 1 ELSE IF Has("INCONCLUSIVE") THEN 2 ELSE 0

Overall ==
  /\ stage = "overall"
  /\ stage' = "done"
  /\ exit' = AuditExitCode
  /\ UNCHANGED <<call, memo, found, ran>>

\* The procedures audit() calls; the lock is not read on before the listing.
Procedure ==
  /\ ReadRuntime \/ Execute \/ Canonical
  /\ call.proc = "load" /\ call.step = 2 => memo.listed # "no"
  /\ UNCHANGED <<stage, exit, memo, found>>

Audit ==
  \/ Procedure
  \/ PluginManifest \/ ListSkills \/ NotLoaded \/ Loaded \/ PluginValidated
  \/ SkillValidated \/ Catalog \/ Artifact \/ Okf \/ OkfHalves
  \/ RustChecked("rust_okf_core", "okf_runtime_differential", memo.okf, "ask_matt")
  \/ RustUnsupported \/ Crash \/ AskMatt \/ NoPolicy \/ Policy \/ PolicyAgain
  \/ RustChecked("rust_repository_policy", "policy_runtime_differential",
                 memo.receipt, "git")
  \/ Git \/ Setup \/ Owner \/ Overall
=============================================================================
