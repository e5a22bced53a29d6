-------------------------- MODULE MCGovernorTools --------------------------
(* Each tool in the situations where its hazards are. *)
EXTENDS GovernorTools

MCPaths == <<"rejected-plan-report", "rust-plan-report">>

Fine == [name \in Everything |-> "v1"]

\* One thing is wrong with the files.
Wrong ==
  (Everything \X {"other", "missing", "odd"}) \cup
  ({"plugin_json", "catalog", "manifest", "validator_lock", "ask_lock",
    "ask_adapter", "policy", "setup_receipt", "owner_lock"} \X {"garbled"}) \cup
  {<<"manifest", "foreign">>, <<"knowledge", "partial">>, <<"skills", "empty">>,
   <<"policy", "unreadable">>, <<"policy", "mutating">>, <<"policy", "owner">>}
With(changes) == [name \in Everything |->
  IF \E c \in changes : c[1] = name
  THEN (CHOOSE c \in changes : c[1] = name)[2] ELSE "v1"]

Audits ==
  [tool : {"doctor"}, down : {{}}, limit : {0}, changes : {{}},
   files : {With({w}) : w \in Wrong} \cup
           {With({w, f}) : w \in Wrong, f \in {<<"manifest", "foreign">>,
              <<"setup_docs", "missing">>, <<"policy", "mutating">>,
              <<"policy", "owner">>, <<"skills", "empty">>}},
   flaws : {{}}]
  \cup
  [tool : {"doctor"}, down : {{}}, limit : {0}, changes : {{}}, files : {Fine},
   flaws : {{f} : f \in {"rust_slow", "rust_crashes", "validator_slow",
                         "yaml_unusable", "git_slow"}}]
  \cup
  [tool : {"doctor"}, down : {{}}, limit : {1}, changes : {Wrong},
   files : {Fine}, flaws : {{}}]
  \cup
  {[tool |-> "doctor", down |-> {}, limit |-> 1, flaws |-> {}, files |-> With({w}),
    changes |-> {<<w[1], "v1">>}] : w \in Wrong \cup (Everything \X {"v2"})}

\* An update of the bundle from v1 to v2, and back, file by file.
Updated == {"manifest", "binary", "source"}
Dispatches ==
  [tool : {"dispatch"}, down : {{}}, limit : {3}, flaws : {{}},
   changes : {Updated \X Intact},
   files : {[name \in Everything |-> IF name \in Updated THEN u[name] ELSE "v1"] :
              u \in [Updated -> Intact]}]

Steps ==
  [tool : {"typed"}, down : SUBSET Services, limit : {2}, changes : {{}},
   flaws : {{}, {"no_command"}, {"earlier_fails"}, {"validator_slow"},
            {"later_fails"}},
   files : {Fine, With({<<"plugin_validator", "missing">>}),
            With({<<"skill_validator", "missing">>}),
            With({<<"skills", "other">>}), With({<<"skills", "empty">>}),
            With({<<"payload", "other">>})}]

MCSetups ==
  Audits \cup Dispatches \cup Steps \cup
  {[tool |-> "projection", down |-> {}, limit |-> 0, changes |-> {},
    flaws |-> {}, files |-> Fine]}
=============================================================================
