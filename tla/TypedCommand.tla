---------------------------- MODULE TypedCommand ----------------------------
(***************************************************************************)
(* run_typed_ci.py around the Python policy step of the proof-slow         *)
(* workflow: commands of the locked environment, one of them               *)
(* validate_canonical.py --fetch-missing.  When the step fails the network *)
(* is probed, service after service, to tell an outage from a fault of the *)
(* code; services may fail and recover at any time.                        *)
(***************************************************************************)
EXTENDS ValidateCanonical

VARIABLES
  places,  \* where each validator is taken from
  receipt, \* what _emit printed: its status
  silent,  \* history: services down ever since the command ended
  seen     \* history: services down at some time since then

Probed == {"dns", "daemon", "api", "cache"}
Services == Probed \cup {"raw"} \* "raw" serves the validators' source
NoPlaces == [plugin_validator |-> "none", skill_validator |-> "none"]

typed == <<places, receipt, silent, seen>>

\* The command ends and is judged from here on.
Ends(code) ==
  exit' = code /\ stage' = "classify" /\ silent' = down /\ seen' = down

\* Popen may fail; nix develop needs the daemon; an earlier command of the
\* script may fail with its own exit code, which is the script's.
StartCommand ==
  /\ stage = "launch"
  /\ \/ /\ \E code \in (IF Flawed("no_command") \/ "daemon" \in down THEN {1}
                       ELSE IF Flawed("earlier_fails") THEN {1, 2} ELSE {}) :
             Ends(code)
        /\ UNCHANGED call
     \/ /\ ~Flawed("no_command") /\ "daemon" \notin down
        /\ ~Flawed("earlier_fails")
        /\ stage' = "load" /\ Call("load", "none", "none") /\ UNCHANGED <<exit, silent, seen>>
  /\ UNCHANGED <<ran, places, receipt>>

-----------------------------------------------------------------------------
(* validate_canonical.main *)

\* Every exception main catches, and a validator that rejects.
Fails == Ends(1) /\ UNCHANGED <<call, places>>

LockLoaded ==
  /\ stage = "load" /\ Returned("load")
  /\ IF call.result # "loaded" THEN Fails
     ELSE stage' = "plugin_validator" /\ UNCHANGED <<call, places, exit, silent, seen>>
  /\ UNCHANGED <<ran, receipt>>

\* resolve_validator: the installed one must match, a missing one is fetched.
Resolve(which, next) ==
  /\ stage = which /\ places[which] = "none"
  /\ LET bytes == files[which]
         place == IF bytes = "missing" THEN "fetched" ELSE "installed" IN
     IF \/ bytes # "missing" /\ bytes # call.sel
        \/ bytes = "missing" /\ down \cap {"dns", "raw"} # {}
     THEN Fails
     ELSE /\ places' = [places EXCEPT ![which] = place]
          /\ stage' = next
          /\ UNCHANGED <<call, exit, silent, seen>>
  /\ UNCHANGED <<ran, receipt>>

Validate(which, release) ==
  call' = [NoCall EXCEPT !.proc = "validator", !.step = 1, !.want = release,
                         !.target = which, !.sel = places[which]]

ListTargets ==
  /\ stage = "list"
  /\ IF files["skills"] \in {"missing", "odd", "empty"} THEN Fails
     ELSE Validate("plugin_validator", call.sel) /\ stage' = "run_plugin"
          /\ UNCHANGED <<exit, places, silent, seen>>
  /\ UNCHANGED <<ran, receipt>>

PluginAccepted ==
  /\ stage = "run_plugin" /\ Returned("validator")
  /\ IF call.result # "accepted" THEN Fails
     ELSE /\ Validate("skill_validator", call.want)
          /\ stage' = "run_skill"
          /\ UNCHANGED <<exit, places, silent, seen>>
  /\ UNCHANGED <<ran, receipt>>

\* The last Skill: the script goes on to its last commands, which may fail.
SkillAccepted ==
  /\ stage = "run_skill" /\ Returned("validator")
  /\ IF call.result # "accepted" THEN Fails
     ELSE Ends(IF Flawed("later_fails") THEN 1 ELSE 0) /\ UNCHANGED <<call, places>>
  /\ UNCHANGED <<ran, receipt>>

-----------------------------------------------------------------------------
(* run_typed_command and infrastructure_unavailable *)

Emit(status) == receipt' = status /\ stage' = "done"

Classify ==
  /\ stage = "classify"
  /\ IF exit = 0 THEN Emit("PASS")
     ELSE IF exit = 2 THEN Emit("INCONCLUSIVE")
     ELSE stage' = "probe_dns" /\ UNCHANGED receipt
  /\ UNCHANGED <<call, ran, exit, places, silent, seen>>

\* Mutant of Probe: an unreachable service is passed over.
Probe_Silent(service, at, next) ==
  /\ stage = at
  /\ IF next = "none" THEN Emit("FAIL") ELSE stage' = next /\ UNCHANGED receipt
  /\ UNCHANGED <<call, ran, exit, places, silent, seen>>

\* The first probe that fails says INCONCLUSIVE.
Probe(service, at, next) ==
  /\ stage = at
  /\ IF service \in down THEN Emit("INCONCLUSIVE")
     ELSE IF next = "none" THEN Emit("FAIL")
     ELSE stage' = next /\ UNCHANGED receipt
  /\ UNCHANGED <<call, ran, exit, places, silent, seen>>

Typed ==
  \/ Canonical /\ UNCHANGED <<stage, exit, typed>>
  \/ StartCommand \/ LockLoaded
  \/ Resolve("plugin_validator", "skill_validator")
  \/ Resolve("skill_validator", "list")
  \/ ListTargets \/ PluginAccepted \/ SkillAccepted \/ Classify
  \/ Probe("dns", "probe_dns", "probe_daemon")
  \/ Probe("daemon", "probe_daemon", "probe_api")
  \/ Probe("api", "probe_api", "probe_cache")
  \/ Probe("cache", "probe_cache", "none")
=============================================================================
