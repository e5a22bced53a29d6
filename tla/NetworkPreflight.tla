-------------------------- MODULE NetworkPreflight --------------------------
(***************************************************************************)
(* _verify_network_sandbox of the bounded harness: before any candidate    *)
(* runs, a fixed probe under the candidate's profile must see every IP     *)
(* socket refused with EPERM, and a second one under the trusted profile   *)
(* must reach the loopback and nothing of the host, itself or through a    *)
(* grandchild.  The probe is a process of its own: it may say anything,    *)
(* die or hang at any point.                                               *)
(***************************************************************************)
EXTENDS SeccompFilter, FiniteSets

CONSTANTS
  Hosts \* [platform, machine, isolated, native6, flaws] execute() may meet

VARIABLES
  host,   \* the machine the harness runs on
  step,   \* what the coroutine does or awaits
  stage,  \* the local variable `stage`, a pair <<profile, detail>>
  probe,  \* the probe process started last: [state, said, code, loud]
  held,   \* descriptor, socket file and canary file that must not outlive it
  report  \* what the preflight ended with

vars == <<host, step, stage, probe, held, report>>

NetworkFaults == {"unavailable", "setup_failed", "bypass", "unsupported"}
NoReport == [kind |-> "none_yet", code |-> "none", stage |-> <<>>]
NoProbe == [state |-> "none", said |-> "", code |-> "none", loud |-> FALSE]

Flawed(who, what) == <<who, what>> \in host.flaws
Trusted == stage[1] = "trusted" \* _spawn's allow_loopback

Init ==
  /\ host \in Hosts
  /\ step = "select"
  /\ stage = <<"sandbox", "select">>
  /\ probe = NoProbe
  /\ held = {}
  /\ report = NoReport

\* The preflight ends; the ExitStack and _spawn's finally release what is held,
\* unless the stack has been unwound before.
End(kind, code, at) ==
  /\ step' = "done"
  /\ report' = [kind |-> kind, code |-> code, stage |-> at]
  /\ held' = IF step = "unwound" THEN held ELSE {}

\* A fault leaves with the stage it names, or with the current one; the code
\* for a refused kill is not a network fault and gets none.
Raise(code, at) ==
  End("fault", code, IF code \in NetworkFaults THEN at ELSE <<>>)

\* _startup_stage: the start stages are refined by what was observed.
StartupStage(reason) == <<stage[1], reason>>

-----------------------------------------------------------------------------
(* The sandbox *)

\* A socket file of an earlier run is unlinked, outside the try; then
\* _network_sandbox with _trusted_executable.  Without an identity to isolate
\* there is nothing to prove.
Select ==
  /\ step = "select"
  /\ IF Flawed("host", "unlink_refused")
     THEN End("untyped", "none", <<>>) /\ UNCHANGED stage
     ELSE IF ~host.isolated THEN End("unisolated", "none", <<>>) /\ UNCHANGED stage
     ELSE IF host.platform \notin {"linux", "darwin"}
     THEN Raise("unsupported", stage) /\ UNCHANGED stage
     ELSE IF Flawed("host", "launcher_untrusted")
     THEN Raise("unavailable", stage) /\ UNCHANGED stage
     ELSE /\ step' = "canaries"
          /\ stage' = <<"host", "canaries">>
          /\ UNCHANGED <<held, report>>
  /\ UNCHANGED <<host, probe>>

\* The host's own listeners must be reachable from outside any sandbox.
Canaries ==
  /\ step = "canaries"
  /\ \/ /\ Flawed("host", "no_route")
        /\ Raise("setup_failed", stage)
        /\ UNCHANGED stage
     \/ /\ host.native6 = "error"
        /\ Raise("setup_failed", stage)
        /\ UNCHANGED stage
     \/ /\ Flawed("host", "canary_unreachable")
        /\ Raise("unsupported", stage)
        /\ UNCHANGED stage
     \/ /\ ~Flawed("host", "no_route") /\ ~Flawed("host", "canary_unreachable")
        /\ host.native6 # "error"
        /\ held' = {"unix_socket"}
        /\ step' = "spawn"
        /\ stage' = <<"candidate", "start">>
        /\ UNCHANGED report
  /\ UNCHANGED <<host, probe>>

\* _linux_seccomp_fd: the filter of this machine through a pipe.
Filter(loopback) == Program(Abis[host.machine], loopback)

\* _spawn up to create_subprocess_exec.
Spawn ==
  /\ step = "spawn"
  /\ \/ /\ host.platform = "linux" /\ host.machine \notin DOMAIN Abis
        /\ Raise("unsupported", stage)
        /\ UNCHANGED probe
     \/ /\ host.platform = "linux" /\ Flawed("host", "launcher_replaced")
        /\ Raise("unavailable", stage)
        /\ UNCHANGED probe
     \/ /\ host.platform = "darwin" \/ host.machine \in DOMAIN Abis
        /\ \E failure \in {stage, StartupStage("create")} :
             Raise("setup_failed", failure)
        /\ UNCHANGED probe
     \/ /\ host.platform = "darwin" \/ host.machine \in DOMAIN Abis
        /\ probe' = [NoProbe EXCEPT !.state = "starting"]
        /\ held' = IF host.platform = "linux" THEN held \cup {"filter_fd"} ELSE held
        /\ step' = "ready"
        /\ UNCHANGED report
  /\ UNCHANGED <<host, stage>>

-----------------------------------------------------------------------------
(* The probe *)

ProbeStep(change) == change /\ UNCHANGED <<host, step, stage, report>>

\* The launcher prints before the probe runs: one full line, a line it never
\* ends, an empty line, or Bubblewrap's loopback failure.
LauncherSpeaks ==
  /\ probe.state = "starting" /\ probe.said = ""
  /\ \E said \in {"line", "partial", "newline", "rtnetlink"} :
       probe' = [probe EXCEPT !.said = said]
  /\ UNCHANGED held

\* _drop_candidate_identity or _fixed_probe_arguments, then the ready byte: the
\* credentials were read back.
ProbeReady ==
  /\ probe.state = "starting" /\ ~Flawed("host", "identity_kept")
  /\ probe' = [probe EXCEPT !.state = "proving",
                 !.said = IF probe.said = "" THEN "ready" ELSE probe.said]
  /\ UNCHANGED held

ProbeRefuses ==
  /\ probe.state = "starting"
  /\ probe' = [probe EXCEPT !.state = "ended", !.code = "setup"]
  /\ UNCHANGED held

\* The probe is killed by the kernel or prints more than it may.
ProbeCrashes ==
  /\ probe.state \in {"proving", "written"}
  /\ \E loud \in BOOLEAN :
       probe' = [probe EXCEPT !.state = "ended", !.code = "other",
                              !.loud = loud]
  /\ UNCHANGED held

\* What becomes of one socket of the policy probe: the host's flaw, or what the
\* policy does, which is the filter's verdict when the socket is created
\* (Linux) or the profile's when it is used (macOS).
Attempts == <<"inet_stream", "inet_dgram", "inet6_stream", "inet6_dgram">>
Family == [inet_stream |-> AF_INET, inet_dgram |-> AF_INET,
           inet6_stream |-> AF_INET6, inet6_dgram |-> AF_INET6]

Domain(family) ==
  [arch |-> Abis[host.machine].arch, nr |-> Abis[host.machine].socket,
   arg0 |-> family]

Outcome(attempt) ==
  IF \E how \in {"create_error", "used", "use_error"} :
       Flawed(attempt, how)
  THEN CHOOSE how \in {"create_error", "used", "use_error"} :
         Flawed(attempt, how)
  ELSE IF host.platform = "linux" /\
          Verdict(Filter(FALSE), Domain(Family[attempt])) # "EPERM"
  THEN "used"
  ELSE "EPERM"

ExitOf == [create_error |-> "socket_create", used |-> "bypass",
           use_error |-> "socket_operation"]

\* Mutant of PolicyExit: an error other than EPERM also counts as a refusal.
PolicyExit_AnyError ==
  IF \E k \in DOMAIN Attempts : Outcome(Attempts[k]) = "used"
  THEN "bypass" ELSE "zero"

\* _candidate_ip_policy_once: the first socket that is not refused decides.
PolicyExit ==
  LET odd == {k \in DOMAIN Attempts : Outcome(Attempts[k]) # "EPERM"} IN
  IF odd = {} THEN "zero"
  ELSE ExitOf[Outcome(Attempts[CHOOSE k \in odd : \A j \in odd : k <= j])]

\* _native_ipv6_listener gives a further target only where the host has a route.
Targets == {"tcp", "mapped", "udp", "unix"} \cup
           (IF host.native6 = "present" THEN {"native"} ELSE {})

\* _socket_domain_filter_enforced: another socket domain is refused with EPERM.
DomainFiltered ==
  /\ ~Flawed("host", "no_vsock")
  /\ Verdict(Filter(TRUE), Domain(AF_VSOCK)) = "EPERM"

\* _egress_blocked, by the probe or its grandchild: no target answers and, on
\* Linux, the filter refuses another socket domain.
Blocked(who) ==
  /\ host.platform = "linux" => DomainFiltered
  /\ \A target \in Targets : ~Flawed(who, target)

\* _network_probe: the canary file, the loopback, then egress.
NetworkExit ==
  IF Flawed("host", "no_write") \/ Flawed("host", "no_loopback") THEN "setup"
  ELSE IF Blocked("probe") /\ Blocked("grandchild") THEN "zero" ELSE "bypass"

WritesCanary == Trusted /\ ~Flawed("host", "no_write")

\* The network probe writes its canary once, before it tries the network.
ProbeWrites ==
  /\ probe.state = "proving" /\ WritesCanary
  /\ probe' = [probe EXCEPT !.state = "written"]
  /\ held' = held \cup {"write_canary"}

ProbeProves ==
  /\ probe.state = IF WritesCanary THEN "written" ELSE "proving"
  /\ probe' = [probe EXCEPT !.state = "ended",
                 !.code = IF Trusted THEN NetworkExit ELSE PolicyExit]
  /\ UNCHANGED held

Probe ==
  ProbeStep(LauncherSpeaks \/ ProbeReady \/ ProbeRefuses \/ ProbeCrashes
            \/ ProbeWrites \/ ProbeProves)

-----------------------------------------------------------------------------
(* The harness watches the probe *)

Running == probe.state \in {"starting", "proving", "written"}

\* _kill and wait before the fault leaves; a refused kill replaces the fault.  A
\* probe that has ended may be killed too, its return code being unknown still.
KillThen(ending) ==
  \/ ~Running /\ ending /\ UNCHANGED probe
  \/ Running /\ ending /\ probe' = [probe EXCEPT !.state = "killed"]
  \/ Flawed("host", "kill_refused") /\ Raise("containment", <<>>)
     /\ UNCHANGED probe

StartFault(reason) ==
  /\ KillThen(Raise("setup_failed", StartupStage(reason)))
  /\ UNCHANGED <<host, stage>>

\* One byte within two seconds.
AwaitReady ==
  /\ step = "ready"
  /\ probe.said = "ready"
  /\ step' = "result"
  /\ stage' = <<stage[1], "result">>
  /\ held' = held \ {"filter_fd"}
  /\ UNCHANGED <<host, probe, report>>

\* The timer may win although the byte or the end is about to be read.
ReadyTimeout == step = "ready" /\ StartFault("ready-timeout")

ReadyEnds ==
  /\ step = "ready"
  /\ probe.said = "" /\ ~Running
  /\ StartFault("ready-eof")

\* Mutant of Observation: Bubblewrap's words are believed on every platform.
Observation_AnyPlatform ==
  IF probe.said = "rtnetlink"
  THEN "loopback-rtnetlink-eperm" ELSE "ready-output"

\* _startup_observation of the rest of the line, within a quarter of a second.
Observation ==
  IF host.platform = "linux" /\ probe.said = "rtnetlink"
  THEN "loopback-rtnetlink-eperm" ELSE "ready-output"

ReadyOutput ==
  /\ step = "ready"
  /\ probe.said \in {"line", "partial", "newline", "rtnetlink"}
  /\ StartFault(Observation)

\* Mutant of ResultTimeout: communicate() without a time limit.
ResultTimeout_None ==
  /\ step = "result" /\ ~Running
  /\ step' = "unwound"
  /\ held' = {}
  /\ UNCHANGED <<host, stage, probe, report>>

\* communicate() takes more than five seconds: the TimeoutError unwinds the
\* ExitStack, which closes and unlinks everything, while the probe runs on.
ResultTimeout ==
  /\ step = "result"
  /\ step' = "unwound"
  /\ held' = {}
  /\ UNCHANGED <<host, stage, probe, report>>

\* Mutant of KillTimedOut: the handler does not kill the probe.
KillTimedOut_None ==
  /\ step = "unwound"
  /\ Raise("setup_failed", stage)
  /\ UNCHANGED <<host, stage, probe>>

\* Only then the outer handler kills it; nothing is unlinked again.
KillTimedOut ==
  /\ step = "unwound"
  /\ KillThen(Raise("setup_failed", stage))
  /\ UNCHANGED <<host, stage>>

PolicyStage ==
  CASE probe.code = "socket_create" -> <<"candidate", "socket-create">>
    [] probe.code = "socket_operation" -> <<"candidate", "socket-operation">>
    [] OTHER -> <<"candidate", "process-exit">>

CandidateResult ==
  /\ step = "result" /\ ~Trusted /\ ~Running
  /\ IF probe.loud THEN Raise("setup_failed", stage) /\ UNCHANGED stage
     ELSE IF probe.code = "bypass" THEN Raise("bypass", stage) /\ UNCHANGED stage
     ELSE IF probe.code # "zero"
     THEN Raise("unsupported", PolicyStage) /\ UNCHANGED stage
     ELSE /\ step' = "spawn"
          /\ stage' = <<"trusted", "start">>
          /\ UNCHANGED <<held, report>>
  /\ UNCHANGED <<host, probe>>

TrustedResult ==
  /\ step = "result" /\ Trusted /\ ~Running
  /\ IF probe.loud \/ "write_canary" \notin held THEN Raise("setup_failed", stage)
     ELSE IF probe.code = "bypass" THEN Raise("bypass", stage)
     ELSE IF probe.code # "zero" THEN Raise("setup_failed", stage)
     ELSE End("sandbox", "none", <<>>)
  /\ UNCHANGED <<host, stage, probe>>

\* A SIGINT cancels the task at an await: _spawn kills the probe first, and so
\* has the handler of the timeout when it awaits the end; communicate() does not.
Cancel ==
  /\ \/ step \in {"ready", "unwound"} /\ KillThen(End("cancelled", "none", stage))
     \/ step = "result" /\ End("cancelled", "none", stage) /\ UNCHANGED probe
  /\ UNCHANGED <<host, stage>>

Harness ==
  Select \/ Canaries \/ Spawn \/ AwaitReady \/ ReadyTimeout \/ ReadyEnds
  \/ ReadyOutput \/ ResultTimeout \/ KillTimedOut \/ CandidateResult \/ TrustedResult

Done == step = "done" /\ UNCHANGED vars

Next == Harness \/ Probe \/ Cancel \/ Done

\* The event loop runs the coroutine and its timers; the probe owes nothing.
Spec == Init /\ [][Next]_vars /\ WF_vars(Harness)

-----------------------------------------------------------------------------
(* Properties *)

\* The socket attempts of the candidate's profile that are not refused, and
\* what answers under the trusted one, told from the host alone.
Leaks ==
  host.flaws \cap
    (((DOMAIN Family) \X {"create_error", "used", "use_error"})
     \cup ({"probe", "grandchild"} \X Targets)
     \cup (IF host.platform = "linux" THEN {<<"host", "no_vsock">>} ELSE {}))

\* execute() gets a sandbox only if the host's canaries were reachable without
\* it and, with it, nothing is: no socket of a candidate, no target of the
\* probe or of its grandchild; and the probe ran without root's identity.
SandboxProved ==
  report.kind = "sandbox" =>
    /\ host.isolated
    /\ Leaks = {}
    /\ \A what \in {"no_route", "canary_unreachable", "identity_kept",
                    "launcher_untrusted", "no_loopback", "no_write"} :
         ~Flawed("host", what)

\* A network fault always names a stage, and the stage is where the preflight
\* really stood: the trusted stages only once the candidate's profile was
\* proved, a bypass only where something leaked, what the launcher said only
\* if it said so.
FaultLocated ==
  report.kind = "fault" =>
    /\ (report.stage = <<>>) <=> (report.code = "containment")
    /\ report.stage # <<>> => report.stage[1] = stage[1]
    /\ Trusted => PolicyExit = "zero"
    /\ report.code = "bypass" =>
         /\ report.stage = <<stage[1], "result">>
         /\ Leaks # {}
    /\ report.code = "unsupported" => probe.code # "bypass"
    /\ report.stage # <<>> /\ report.stage[2] = "loopback-rtnetlink-eperm" =>
         probe.said = "rtnetlink" /\ host.platform = "linux"

\* When the preflight ends no probe runs on, and its descriptor, socket and
\* canary file are gone; but a probe whose result is late may write its canary
\* between the unlinking and the kill, and one whose kill is refused, or whose
\* result was awaited when a SIGINT came, is left running.
NothingLeft ==
  [][step # "done" /\ step' = "done" =>
       \/ ~Running' /\ held' = {}
       \/ ~Running' /\ held' \subseteq {"write_canary"} /\ step = "unwound" /\ Trusted
       \/ /\ Running'
          /\ \/ report'.code = "containment"
             \/ report'.kind = "cancelled" /\ step = "result"]_vars

\* What the coroutine may rely on at each step: no probe runs before it starts
\* one, the canaries answered, the candidate's profile was proved before the
\* trusted one is tried, and a probe that exits with zero had dropped root and
\* proved its profile.
Reachable ==
  /\ host.isolated
  /\ \A what \in {"launcher_untrusted", "no_route", "canary_unreachable"} :
       ~Flawed("host", what)

IsProbe == probe = [state |-> probe.state, said |-> probe.said,
                    code |-> probe.code, loud |-> probe.loud]

IInv ==
  /\ host \in Hosts /\ IsProbe
  /\ step \in {"select", "canaries", "spawn"} => ~Running
  /\ step \in {"result", "unwound"} => stage[2] = "result"
  /\ step = "unwound" => held \subseteq (IF Trusted THEN {"write_canary"} ELSE {})
  /\ step = "canaries" => host.isolated /\ ~Flawed("host", "launcher_untrusted")
  /\ step \in {"spawn", "ready", "result", "unwound"} => Reachable
  /\ Trusted => PolicyExit = "zero"
  /\ probe.state \in {"proving", "written"} => ~Flawed("host", "identity_kept")
  /\ step \in {"ready", "result"} /\ probe.code = "zero" =>
       /\ ~Flawed("host", "identity_kept")
       /\ (IF Trusted THEN NetworkExit ELSE PolicyExit) = "zero"
  /\ report.kind = "sandbox" =>
       /\ Reachable /\ ~Flawed("host", "identity_kept")
       /\ PolicyExit = "zero" /\ NetworkExit = "zero"

\* Numbers around every test of the filter.
Calls ==
  [arch : {62, 183, 40},
   nr : {0, 1, 41, 53, 56, 97, 198, 199, 220, 268, 272, 308, IoUringSetup,
         Clone3, X32Bit + 1, X32Bit + 41},
   arg0 : {0, AF_UNIX, AF_INET, AF_INET6, 17, AF_VSOCK, CloneNewUser,
           CloneNewUser + 17}]

\* On every machine the filter runs on, either profile's program answers each
\* system call as the contract in front of it says, with one departure, which is
\* none of what a candidate may do: an x32 call, which the contract kills, is
\* refused with EPERM and the process goes on.
FilterExact ==
  step = "ready" /\ host.platform = "linux" =>
    \A call \in Calls :
      LET verdict == Verdict(Filter(Trusted), call)
          abi == Abis[host.machine] IN
      IF Departs(abi, call) THEN verdict = "EPERM"
      ELSE verdict = Contract(abi, Trusted, call)

\* The preflight ends, whatever the probe does.
PreflightEnds == <>(step = "done")
=============================================================================
