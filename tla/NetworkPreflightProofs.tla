----------------------- MODULE NetworkPreflightProofs -----------------------
(***************************************************************************)
(* Safety of the network preflight on any hosts, with any flaws at once;   *)
(* the filter's program, instruction by instruction, against its policy;   *)
(* and where a fault is located.                                           *)
(***************************************************************************)
EXTENDS NetworkPreflight, WellFoundedInduction, TLAPS

LEMMA Starts == Init => IInv
  <1> SUFFICES ASSUME Init PROVE IInv
    OBVIOUS
  <1>1. /\ host \in Hosts /\ step = "select" /\ stage = <<"sandbox", "select">>
        /\ probe.state = "none" /\ IsProbe /\ report.kind = "none_yet"
    BY DEF Init, NoProbe, NoReport, IsProbe
  <1>2. ~Trusted /\ ~Running
    BY <1>1 DEF Trusted, Running
  <1> QED
    BY <1>1, <1>2 DEF IInv

\* What a step that leaves the host and the probe alone needs.
LEMMA HostFixed ==
  ASSUME host' = host
  PROVE  /\ PolicyExit' = PolicyExit /\ NetworkExit' = NetworkExit
         /\ Reachable' = Reachable
         /\ \A who, what : Flawed(who, what)' = Flawed(who, what)
  <1>1. Targets' = Targets
    BY DEF Targets
  <1>2. \A attempt : Outcome(attempt)' = Outcome(attempt)
    BY DEF Outcome, Flawed, Filter, Domain
  <1>3. PolicyExit' = PolicyExit
    BY <1>2 DEF PolicyExit, Outcome, Flawed, Filter, Domain
  <1>4. NetworkExit' = NetworkExit
    BY <1>1 DEF NetworkExit, Flawed, Blocked, DomainFiltered, Filter, Domain, Targets
  <1>5. Reachable' = Reachable
    BY DEF Reachable, Flawed
  <1> QED
    BY <1>3, <1>4, <1>5 DEF Flawed
\* An end with a fault, of a probe that runs no more.
LEMMA Ended ==
  ASSUME IInv, NEW kind, NEW code, NEW at, End(kind, code, at),
         ~Running, UNCHANGED <<host, probe>>, stage' = stage,
         kind # "sandbox"
  PROVE  IInv'
  <1>1. /\ step' = "done" /\ report'.kind # "sandbox"
        /\ host' = host /\ probe' = probe
    BY DEF End
  <1>2. Running' = Running /\ Trusted' = Trusted /\ IsProbe' = IsProbe
    BY <1>1 DEF Running, Trusted, IsProbe
  <1> QED
    BY <1>1, <1>2, HostFixed DEF IInv

LEMMA SelectKeeps == IInv /\ Select => IInv'
  <1> SUFFICES ASSUME IInv, Select PROVE IInv'
    OBVIOUS
  <1>1. step = "select" /\ UNCHANGED <<host, probe>> /\ ~Running
    BY DEF Select, IInv
  <1>2. CASE step' = "done"
    BY <1>1, <1>2, Ended DEF Select, Raise
  <1>3. CASE step' # "done"
    <2>1. /\ step' = "canaries" /\ stage' = <<"host", "canaries">>
          /\ UNCHANGED <<held, report>>
          /\ host.isolated /\ ~Flawed("host", "launcher_untrusted")
      BY <1>3 DEF Select, Raise, End
    <2>2. Running' = Running /\ ~Trusted' /\ IsProbe' = IsProbe
      BY <1>1, <2>1 DEF Running, Trusted, IsProbe
    <2> QED
      BY <1>1, <2>1, <2>2, HostFixed DEF IInv
  <1> QED
    BY <1>2, <1>3

LEMMA CanariesKeeps == IInv /\ Canaries => IInv'
  <1> SUFFICES ASSUME IInv, Canaries PROVE IInv'
    OBVIOUS
  <1>1. step = "canaries" /\ UNCHANGED <<host, probe>> /\ ~Running
    BY DEF Canaries, IInv
  <1>2. CASE step' = "done"
    BY <1>1, <1>2, Ended DEF Canaries, Raise
  <1>3. CASE step' # "done"
    <2>1. /\ step' = "spawn" /\ stage' = <<"candidate", "start">>
          /\ UNCHANGED report
          /\ ~Flawed("host", "no_route") /\ ~Flawed("host", "canary_unreachable")
      BY <1>3 DEF Canaries, Raise, End
    <2>2. Running' = Running /\ ~Trusted' /\ IsProbe' = IsProbe
      BY <1>1, <2>1 DEF Running, Trusted, IsProbe
    <2>3. Reachable
      BY <1>1, <2>1 DEF IInv, Reachable
    <2> QED
      BY <1>1, <2>1, <2>2, <2>3, HostFixed DEF IInv
  <1> QED
    BY <1>2, <1>3

LEMMA SpawnKeeps == IInv /\ Spawn => IInv'
  <1> SUFFICES ASSUME IInv, Spawn PROVE IInv'
    OBVIOUS
  <1>1. step = "spawn" /\ UNCHANGED <<host, stage>> /\ ~Running
    BY DEF Spawn, IInv
  <1>2. CASE step' = "done"
    <2>1. UNCHANGED probe /\ \E code, at : Raise(code, at)
      BY <1>2 DEF Spawn
    <2> QED
      BY <1>1, <2>1, Ended DEF Raise
  <1>3. CASE step' # "done"
    <2>1. /\ probe' = [NoProbe EXCEPT !.state = "starting"]
          /\ step' = "ready" /\ UNCHANGED report
      BY <1>3 DEF Spawn, Raise, End
    <2>2. /\ probe'.state = "starting" /\ probe'.code = "none" /\ IsProbe'
          /\ Trusted' = Trusted
      BY <1>1, <2>1 DEF NoProbe, Trusted, IsProbe
    <2> QED
      BY <1>1, <2>1, <2>2, HostFixed DEF IInv
  <1> QED
    BY <1>2, <1>3

-----------------------------------------------------------------------------
(* The probe *)

LEMMA ProbeKeeps == IInv /\ Probe => IInv'
  <1> SUFFICES ASSUME IInv, Probe PROVE IInv'
    OBVIOUS
  <1>1. UNCHANGED <<host, step, stage, report>> /\ Trusted' = Trusted
    BY DEF Probe, ProbeStep, Trusted
  <1>2. Running /\ step \notin {"select", "canaries", "spawn"}
    BY DEF Probe, ProbeStep, LauncherSpeaks, ProbeReady, ProbeRefuses, ProbeCrashes,
           ProbeWrites, ProbeProves, Running, IInv
  <1>3. held' \subseteq held \cup (IF Trusted THEN {"write_canary"} ELSE {})
    BY DEF Probe, ProbeStep, LauncherSpeaks, ProbeReady, ProbeRefuses, ProbeCrashes,
           ProbeWrites, ProbeProves, WritesCanary
  <1>4. step' = "unwound" => held' \subseteq (IF Trusted' THEN {"write_canary"} ELSE {})
    BY <1>1, <1>3 DEF IInv
  <1>5. IsProbe
    BY DEF IInv
  <1>6. CASE LauncherSpeaks
    <2>1. PICK said : probe' = [probe EXCEPT !.said = said]
      BY <1>6 DEF LauncherSpeaks
    <2>2. IsProbe' /\ probe'.state = probe.state /\ probe'.code = probe.code
      BY <1>5, <2>1 DEF IsProbe
    <2> QED
      BY <1>1, <1>2, <1>4, <2>2, HostFixed DEF IInv
  <1>7. CASE ProbeReady
    <2>1. /\ IsProbe' /\ probe'.code = probe.code
          /\ ~Flawed("host", "identity_kept")
      BY <1>5, <1>7 DEF ProbeReady, IsProbe
    <2> QED
      BY <1>1, <1>2, <1>4, <2>1, HostFixed DEF IInv
  <1>8. CASE ProbeRefuses
    <2>1. IsProbe' /\ probe'.state = "ended" /\ probe'.code = "setup"
      BY <1>5, <1>8 DEF ProbeRefuses, IsProbe
    <2> QED
      BY <1>1, <1>2, <1>4, <2>1, HostFixed DEF IInv
  <1>9. CASE ProbeCrashes
    <2>1. IsProbe' /\ probe'.state = "ended" /\ probe'.code = "other"
      BY <1>5, <1>9 DEF ProbeCrashes, IsProbe
    <2> QED
      BY <1>1, <1>2, <1>4, <2>1, HostFixed DEF IInv
  <1>11. CASE ProbeWrites
    <2>1. IsProbe' /\ probe.state = "proving" /\ probe'.code = probe.code
      BY <1>5, <1>11 DEF ProbeWrites, IsProbe
    <2> QED
      BY <1>1, <1>2, <1>4, <2>1, HostFixed DEF IInv
  <1>10. CASE ProbeProves
    <2>1. /\ IsProbe' /\ probe'.state = "ended" /\ probe.state \in {"proving", "written"}
          /\ probe'.code = IF Trusted THEN NetworkExit ELSE PolicyExit
      BY <1>5, <1>10 DEF ProbeProves, IsProbe
    <2> QED
      BY <1>1, <1>2, <1>4, <2>1, HostFixed DEF IInv
  <1> QED
    BY <1>6, <1>7, <1>8, <1>9, <1>10, <1>11 DEF Probe, ProbeStep

-----------------------------------------------------------------------------
(* The harness watches the probe *)

\* A fault while the probe is watched: it is killed, unless that is refused.
LEMMA KilledThen ==
  ASSUME IInv, NEW kind, NEW code, NEW at, KillThen(End(kind, code, at)),
         UNCHANGED <<host, stage>>, kind # "sandbox"
  PROVE  IInv'
  <1>1. CASE ~Running /\ End(kind, code, at) /\ UNCHANGED probe
    BY <1>1, Ended
  <1>2. CASE Running /\ probe' = [probe EXCEPT !.state = "killed"] /\ End(kind, code, at)
    <2>1. IsProbe' /\ probe'.state = "killed" /\ probe'.code = probe.code
      BY <1>2 DEF IInv, IsProbe
    <2>2. step' = "done" /\ report'.kind # "sandbox"
      BY <1>2 DEF End
    <2>3. ~Running' /\ Trusted' = Trusted
      BY <2>1 DEF Running, Trusted
    <2> QED
      BY <2>1, <2>2, <2>3, HostFixed DEF IInv
  <1>3. CASE Raise("containment", <<>>) /\ UNCHANGED probe
    <2>1. step' = "done" /\ report'.kind = "fault"
      BY <1>3 DEF Raise, End
    <2>2. Running' = Running /\ Trusted' = Trusted /\ IsProbe' = IsProbe
      BY <1>3 DEF Running, Trusted, IsProbe
    <2> QED
      BY <1>3, <2>1, <2>2, HostFixed DEF IInv
  <1> QED
    BY <1>1, <1>2, <1>3 DEF KillThen

LEMMA AwaitReadyKeeps == IInv /\ AwaitReady => IInv'
  <1> SUFFICES ASSUME IInv, AwaitReady PROVE IInv'
    OBVIOUS
  <1>1. /\ step = "ready" /\ step' = "result" /\ stage' = <<stage[1], "result">>
        /\ UNCHANGED <<host, probe, report>>
    BY DEF AwaitReady
  <1>2. /\ Running' = Running /\ Trusted' = Trusted /\ IsProbe' = IsProbe
        /\ stage'[2] = "result"
    BY <1>1 DEF Running, Trusted, IsProbe
  <1> QED
    BY <1>1, <1>2, HostFixed DEF IInv

LEMMA ResultTimeoutKeeps == IInv /\ ResultTimeout => IInv'
  <1> SUFFICES ASSUME IInv, ResultTimeout PROVE IInv'
    OBVIOUS
  <1>1. /\ step = "result" /\ step' = "unwound" /\ held' = {}
        /\ UNCHANGED <<host, stage, probe, report>>
    BY DEF ResultTimeout
  <1>2. Running' = Running /\ Trusted' = Trusted /\ IsProbe' = IsProbe
    BY <1>1 DEF Running, Trusted, IsProbe
  <1> QED
    BY <1>1, <1>2, HostFixed DEF IInv

LEMMA FaultKeeps ==
  IInv /\ (ReadyTimeout \/ ReadyEnds \/ ReadyOutput \/ KillTimedOut) => IInv'
  <1> SUFFICES ASSUME IInv, ReadyTimeout \/ ReadyEnds \/ ReadyOutput \/ KillTimedOut
               PROVE  IInv'
    OBVIOUS
  <1>1. \E code, at : KillThen(Raise(code, at)) /\ UNCHANGED <<host, stage>>
    BY DEF ReadyTimeout, ReadyEnds, ReadyOutput, KillTimedOut, StartFault
  <1> QED
    BY <1>1, KilledThen DEF Raise

LEMMA CandidateResultKeeps == IInv /\ CandidateResult => IInv'
  <1> SUFFICES ASSUME IInv, CandidateResult PROVE IInv'
    OBVIOUS
  <1>1. step = "result" /\ ~Trusted /\ ~Running /\ UNCHANGED <<host, probe>>
    BY DEF CandidateResult
  <1>2. CASE step' = "done"
    <2>1. stage' = stage /\ \E code, at : Raise(code, at)
      BY <1>2 DEF CandidateResult
    <2> QED
      BY <1>1, <2>1, Ended DEF Raise
  <1>3. CASE step' # "done"
    <2>1. /\ step' = "spawn" /\ stage' = <<"trusted", "start">>
          /\ UNCHANGED report /\ probe.code = "zero"
      BY <1>3 DEF CandidateResult, Raise, End
    <2>2. Running' = Running /\ IsProbe' = IsProbe
      BY <1>1 DEF Running, IsProbe
    <2>3. PolicyExit = "zero"
      BY <1>1, <2>1 DEF IInv
    <2> QED
      BY <1>1, <2>1, <2>2, <2>3, HostFixed DEF IInv
  <1> QED
    BY <1>2, <1>3

LEMMA TrustedResultKeeps == IInv /\ TrustedResult => IInv'
  <1> SUFFICES ASSUME IInv, TrustedResult PROVE IInv'
    OBVIOUS
  <1>1. step = "result" /\ Trusted /\ ~Running /\ UNCHANGED <<host, stage, probe>>
    BY DEF TrustedResult
  <1>2. CASE \E code, at : Raise(code, at)
    BY <1>1, <1>2, Ended DEF Raise
  <1>3. CASE End("sandbox", "none", <<>>) /\ probe.code = "zero"
    <2>1. step' = "done" /\ report'.kind = "sandbox"
      BY <1>3 DEF End
    <2>2. Running' = Running /\ Trusted' = Trusted /\ IsProbe' = IsProbe
      BY <1>1 DEF Running, Trusted, IsProbe
    <2>3. /\ Reachable /\ ~Flawed("host", "identity_kept")
          /\ PolicyExit = "zero" /\ NetworkExit = "zero"
      BY <1>1, <1>3 DEF IInv
    <2> QED
      BY <1>1, <2>1, <2>2, <2>3, HostFixed DEF IInv
  <1> QED
    BY <1>2, <1>3 DEF TrustedResult

LEMMA CancelKeeps == IInv /\ Cancel => IInv'
  <1> SUFFICES ASSUME IInv, Cancel PROVE IInv'
    OBVIOUS
  <1>1. CASE step \in {"ready", "unwound"} /\ KillThen(End("cancelled", "none", stage))
    BY <1>1, KilledThen DEF Cancel
  <1>2. CASE step = "result" /\ End("cancelled", "none", stage) /\ UNCHANGED probe
    <2>1. /\ step' = "done" /\ report'.kind = "cancelled"
          /\ UNCHANGED <<host, stage>>
      BY <1>2 DEF Cancel, End
    <2>2. Running' = Running /\ Trusted' = Trusted /\ IsProbe' = IsProbe
      BY <1>2, <2>1 DEF Running, Trusted, IsProbe
    <2> QED
      BY <1>2, <2>1, <2>2, HostFixed DEF IInv
  <1> QED
    BY <1>1, <1>2 DEF Cancel

LEMMA StutterKeeps == IInv /\ UNCHANGED vars => IInv'
  BY HostFixed DEF vars, IInv, IsProbe, Running, Trusted

\* No step of the harness or of the probe disturbs what the stages established.
THEOREM Steps == IInv /\ [Next]_vars => IInv'
  BY SelectKeeps, CanariesKeeps, SpawnKeeps, AwaitReadyKeeps, ResultTimeoutKeeps,
     FaultKeeps, CandidateResultKeeps, TrustedResultKeeps, ProbeKeeps, CancelKeeps,
     StutterKeeps
  DEF Next, Harness, Done

\* What each stage of the preflight has established, at every moment.
THEOREM Invariance == Spec => []IInv
  BY Starts, Steps, PTL DEF Spec

-----------------------------------------------------------------------------
(* What a sandbox means *)

\* The policy probe exits with zero only if no socket of it got through.
LEMMA PolicyZero ==
  ASSUME PolicyExit = "zero"
  PROVE  host.flaws \cap ((DOMAIN Family) \X {"create_error", "used", "use_error"}) = {}
  <1> DEFINE odd == {k \in 1..4 : Outcome(Attempts[k]) # "EPERM"}
             hows == {"create_error", "used", "use_error"}
  <1>1. DOMAIN Attempts = 1..4
    BY DEF Attempts
  <1>2. \A attempt : Outcome(attempt) \in hows \cup {"EPERM"}
    BY DEF Outcome
  <1>3. odd = {}
    <2>1. SUFFICES ASSUME odd # {} PROVE FALSE
      OBVIOUS
    <2>2. \E k \in odd : \A j \in odd : k <= j
      <3>1. \A k \in odd : k \in {1, 2, 3, 4}
        OBVIOUS
      <3> HIDE DEF odd
      <3> QED
        BY <2>1, <3>1
    <2> DEFINE first == CHOOSE k \in odd : \A j \in odd : k <= j
    <2>3. first \in odd
      BY <2>2
    <2>4. Outcome(Attempts[first]) \in hows
      BY <1>2, <2>3
    <2>5. PolicyExit = ExitOf[Outcome(Attempts[first])]
      BY <1>1, <2>1 DEF PolicyExit
    <2> HIDE DEF first
    <2> QED
      BY <2>4, <2>5 DEF ExitOf
  <1>4. \A attempt \in DOMAIN Family : Outcome(attempt) = "EPERM"
    <2>1. \A k \in {1, 2, 3, 4} : Outcome(Attempts[k]) = "EPERM"
      BY <1>3
    <2>2. /\ Attempts[1] = "inet_stream" /\ Attempts[2] = "inet_dgram"
          /\ Attempts[3] = "inet6_stream" /\ Attempts[4] = "inet6_dgram"
      BY DEF Attempts
    <2>3. DOMAIN Family = {"inet_stream", "inet_dgram", "inet6_stream", "inet6_dgram"}
      BY DEF Family
    <2> QED
      BY <2>1, <2>2, <2>3
  <1>5. \A attempt : (\E how \in hows : Flawed(attempt, how)) => Outcome(attempt) \in hows
    BY DEF Outcome
  <1>6. \A attempt \in DOMAIN Family, how \in hows : <<attempt, how>> \notin host.flaws
    BY <1>4, <1>5 DEF Flawed
  <1> SUFFICES ASSUME NEW flaw \in host.flaws, flaw \in (DOMAIN Family) \X hows
               PROVE  FALSE
    OBVIOUS
  <1>7. PICK attempt \in DOMAIN Family, how \in hows : flaw = <<attempt, how>>
    OBVIOUS
  <1> QED
    BY <1>6, <1>7

\* The network probe does only if nothing answers.
LEMMA NetworkZero ==
  ASSUME NetworkExit = "zero"
  PROVE  /\ host.flaws \cap ({"probe", "grandchild"} \X Targets) = {}
         /\ host.platform = "linux" => ~Flawed("host", "no_vsock")
         /\ ~Flawed("host", "no_write") /\ ~Flawed("host", "no_loopback")
  <1>1. /\ ~Flawed("host", "no_write") /\ ~Flawed("host", "no_loopback")
        /\ Blocked("probe") /\ Blocked("grandchild")
    BY DEF NetworkExit
  <1>2. \A who \in {"probe", "grandchild"}, target \in Targets :
          <<who, target>> \notin host.flaws
    BY <1>1 DEF Blocked, Flawed
  <1>3. host.flaws \cap ({"probe", "grandchild"} \X Targets) = {}
    BY <1>2
  <1>4. host.platform = "linux" => ~Flawed("host", "no_vsock")
    BY <1>1 DEF Blocked, DomainFiltered
  <1> QED
    BY <1>1, <1>3, <1>4

\* execute() gets a sandbox only where nothing leaks.
THEOREM SandboxSound == Spec => []SandboxProved
  <1>1. IInv => SandboxProved
    <2> SUFFICES ASSUME IInv, report.kind = "sandbox"
                 PROVE  /\ host.isolated
                        /\ Leaks = {}
                        /\ \A what \in {"no_route", "canary_unreachable", "identity_kept",
                                         "launcher_untrusted", "no_loopback", "no_write"} :
                             ~Flawed("host", what)
      BY DEF SandboxProved
    <2>1. /\ Reachable /\ ~Flawed("host", "identity_kept")
          /\ PolicyExit = "zero" /\ NetworkExit = "zero"
      BY DEF IInv
    <2>2. Leaks = {}
      <3>1. host.platform = "linux" => <<"host", "no_vsock">> \notin host.flaws
        BY <2>1, NetworkZero DEF Flawed
      <3> QED
        BY <2>1, <3>1, PolicyZero, NetworkZero DEF Leaks
    <2> QED
      BY <2>1, <2>2, NetworkZero DEF Reachable
  <1> QED
    BY <1>1, Invariance, PTL

\* A step that ends the preflight, told by what it leaves.
LeavesNothing ==
  \/ ~Running' /\ held' = {}
  \/ ~Running' /\ held' \subseteq {"write_canary"} /\ step = "unwound" /\ Trusted
  \/ /\ Running'
     /\ \/ report'.code = "containment"
        \/ report'.kind = "cancelled" /\ step = "result"

\* An end releases what is held, unless the ExitStack has been unwound.
LEMMA EndReleases ==
  ASSUME IInv, NEW kind, NEW code, NEW at, End(kind, code, at)
  PROVE  /\ \/ held' = {}
            \/ held' \subseteq {"write_canary"} /\ step = "unwound" /\ Trusted
         /\ report'.kind = kind /\ report'.code = code
  BY DEF End, IInv

LEMMA KillLeaves ==
  ASSUME IInv, NEW kind, NEW code, NEW at, KillThen(End(kind, code, at))
  PROVE  LeavesNothing
  <1>1. CASE End(kind, code, at) /\ ~Running'
    BY <1>1, EndReleases DEF LeavesNothing
  <1>2. CASE Raise("containment", <<>>)
    BY <1>2, EndReleases DEF LeavesNothing, Raise
  <1>3. /\ ~Running /\ UNCHANGED probe => ~Running'
        /\ Running /\ probe' = [probe EXCEPT !.state = "killed"] => ~Running'
    BY DEF Running, IInv, IsProbe
  <1> QED
    BY <1>1, <1>2, <1>3 DEF KillThen

\* An end that finds the probe ended or not yet started.
LEMMA QuietLeaves ==
  ASSUME IInv, NEW kind, NEW code, NEW at, End(kind, code, at), ~Running,
         UNCHANGED probe
  PROVE  LeavesNothing
  BY EndReleases DEF LeavesNothing, Running

\* Whatever the probe does, nothing of it is left behind, but for the canary of
\* a late one and for the probe nobody could or did kill.
THEOREM NothingOutlives == Spec => NothingLeft
  <1> DEFINE Left ==
        step # "done" /\ step' = "done" =>
          \/ ~Running' /\ held' = {}
          \/ ~Running' /\ held' \subseteq {"write_canary"} /\ step = "unwound" /\ Trusted
          \/ /\ Running'
             /\ \/ report'.code = "containment"
                \/ report'.kind = "cancelled" /\ step = "result"
  <1>1. IInv /\ [Next]_vars => [Left]_vars
    <2> SUFFICES ASSUME IInv, [Next]_vars, step # "done", step' = "done"
                 PROVE  LeavesNothing
      BY DEF LeavesNothing
    <2>1. CASE Select \/ Canaries \/ Spawn
      <3>1. ~Running /\ UNCHANGED probe
        BY <2>1 DEF Select, Canaries, Spawn, IInv
      <3>2. \E kind, code, at : End(kind, code, at)
        BY <2>1 DEF Select, Canaries, Spawn, Raise
      <3> QED
        BY <3>1, <3>2, QuietLeaves
    <2>2. CASE ReadyTimeout \/ ReadyEnds \/ ReadyOutput \/ KillTimedOut
      <3>1. \E kind, code, at : KillThen(End(kind, code, at))
        BY <2>2 DEF ReadyTimeout, ReadyEnds, ReadyOutput, KillTimedOut, StartFault, Raise
      <3> QED
        BY <3>1, KillLeaves
    <2>3. CASE CandidateResult \/ TrustedResult
      <3>1. ~Running /\ UNCHANGED probe
        BY <2>3 DEF CandidateResult, TrustedResult
      <3>2. \E kind, code, at : End(kind, code, at)
        BY <2>3 DEF CandidateResult, TrustedResult, Raise
      <3> QED
        BY <3>1, <3>2, QuietLeaves
    <2>4. CASE Cancel
      <3>1. CASE KillThen(End("cancelled", "none", stage))
        BY <3>1, KillLeaves
      <3>2. CASE step = "result" /\ End("cancelled", "none", stage)
        BY <3>2, EndReleases DEF LeavesNothing
      <3> QED
        BY <2>4, <3>1, <3>2 DEF Cancel
    <2>5. ~(AwaitReady \/ ResultTimeout \/ Probe \/ Done \/ UNCHANGED vars)
      BY DEF AwaitReady, ResultTimeout, Probe, ProbeStep, Done, vars
    <2> QED
      BY <2>1, <2>2, <2>3, <2>4, <2>5 DEF Next, Harness
  <1> QED
    BY <1>1, Invariance, PTL DEF Spec, NothingLeft

-----------------------------------------------------------------------------
(* The filter *)

\* Every instruction of a program hands on to a later one.
GoesOn(p, call, pc) ==
  \/ p[pc].op = "ret"
  \/ p[pc].op = "load" /\ pc + 1 \in DOMAIN p /\ p[pc].k \in DOMAIN call
  \/ /\ p[pc].op \notin {"load", "ret"}
     /\ p[pc].jt \in Nat /\ p[pc].jf \in Nat
     /\ pc + 1 + p[pc].jt \in DOMAIN p
     /\ pc + 1 + p[pc].jf \in DOMAIN p

Forward(p, call) == \A pc \in DOMAIN p : GoesOn(p, call, pc)

\* What an instruction answers depends on later ones only.
LEMMA AnswerLater ==
  ASSUME NEW p, NEW call, NEW N \in Nat, DOMAIN p = 1..N, Forward(p, call),
         NEW g, NEW h, NEW pc \in DOMAIN p,
         \A q \in DOMAIN p : q > pc => g[q] = h[q]
  PROVE  \A f : Answer(p, call, g, pc, f) = Answer(p, call, h, pc, f)
  <1> TAKE f
  <1>1. CASE p[pc].op = "ret"
    BY <1>1 DEF Answer
  <1>2. CASE p[pc].op = "load" /\ pc + 1 \in DOMAIN p
    <2>1. g[pc + 1] = h[pc + 1]
      BY <1>2
    <2> QED
      BY <1>2, <2>1 DEF Answer
  <1>3. CASE /\ p[pc].op \notin {"load", "ret"}
             /\ p[pc].jt \in Nat /\ p[pc].jf \in Nat
             /\ pc + 1 + p[pc].jt \in DOMAIN p
             /\ pc + 1 + p[pc].jf \in DOMAIN p
    <2>1. /\ g[pc + 1 + p[pc].jt] = h[pc + 1 + p[pc].jt]
          /\ g[pc + 1 + p[pc].jf] = h[pc + 1 + p[pc].jf]
      BY <1>3
    <2> QED
      BY <1>3, <2>1 DEF Answer
  <1> QED
    BY <1>1, <1>2, <1>3 DEF Forward, GoesOn

\* A function that gives every instruction's answers.
IsRun(p, call, g) ==
  g = [pc \in DOMAIN p |-> [f \in DOMAIN call |-> Answer(p, call, g, pc, f)]]

\* The interpreter of a program that only jumps forward is defined: a function
\* can be built from the last instruction back to the first.
LEMMA RunExists ==
  ASSUME NEW p, NEW call, NEW N \in Nat, DOMAIN p = 1..N, Forward(p, call)
  PROVE  \E g : IsRun(p, call, g)
  <1> DEFINE Row(g, pc) == [f \in DOMAIN call |-> Answer(p, call, g, pc, f)]
             Good(g, m) == /\ g = [pc \in DOMAIN p |-> g[pc]]
                           /\ \A pc \in DOMAIN p : pc > N - m => g[pc] = Row(g, pc)
             bad == {m \in Nat : m <= N /\ ~ \E g : Good(g, m)}
  <1>1. bad = {}
    <2> SUFFICES ASSUME bad # {} PROVE FALSE
      OBVIOUS
    <2> DEFINE R == OpToRel(<, Nat)
    <2>1. \A x, y \in Nat : x < y => <<x, y>> \in R
      BY DEF OpToRel
    <2>2. IsWellFoundedOn(R, Nat)
      BY NatLessThanWellFounded
    <2>3. bad \subseteq Nat
      OBVIOUS
    <2> HIDE DEF R, bad
    <2>4. PICK m \in bad : \A y \in bad : ~ (<<y, m>> \in R)
      BY <2>2, <2>3, WFMin, Zenon
    <2>5. m \in Nat /\ m <= N /\ ~ \E g : Good(g, m)
      BY <2>4 DEF bad
    <2>6. m # 0
      <3> DEFINE g == [pc \in DOMAIN p |-> 0]
      <3>1. g = [pc \in DOMAIN p |-> g[pc]]
        OBVIOUS
      <3>2. \A pc \in DOMAIN p : ~ (pc > N - 0)
        OBVIOUS
      <3> HIDE DEF g, Row
      <3>3. Good(g, 0)
        BY <3>1, <3>2
      <3> QED
        BY <2>5, <3>3
    <2> DEFINE k == m - 1
    <2>7. k \in Nat /\ k < m /\ k <= N
      BY <2>5, <2>6
    <2>8. k \notin bad
      BY <2>1, <2>4, <2>5, <2>7, Zenon
    <2>9. PICK g : Good(g, k)
      BY <2>7, <2>8 DEF bad
    <2> DEFINE at == N - k
               h == [g EXCEPT ![at] = Row(g, at)]
    <2>10. at \in DOMAIN p
      BY <2>5, <2>7
    <2>11. /\ h = [pc \in DOMAIN p |-> h[pc]]
           /\ h[at] = Row(g, at)
           /\ \A q \in DOMAIN p : q # at => h[q] = g[q]
      <3> HIDE DEF Row
      <3> QED
      BY <2>9, <2>10
    <2> HIDE DEF h
    <2>12. ASSUME NEW pc \in DOMAIN p, pc > N - m PROVE h[pc] = Row(h, pc)
      <3>1. pc >= at /\ \A q \in DOMAIN p : q > pc => g[q] = h[q]
        BY <2>5, <2>7, <2>11, <2>12
      <3>2. \A f : Answer(p, call, g, pc, f) = Answer(p, call, h, pc, f)
        BY <3>1, AnswerLater
      <3>3. Row(g, pc) = Row(h, pc)
        BY <3>2
      <3>4. CASE pc = at
        BY <2>11, <3>3, <3>4, Zenon
      <3>5. CASE pc # at
        <4>1. pc > N - k
          BY <3>1, <3>5, <2>7
        <4>2. g[pc] = Row(g, pc)
          BY <2>9, <4>1, Zenon
        <4> QED
          BY <2>11, <3>3, <3>5, <4>2, Zenon
      <3> QED
        BY <3>4, <3>5
    <2>13. Good(h, m)
      <3> HIDE DEF Row
      <3> QED
      BY <2>11, <2>12
    <2> QED
      BY <2>5, <2>13
  <1>2. PICK g : Good(g, N)
    BY <1>1
  <1>3. \A pc \in DOMAIN p : g[pc] = Row(g, pc)
    BY <1>2
  <1>4. g = [pc \in DOMAIN p |-> Row(g, pc)]
    <2> HIDE DEF Row
    <2> QED
    BY <1>2, <1>3, Zenon
  <1> QED
    BY <1>4 DEF IsRun

\* So the verdict is the first instruction's answer in a function that gives
\* every instruction's.
LEMMA VerdictRuns ==
  ASSUME NEW p, NEW call, NEW N \in Nat, DOMAIN p = 1..N, Forward(p, call)
  PROVE  \E g : /\ Verdict(p, call) = g[1]["arch"]
                /\ \A pc \in DOMAIN p, f \in DOMAIN call :
                     g[pc][f] = Answer(p, call, g, pc, f)
  <1> DEFINE run == CHOOSE g : IsRun(p, call, g)
  <1>1. IsRun(p, call, run)
    BY RunExists, Zenon
  <1>2. Verdict(p, call) = run[1]["arch"]
    BY DEF Verdict, IsRun
  <1> HIDE DEF run
  <1>3. \A pc \in DOMAIN p, f \in DOMAIN call : run[pc][f] = Answer(p, call, run, pc, f)
    BY <1>1 DEF IsRun
  <1> QED
    BY <1>2, <1>3

-----------------------------------------------------------------------------
(* The program's instructions *)

Instructions ==
  [op : {"equal", "any"}, k : Nat, jt : Nat, jf : Nat]
  \cup [op : {"load"}, k : {"arch", "nr", "arg0"}]
  \cup [op : {"ret"}, k : {"KILL", "EPERM", "ENOSYS", "ALLOW"}]

\* The two machines' numbers.
LEMMA Numbers ==
  ASSUME NEW abi \in {X86_64, Aarch64}
  PROVE  /\ abi.arch \in Nat /\ abi.socket \in Nat /\ abi.socketpair \in Nat
         /\ abi.clone \in Nat /\ abi.unshare \in Nat /\ abi.setns \in Nat
         /\ abi.x32 \in BOOLEAN
  <1>1. CASE abi = X86_64
    BY <1>1 DEF X86_64
  <1>2. CASE abi = Aarch64
    BY <1>2 DEF Aarch64
  <1> QED
    BY <1>1, <1>2

\* The parts Program puts together.
Prologue(abi) ==
  <<Load("arch"), Equal(abi.arch, 1, 0), Ret("KILL"), Load("nr")>>
Wide(abi) == IF abi.x32 THEN <<AnyBit(X32Bit, 0, 1), Ret("EPERM")>> ELSE <<>>
Calling(abi, n) ==
  <<Equal(Clone3, 0, 1), Ret("ENOSYS"),
    Equal(abi.setns, 0, 1), Ret("EPERM"),
    Equal(abi.clone, 1 + Over(n), 0), Equal(abi.unshare, Over(n), 0),
    Equal(IoUringSetup, 0, 1), Ret("EPERM"),
    Equal(abi.socket, 2, 0), Equal(abi.socketpair, 1, 0), Ret("ALLOW"),
    Load("arg0")>>
Tests(loopback) ==
  [i \in 1..Len(Domains(loopback)) |->
     Equal(Domains(loopback)[i], Len(Domains(loopback)) + 1 - i, 0)]
Epilogue ==
  <<Ret("EPERM"), Ret("ALLOW"),
    Load("arg0"), AnyBit(CloneNewUser, 0, 1), Ret("EPERM"), Ret("ALLOW")>>

\* Where the parts begin: b instructions more with an x32 test, n domains.
Extra(abi) == IF abi.x32 THEN 2 ELSE 0

LEMMA DomainsCounted ==
  ASSUME NEW loopback \in BOOLEAN
  PROVE  /\ Len(Domains(loopback)) = IF loopback THEN 3 ELSE 1
         /\ Domains(loopback)[1] = AF_UNIX
         /\ loopback => Domains(loopback)[2] = AF_INET /\ Domains(loopback)[3] = AF_INET6
         /\ \A i \in 1..Len(Domains(loopback)) : Domains(loopback)[i] \in Nat
  <1>1. CASE loopback
    <2>1. Domains(loopback) = <<AF_UNIX, AF_INET, AF_INET6>>
      BY <1>1 DEF Domains
    <2>2. /\ Len(Domains(loopback)) = 3
          /\ Domains(loopback)[1] = AF_UNIX
          /\ Domains(loopback)[2] = AF_INET
          /\ Domains(loopback)[3] = AF_INET6
      BY <2>1
    <2>3. \A i \in 1..3 : i \in {1, 2, 3}
      OBVIOUS
    <2>4. \A i \in 1..3 : Domains(loopback)[i] \in Nat
      BY <2>2, <2>3 DEF AF_UNIX, AF_INET, AF_INET6
    <2> QED
      BY <1>1, <2>2, <2>4
  <1>2. CASE ~loopback
    <2>1. Domains(loopback) = <<AF_UNIX>>
      BY <1>2 DEF Domains
    <2> QED
      BY <1>2, <2>1 DEF AF_UNIX
  <1> QED
    BY <1>1, <1>2

LEMMA PartsTyped ==
  ASSUME NEW abi \in {X86_64, Aarch64}, NEW loopback \in BOOLEAN,
         NEW n \in Nat, n = Len(Domains(loopback))
  PROVE  /\ Prologue(abi) \in Seq(Instructions) /\ Len(Prologue(abi)) = 4
         /\ Wide(abi) \in Seq(Instructions) /\ Len(Wide(abi)) = Extra(abi)
         /\ Calling(abi, n) \in Seq(Instructions) /\ Len(Calling(abi, n)) = 12
         /\ Tests(loopback) \in Seq(Instructions) /\ Len(Tests(loopback)) = n
         /\ Epilogue \in Seq(Instructions) /\ Len(Epilogue) = 6
  <1>1. \A k, jt, jf \in Nat : /\ Equal(k, jt, jf) \in Instructions
                               /\ AnyBit(k, jt, jf) \in Instructions
    BY DEF Equal, AnyBit, Instructions
  <1>2. \A f \in {"arch", "nr", "arg0"} : Load(f) \in Instructions
    BY DEF Load, Instructions
  <1>3. \A v \in {"KILL", "EPERM", "ENOSYS", "ALLOW"} : Ret(v) \in Instructions
    BY DEF Ret, Instructions
  <1>4. /\ Clone3 \in Nat /\ X32Bit \in Nat /\ CloneNewUser \in Nat
        /\ IoUringSetup \in Nat /\ Over(n) \in Nat /\ 1 + Over(n) \in Nat
    BY DEF Clone3, X32Bit, CloneNewUser, IoUringSetup, Over
  <1> HIDE DEF Instructions
  <1>5. Prologue(abi) \in Seq(Instructions) /\ Len(Prologue(abi)) = 4
    <2>1. Equal(abi.arch, 1, 0) \in Instructions
      BY <1>1, Numbers
    <2> QED
      BY <1>2, <1>3, <2>1 DEF Prologue
  <1>6. Wide(abi) \in Seq(Instructions) /\ Len(Wide(abi)) = Extra(abi)
    <2>1. AnyBit(X32Bit, 0, 1) \in Instructions
      BY <1>1, <1>4
    <2> QED
      BY <1>3, <2>1 DEF Wide, Extra
  <1>7. Calling(abi, n) \in Seq(Instructions) /\ Len(Calling(abi, n)) = 12
    <2>1. /\ Equal(Clone3, 0, 1) \in Instructions
          /\ Equal(abi.setns, 0, 1) \in Instructions
          /\ Equal(abi.clone, 1 + Over(n), 0) \in Instructions
          /\ Equal(abi.unshare, Over(n), 0) \in Instructions
          /\ Equal(IoUringSetup, 0, 1) \in Instructions
          /\ Equal(abi.socket, 2, 0) \in Instructions
          /\ Equal(abi.socketpair, 1, 0) \in Instructions
      BY <1>1, <1>4, Numbers
    <2> QED
      BY <1>2, <1>3, <2>1 DEF Calling
  <1>8. Tests(loopback) \in Seq(Instructions) /\ Len(Tests(loopback)) = n
    <2>1. \A i \in 1..n : Equal(Domains(loopback)[i], n + 1 - i, 0) \in Instructions
      BY <1>1, DomainsCounted
    <2> QED
      BY <2>1 DEF Tests
  <1>9. Epilogue \in Seq(Instructions) /\ Len(Epilogue) = 6
    <2>1. AnyBit(CloneNewUser, 0, 1) \in Instructions
      BY <1>1, <1>4
    <2> QED
      BY <1>2, <1>3, <2>1 DEF Epilogue
  <1> QED
    BY <1>5, <1>6, <1>7, <1>8, <1>9

\* Which instruction of five parts stands where.
Laid(p, s1, s2, s3, s4, s5, l1, l2, l3, l4, l5) ==
  /\ DOMAIN p = 1..(l1 + l2 + l3 + l4 + l5)
  /\ \A i \in 1..l1 : p[i] = s1[i]
  /\ \A i \in 1..l2 : p[l1 + i] = s2[i]
  /\ \A i \in 1..l3 : p[l1 + l2 + i] = s3[i]
  /\ \A i \in 1..l4 : p[l1 + l2 + l3 + i] = s4[i]
  /\ \A i \in 1..l5 : p[l1 + l2 + l3 + l4 + i] = s5[i]

LEMMA FiveParts ==
  ASSUME NEW I, NEW s1 \in Seq(I), NEW s2 \in Seq(I), NEW s3 \in Seq(I),
         NEW s4 \in Seq(I), NEW s5 \in Seq(I), NEW l1 \in Nat, NEW l2 \in Nat,
         NEW l3 \in Nat, NEW l4 \in Nat, NEW l5 \in Nat, l1 = Len(s1),
         l2 = Len(s2), l3 = Len(s3), l4 = Len(s4), l5 = Len(s5)
  PROVE  Laid(s1 \o s2 \o s3 \o s4 \o s5, s1, s2, s3, s4, s5, l1, l2, l3, l4, l5)
  BY DEF Laid

\* Which instruction of the program stands where.
LEMMA Layout ==
  ASSUME NEW abi \in {X86_64, Aarch64}, NEW loopback \in BOOLEAN,
         NEW n \in Nat, n = Len(Domains(loopback)),
         NEW b \in Nat, b = Extra(abi), NEW p, p = Program(abi, loopback)
  PROVE  Laid(p, Prologue(abi), Wide(abi), Calling(abi, n), Tests(loopback), Epilogue,
              4, b, 12, n, 6)
  <1>1. PICK s1, s2, s3, s4, s5 :
          /\ s1 = Prologue(abi) /\ s2 = Wide(abi) /\ s3 = Calling(abi, n)
          /\ s4 = Tests(loopback) /\ s5 = Epilogue
    OBVIOUS
  <1>2. PICK l1 \in Nat, l3 \in Nat, l5 \in Nat : l1 = 4 /\ l3 = 12 /\ l5 = 6
    OBVIOUS
  <1>3. p = s1 \o s2 \o s3 \o s4 \o s5
    BY <1>1 DEF Program, Prologue, Wide, Calling, Tests, Epilogue
  <1>4. /\ s1 \in Seq(Instructions) /\ l1 = Len(s1)
        /\ s2 \in Seq(Instructions) /\ b = Len(s2)
        /\ s3 \in Seq(Instructions) /\ l3 = Len(s3)
        /\ s4 \in Seq(Instructions) /\ n = Len(s4)
        /\ s5 \in Seq(Instructions) /\ l5 = Len(s5)
    BY <1>1, <1>2, PartsTyped
  <1>5. Laid(s1 \o s2 \o s3 \o s4 \o s5, s1, s2, s3, s4, s5, l1, b, l3, n, l5)
    BY <1>4, FiveParts
  <1> QED
    BY <1>1, <1>2, <1>3, <1>5, Zenon

\* The instructions one by one, c being where the system call's tests begin, d
\* the socket domains' and e the rest.
Listing(p, abi, loopback, n, c, d, e) ==
  /\ DOMAIN p = 1..(e + 6)
  /\ p[1] = Load("arch") /\ p[2] = Equal(abi.arch, 1, 0)
  /\ p[3] = Ret("KILL") /\ p[4] = Load("nr")
  /\ c = IF abi.x32 THEN 6 ELSE 4
  /\ c = 6 => p[5] = AnyBit(X32Bit, 0, 1) /\ p[6] = Ret("EPERM")
  /\ p[c + 1] = Equal(Clone3, 0, 1) /\ p[c + 2] = Ret("ENOSYS")
  /\ p[c + 3] = Equal(abi.setns, 0, 1) /\ p[c + 4] = Ret("EPERM")
  /\ p[c + 5] = Equal(abi.clone, 9 + n, 0) /\ p[c + 6] = Equal(abi.unshare, 8 + n, 0)
  /\ p[c + 7] = Equal(IoUringSetup, 0, 1) /\ p[c + 8] = Ret("EPERM")
  /\ p[c + 9] = Equal(abi.socket, 2, 0) /\ p[c + 10] = Equal(abi.socketpair, 1, 0)
  /\ p[c + 11] = Ret("ALLOW") /\ p[c + 12] = Load("arg0")
  /\ \A i \in 1..n : p[d + i] = Equal(Domains(loopback)[i], n + 1 - i, 0)
  /\ p[e + 1] = Ret("EPERM") /\ p[e + 2] = Ret("ALLOW")
  /\ p[e + 3] = Load("arg0") /\ p[e + 4] = AnyBit(CloneNewUser, 0, 1)
  /\ p[e + 5] = Ret("EPERM") /\ p[e + 6] = Ret("ALLOW")

LEMMA Listed ==
  ASSUME NEW abi \in {X86_64, Aarch64}, NEW loopback \in BOOLEAN,
         NEW n \in Nat, n = Len(Domains(loopback)),
         NEW b \in Nat, b = Extra(abi), NEW p, p = Program(abi, loopback),
         NEW c \in Nat, c = 4 + b, NEW d \in Nat, d = c + 12,
         NEW e \in Nat, e = d + n
  PROVE  Listing(p, abi, loopback, n, c, d, e)
  <1>1. /\ DOMAIN p = 1..(4 + b + 12 + n + 6)
        /\ \A i \in 1..4 : p[i] = Prologue(abi)[i]
        /\ \A i \in 1..b : p[4 + i] = Wide(abi)[i]
        /\ \A i \in 1..12 : p[4 + b + i] = Calling(abi, n)[i]
        /\ \A i \in 1..n : p[4 + b + 12 + i] = Tests(loopback)[i]
        /\ \A i \in 1..6 : p[4 + b + 12 + n + i] = Epilogue[i]
    <2>1. Laid(p, Prologue(abi), Wide(abi), Calling(abi, n), Tests(loopback), Epilogue,
               4, b, 12, n, 6)
      BY Layout
    <2> QED
      BY <2>1, Zenon DEF Laid
  <1>2. 4 + b + 12 + n + 6 = e + 6
    OBVIOUS
  <1>3. DOMAIN p = 1..(e + 6)
    BY <1>1, <1>2, Zenon
  <1>4. /\ p[1] = Load("arch") /\ p[2] = Equal(abi.arch, 1, 0)
        /\ p[3] = Ret("KILL") /\ p[4] = Load("nr")
    <2>1. 1 \in 1..4 /\ 2 \in 1..4 /\ 3 \in 1..4 /\ 4 \in 1..4
      OBVIOUS
    <2>2. /\ Prologue(abi)[1] = Load("arch") /\ Prologue(abi)[2] = Equal(abi.arch, 1, 0)
          /\ Prologue(abi)[3] = Ret("KILL") /\ Prologue(abi)[4] = Load("nr")
      BY DEF Prologue
    <2> QED
      BY <1>1, <2>1, <2>2, Zenon
  <1>5. c = 6 => p[5] = AnyBit(X32Bit, 0, 1) /\ p[6] = Ret("EPERM")
    <2> SUFFICES ASSUME c = 6 PROVE p[5] = AnyBit(X32Bit, 0, 1) /\ p[6] = Ret("EPERM")
      OBVIOUS
    <2>1. b = 2 /\ abi.x32
      BY DEF Extra
    <2>2. Wide(abi) = <<AnyBit(X32Bit, 0, 1), Ret("EPERM")>>
      BY <2>1, Zenon DEF Wide
    <2>3. p[4 + 1] = Wide(abi)[1] /\ p[4 + 2] = Wide(abi)[2]
      <3>1. 1 \in 1..b /\ 2 \in 1..b
        BY <2>1
      <3> QED
        BY <1>1, <3>1, Zenon
    <2>4. 4 + 1 = 5 /\ 4 + 2 = 6
      OBVIOUS
    <2>5. Wide(abi)[1] = AnyBit(X32Bit, 0, 1) /\ Wide(abi)[2] = Ret("EPERM")
      BY <2>2
    <2> QED
      BY <2>3, <2>4, <2>5, Zenon
  <1>6. c = IF abi.x32 THEN 6 ELSE 4
    BY DEF Extra
  <1>7. \A i \in 1..12 : p[c + i] = Calling(abi, n)[i]
    BY <1>1, Zenon
  <1>8. /\ p[c + 1] = Equal(Clone3, 0, 1) /\ p[c + 2] = Ret("ENOSYS")
        /\ p[c + 3] = Equal(abi.setns, 0, 1) /\ p[c + 4] = Ret("EPERM")
        /\ p[c + 5] = Equal(abi.clone, 9 + n, 0) /\ p[c + 6] = Equal(abi.unshare, 8 + n, 0)
        /\ p[c + 7] = Equal(IoUringSetup, 0, 1) /\ p[c + 8] = Ret("EPERM")
        /\ p[c + 9] = Equal(abi.socket, 2, 0) /\ p[c + 10] = Equal(abi.socketpair, 1, 0)
        /\ p[c + 11] = Ret("ALLOW") /\ p[c + 12] = Load("arg0")
    <2>1. /\ 1 \in 1..12 /\ 2 \in 1..12 /\ 3 \in 1..12 /\ 4 \in 1..12
          /\ 5 \in 1..12 /\ 6 \in 1..12 /\ 7 \in 1..12 /\ 8 \in 1..12
          /\ 9 \in 1..12 /\ 10 \in 1..12 /\ 11 \in 1..12 /\ 12 \in 1..12
      OBVIOUS
    <2>2. Over(n) = 8 + n /\ 1 + Over(n) = 9 + n
      BY DEF Over
    <2>3. Calling(abi, n) =
            <<Equal(Clone3, 0, 1), Ret("ENOSYS"),
              Equal(abi.setns, 0, 1), Ret("EPERM"),
              Equal(abi.clone, 9 + n, 0), Equal(abi.unshare, 8 + n, 0),
              Equal(IoUringSetup, 0, 1), Ret("EPERM"),
              Equal(abi.socket, 2, 0), Equal(abi.socketpair, 1, 0), Ret("ALLOW"),
              Load("arg0")>>
      BY <2>2, Zenon DEF Calling
    <2> QED
      BY <1>7, <2>1, <2>3
  <1>9. \A i \in 1..n : p[d + i] = Equal(Domains(loopback)[i], n + 1 - i, 0)
    <2>1. \A i \in 1..n : p[d + i] = Tests(loopback)[i]
      BY <1>1, Zenon
    <2> QED
      BY <2>1 DEF Tests
  <1>10. \A i \in 1..6 : p[e + i] = Epilogue[i]
    BY <1>1, Zenon
  <1>11. /\ p[e + 1] = Ret("EPERM") /\ p[e + 2] = Ret("ALLOW")
         /\ p[e + 3] = Load("arg0") /\ p[e + 4] = AnyBit(CloneNewUser, 0, 1)
         /\ p[e + 5] = Ret("EPERM") /\ p[e + 6] = Ret("ALLOW")
    <2>1. /\ 1 \in 1..6 /\ 2 \in 1..6 /\ 3 \in 1..6 /\ 4 \in 1..6
          /\ 5 \in 1..6 /\ 6 \in 1..6
      OBVIOUS
    <2> QED
      BY <1>10, <2>1 DEF Epilogue
  <1> QED
    BY <1>3, <1>4, <1>5, <1>6, <1>8, <1>9, <1>11, Zenon DEF Listing

-----------------------------------------------------------------------------
(* What the program answers *)

Fields == {"arch", "nr", "arg0"}

\* What each kind of instruction does.
Obeys(p, call, g, pc, f) ==
  /\ \A k : p[pc] = Load(k) => g[pc][f] = g[pc + 1][k]
  /\ \A v : p[pc] = Ret(v) => g[pc][f] = v
  /\ \A k, jt, jf : p[pc] = Equal(k, jt, jf) =>
       g[pc][f] = IF call[f] = k THEN g[pc + 1 + jt][f] ELSE g[pc + 1 + jf][f]
  /\ \A k, jt, jf : p[pc] = AnyBit(k, jt, jf) =>
       g[pc][f] = IF (call[f] \div k) % 2 = 1
                  THEN g[pc + 1 + jt][f] ELSE g[pc + 1 + jf][f]

LEMMA Does ==
  ASSUME NEW p, NEW call, NEW g, NEW pc, NEW f, g[pc][f] = Answer(p, call, g, pc, f)
  PROVE  Obeys(p, call, g, pc, f)
  <1>1. ASSUME NEW k, p[pc] = Load(k) PROVE g[pc][f] = g[pc + 1][k]
    BY <1>1 DEF Answer, Load
  <1>2. ASSUME NEW v, p[pc] = Ret(v) PROVE g[pc][f] = v
    BY <1>2 DEF Answer, Ret
  <1>3. ASSUME NEW k, NEW jt, NEW jf, p[pc] = Equal(k, jt, jf)
        PROVE  g[pc][f] = IF call[f] = k THEN g[pc + 1 + jt][f] ELSE g[pc + 1 + jf][f]
    <2>1. /\ p[pc].op = "equal" /\ p[pc].k = k /\ p[pc].jt = jt /\ p[pc].jf = jf
      BY <1>3 DEF Equal
    <2>2. CASE call[f] = k
      BY <2>1, <2>2 DEF Answer
    <2>3. CASE call[f] # k
      BY <2>1, <2>3 DEF Answer
    <2> QED
      BY <2>2, <2>3
  <1>4. ASSUME NEW k, NEW jt, NEW jf, p[pc] = AnyBit(k, jt, jf)
        PROVE  g[pc][f] = IF (call[f] \div k) % 2 = 1
                          THEN g[pc + 1 + jt][f] ELSE g[pc + 1 + jf][f]
    <2>1. /\ p[pc].op = "any" /\ p[pc].k = k /\ p[pc].jt = jt /\ p[pc].jf = jf
      BY <1>4 DEF AnyBit
    <2>2. CASE (call[f] \div k) % 2 = 1
      BY <2>1, <2>2 DEF Answer
    <2>3. CASE ~ ((call[f] \div k) % 2 = 1)
      BY <2>1, <2>3 DEF Answer
    <2> QED
      BY <2>2, <2>3
  <1> QED
    BY <1>1, <1>2, <1>3, <1>4, Zenon DEF Obeys

\* Where each kind of instruction goes on.
LEMMA Onward ==
  ASSUME NEW p, NEW call, NEW m \in Nat, DOMAIN p = 1..m, NEW pc \in Nat
  PROVE  /\ \A v : p[pc] = Ret(v) => GoesOn(p, call, pc)
         /\ \A f \in DOMAIN call :
              p[pc] = Load(f) /\ pc + 1 <= m => GoesOn(p, call, pc)
         /\ \A k : \A jt, jf \in Nat :
              /\ p[pc] = Equal(k, jt, jf) \/ p[pc] = AnyBit(k, jt, jf)
              /\ pc + 1 + jt <= m /\ pc + 1 + jf <= m
              => GoesOn(p, call, pc)
  <1>1. ASSUME NEW v, p[pc] = Ret(v) PROVE GoesOn(p, call, pc)
    BY <1>1 DEF GoesOn, Ret
  <1>2. ASSUME NEW f \in DOMAIN call, p[pc] = Load(f), pc + 1 <= m
        PROVE  GoesOn(p, call, pc)
    <2>1. p[pc].op = "load" /\ p[pc].k = f
      BY <1>2 DEF Load
    <2>2. pc + 1 \in DOMAIN p
      BY <1>2
    <2> QED
      BY <2>1, <2>2, Zenon DEF GoesOn
  <1>3. ASSUME NEW k, NEW jt \in Nat, NEW jf \in Nat,
               p[pc] = Equal(k, jt, jf) \/ p[pc] = AnyBit(k, jt, jf),
               pc + 1 + jt <= m, pc + 1 + jf <= m
        PROVE  GoesOn(p, call, pc)
    <2>1. p[pc].op \notin {"load", "ret"} /\ p[pc].jt = jt /\ p[pc].jf = jf
      BY <1>3 DEF Equal, AnyBit
    <2>2. pc + 1 + jt \in DOMAIN p /\ pc + 1 + jf \in DOMAIN p
      BY <1>3
    <2> QED
      BY <2>1, <2>2, Zenon DEF GoesOn
  <1> QED
    BY <1>1, <1>2, <1>3, Zenon

\* The program only jumps forward, and never beyond its end.
LEMMA Ahead ==
  ASSUME NEW p, NEW abi, NEW loopback, NEW n \in Nat, NEW c \in Nat, NEW d \in Nat,
         NEW e \in Nat, Listing(p, abi, loopback, n, c, d, e),
         d = c + 12, e = d + n, NEW call, DOMAIN call = Fields
  PROVE  Forward(p, call)
  <1> DEFINE Goes(pc) == GoesOn(p, call, pc)
  <1>1. DOMAIN p = 1..(e + 6) /\ c \in {4, 6} /\ e + 6 \in Nat
    BY DEF Listing
  <1>2. \A pc \in Nat : /\ \A v : p[pc] = Ret(v) => Goes(pc)
                        /\ \A f \in Fields :
                             p[pc] = Load(f) /\ pc + 1 <= e + 6 => Goes(pc)
                        /\ \A k : \A jt, jf \in Nat :
                             /\ p[pc] = Equal(k, jt, jf) \/ p[pc] = AnyBit(k, jt, jf)
                             /\ pc + 1 + jt <= e + 6 /\ pc + 1 + jf <= e + 6
                             => Goes(pc)
    BY <1>1, Onward
  <1> HIDE DEF Goes
  <1>3. Goes(1) /\ Goes(2) /\ Goes(3) /\ Goes(4)
    <2>1. Goes(1)
      <3>1. 1 \in Nat /\ 1 + 1 <= e + 6 /\ "arch" \in Fields
        BY <1>1 DEF Fields
      <3>2. p[1] = Load("arch")
        BY Zenon DEF Listing
      <3> QED
        BY <1>2, <3>1, <3>2, Zenon
    <2>2. Goes(2)
      <3>1. /\ 2 \in Nat /\ 1 \in Nat /\ 0 \in Nat
            /\ 2 + 1 + 1 <= e + 6 /\ 2 + 1 + 0 <= e + 6
        BY <1>1
      <3>2. p[2] = Equal(abi.arch, 1, 0)
        BY Zenon DEF Listing
      <3> QED
        BY <1>2, <3>1, <3>2, Zenon
    <2>3. Goes(3)
      <3>1. 3 \in Nat
        OBVIOUS
      <3> QED
        BY <1>2, <3>1, Zenon DEF Listing
    <2>4. Goes(4)
      <3>1. 4 \in Nat /\ 4 + 1 <= e + 6 /\ "nr" \in Fields
        BY <1>1 DEF Fields
      <3>2. p[4] = Load("nr")
        BY Zenon DEF Listing
      <3> QED
        BY <1>2, <3>1, <3>2, Zenon
    <2> QED
      BY <2>1, <2>2, <2>3, <2>4
  <1>4. c = 6 => Goes(5) /\ Goes(6)
    <2> SUFFICES ASSUME c = 6 PROVE Goes(5) /\ Goes(6)
      OBVIOUS
    <2>1. Goes(5)
      <3>1. /\ 5 \in Nat /\ 0 \in Nat /\ 1 \in Nat
            /\ 5 + 1 + 0 <= e + 6 /\ 5 + 1 + 1 <= e + 6
        BY <1>1
      <3>2. p[5] = AnyBit(X32Bit, 0, 1)
        BY Zenon DEF Listing
      <3> QED
        BY <1>2, <3>1, <3>2, Zenon
    <2>2. Goes(6)
      <3>1. 6 \in Nat
        OBVIOUS
      <3> QED
        BY <1>2, <3>1, Zenon DEF Listing
    <2> QED
      BY <2>1, <2>2
  <1>5. /\ Goes(c + 1) /\ Goes(c + 2) /\ Goes(c + 3) /\ Goes(c + 4)
        /\ Goes(c + 5) /\ Goes(c + 6) /\ Goes(c + 7) /\ Goes(c + 8)
        /\ Goes(c + 9) /\ Goes(c + 10) /\ Goes(c + 11) /\ Goes(c + 12)
    <2>1. Goes(c + 1)
      <3>1. /\ c + 1 \in Nat /\ 0 \in Nat /\ 1 \in Nat
            /\ c + 1 + 1 + 0 <= e + 6 /\ c + 1 + 1 + 1 <= e + 6
        BY <1>1
      <3>2. p[c + 1] = Equal(Clone3, 0, 1)
        BY Zenon DEF Listing
      <3> QED
        BY <1>2, <3>1, <3>2, Zenon
    <2>2. Goes(c + 2)
      <3>1. c + 2 \in Nat
        OBVIOUS
      <3> QED
        BY <1>2, <3>1, Zenon DEF Listing
    <2>3. Goes(c + 3)
      <3>1. /\ c + 3 \in Nat /\ 0 \in Nat /\ 1 \in Nat
            /\ c + 3 + 1 + 0 <= e + 6 /\ c + 3 + 1 + 1 <= e + 6
        BY <1>1
      <3>2. p[c + 3] = Equal(abi.setns, 0, 1)
        BY Zenon DEF Listing
      <3> QED
        BY <1>2, <3>1, <3>2, Zenon
    <2>4. Goes(c + 4)
      <3>1. c + 4 \in Nat
        OBVIOUS
      <3> QED
        BY <1>2, <3>1, Zenon DEF Listing
    <2>5. Goes(c + 5)
      <3>1. /\ c + 5 \in Nat /\ (9 + n) \in Nat /\ 0 \in Nat
            /\ c + 5 + 1 + (9 + n) <= e + 6 /\ c + 5 + 1 + 0 <= e + 6
        BY <1>1
      <3>2. p[c + 5] = Equal(abi.clone, 9 + n, 0)
        BY Zenon DEF Listing
      <3> QED
        BY <1>2, <3>1, <3>2, Zenon
    <2>6. Goes(c + 6)
      <3>1. /\ c + 6 \in Nat /\ (8 + n) \in Nat /\ 0 \in Nat
            /\ c + 6 + 1 + (8 + n) <= e + 6 /\ c + 6 + 1 + 0 <= e + 6
        BY <1>1
      <3>2. p[c + 6] = Equal(abi.unshare, 8 + n, 0)
        BY Zenon DEF Listing
      <3> QED
        BY <1>2, <3>1, <3>2, Zenon
    <2>7. Goes(c + 7)
      <3>1. /\ c + 7 \in Nat /\ 0 \in Nat /\ 1 \in Nat
            /\ c + 7 + 1 + 0 <= e + 6 /\ c + 7 + 1 + 1 <= e + 6
        BY <1>1
      <3>2. p[c + 7] = Equal(IoUringSetup, 0, 1)
        BY Zenon DEF Listing
      <3> QED
        BY <1>2, <3>1, <3>2, Zenon
    <2>8. Goes(c + 8)
      <3>1. c + 8 \in Nat
        OBVIOUS
      <3> QED
        BY <1>2, <3>1, Zenon DEF Listing
    <2>9. Goes(c + 9)
      <3>1. /\ c + 9 \in Nat /\ 2 \in Nat /\ 0 \in Nat
            /\ c + 9 + 1 + 2 <= e + 6 /\ c + 9 + 1 + 0 <= e + 6
        BY <1>1
      <3>2. p[c + 9] = Equal(abi.socket, 2, 0)
        BY Zenon DEF Listing
      <3> QED
        BY <1>2, <3>1, <3>2, Zenon
    <2>10. Goes(c + 10)
      <3>1. /\ c + 10 \in Nat /\ 1 \in Nat /\ 0 \in Nat
            /\ c + 10 + 1 + 1 <= e + 6 /\ c + 10 + 1 + 0 <= e + 6
        BY <1>1
      <3>2. p[c + 10] = Equal(abi.socketpair, 1, 0)
        BY Zenon DEF Listing
      <3> QED
        BY <1>2, <3>1, <3>2, Zenon
    <2>11. Goes(c + 11)
      <3>1. c + 11 \in Nat
        OBVIOUS
      <3> QED
        BY <1>2, <3>1, Zenon DEF Listing
    <2>12. Goes(c + 12)
      <3>1. c + 12 \in Nat /\ c + 12 + 1 <= e + 6 /\ "arg0" \in Fields
        BY <1>1 DEF Fields
      <3>2. p[c + 12] = Load("arg0")
        BY Zenon DEF Listing
      <3> QED
        BY <1>2, <3>1, <3>2, Zenon
    <2> QED
      BY <2>1, <2>2, <2>3, <2>4, <2>5, <2>6, <2>7, <2>8, <2>9, <2>10, <2>11, <2>12
  <1>6. \A i \in 1..n : Goes(d + i)
    <2> TAKE i \in 1..n
    <2>1. p[d + i] = Equal(Domains(loopback)[i], n + 1 - i, 0)
      BY Zenon DEF Listing
    <2>2. /\ d + i \in Nat /\ n + 1 - i \in Nat /\ 0 \in Nat
          /\ d + i + 1 + (n + 1 - i) <= e + 6 /\ d + i + 1 + 0 <= e + 6
      OBVIOUS
    <2> QED
      BY <1>2, <2>1, <2>2, Zenon
  <1>7. /\ Goes(e + 1) /\ Goes(e + 2) /\ Goes(e + 3)
        /\ Goes(e + 4) /\ Goes(e + 5) /\ Goes(e + 6)
    <2>1. Goes(e + 1)
      <3>1. e + 1 \in Nat
        OBVIOUS
      <3> QED
        BY <1>2, <3>1, Zenon DEF Listing
    <2>2. Goes(e + 2)
      <3>1. e + 2 \in Nat
        OBVIOUS
      <3> QED
        BY <1>2, <3>1, Zenon DEF Listing
    <2>3. Goes(e + 3)
      <3>1. e + 3 \in Nat /\ e + 3 + 1 <= e + 6 /\ "arg0" \in Fields
        BY <1>1 DEF Fields
      <3>2. p[e + 3] = Load("arg0")
        BY Zenon DEF Listing
      <3> QED
        BY <1>2, <3>1, <3>2, Zenon
    <2>4. Goes(e + 4)
      <3>1. /\ e + 4 \in Nat /\ 0 \in Nat /\ 1 \in Nat
            /\ e + 4 + 1 + 0 <= e + 6 /\ e + 4 + 1 + 1 <= e + 6
        BY <1>1
      <3>2. p[e + 4] = AnyBit(CloneNewUser, 0, 1)
        BY Zenon DEF Listing
      <3> QED
        BY <1>2, <3>1, <3>2, Zenon
    <2>5. Goes(e + 5)
      <3>1. e + 5 \in Nat
        OBVIOUS
      <3> QED
        BY <1>2, <3>1, Zenon DEF Listing
    <2>6. Goes(e + 6)
      <3>1. e + 6 \in Nat
        OBVIOUS
      <3> QED
        BY <1>2, <3>1, Zenon DEF Listing
    <2> QED
      BY <2>1, <2>2, <2>3, <2>4, <2>5, <2>6
  <1>8. ASSUME NEW pc \in DOMAIN p PROVE Goes(pc)
    <2>1. pc \in 1..(e + 6)
      BY <1>1
    <2>2. CASE pc <= c
      <3>1. pc \in {1, 2, 3, 4} \/ (c = 6 /\ pc \in {5, 6})
        BY <1>1, <2>1, <2>2
      <3> QED
        BY <1>3, <1>4, <3>1
    <2>3. CASE pc > c /\ pc <= d
      <3>1. PICK i \in 1..12 : pc = c + i
        <4>1. pc - c \in 1..12 /\ pc = c + (pc - c)
          BY <2>1, <2>3
        <4> QED
          BY <4>1
      <3>2. i \in {1, 2, 3, 4, 5, 6, 7, 8, 9, 10, 11, 12}
        OBVIOUS
      <3> QED
        BY <1>5, <3>1, <3>2
    <2>4. CASE pc > d /\ pc <= e
      <3>1. pc - d \in 1..n /\ pc = d + (pc - d)
        BY <2>1, <2>4
      <3> QED
        BY <1>6, <3>1, Zenon
    <2>5. CASE pc > e
      <3>1. PICK i \in 1..6 : pc = e + i
        <4>1. pc - e \in 1..6 /\ pc = e + (pc - e)
          BY <2>1, <2>5
        <4> QED
          BY <4>1
      <3>2. i \in {1, 2, 3, 4, 5, 6}
        OBVIOUS
      <3> QED
        BY <1>7, <3>1, <3>2
    <2> QED
      BY <2>1, <2>2, <2>3, <2>4, <2>5
  <1> QED
    BY <1>8 DEF Forward, Goes

\* On either machine and for either profile, the assembled program answers every
\* system call as the policy says, whatever its numbers.
THEOREM FilterFaithful ==
  ASSUME NEW abi \in {X86_64, Aarch64}, NEW loopback \in BOOLEAN,
         NEW call \in [arch : Nat, nr : Nat, arg0 : Nat]
  PROVE  Verdict(Program(abi, loopback), call) =
           IF Departs(abi, call) THEN "EPERM" ELSE Contract(abi, loopback, call)
  <1>0. PICK p : p = Program(abi, loopback)
    OBVIOUS
  <1>1. PICK n \in Nat : n = Len(Domains(loopback))
    BY DomainsCounted
  <1>2. PICK b \in Nat : b = Extra(abi)
    BY DEF Extra
  <1>3. PICK c \in Nat, d \in Nat, e \in Nat : c = 4 + b /\ d = c + 12 /\ e = d + n
    OBVIOUS
  <1>4. Listing(p, abi, loopback, n, c, d, e)
    BY <1>0, <1>1, <1>2, <1>3, Listed
  <1>5. DOMAIN call = Fields
    BY DEF Fields
  <1>6. DOMAIN p = 1..(e + 6) /\ e + 6 \in Nat
    BY <1>4 DEF Listing
  <1>7. Forward(p, call)
    BY <1>3, <1>4, <1>5, Ahead
  <1>8. PICK g : /\ Verdict(p, call) = g[1]["arch"]
                 /\ \A pc \in DOMAIN p, f \in DOMAIN call :
                      g[pc][f] = Answer(p, call, g, pc, f)
    BY <1>6, <1>7, VerdictRuns
  <1>9. \A pc \in 1..(e + 6), f \in Fields : Obeys(p, call, g, pc, f)
    BY <1>5, <1>6, <1>8, Does, Zenon
  <1>10. "arch" \in Fields /\ "nr" \in Fields /\ "arg0" \in Fields
    BY DEF Fields
  <1>11. c \in {4, 6}
    BY <1>4 DEF Listing
  <1>12. g[e + 1]["arg0"] = "EPERM"
    <2>1. e + 1 \in 1..(e + 6)
      BY <1>3, <1>11
    <2>2. p[e + 1] = Ret("EPERM")
      BY <1>4, Zenon DEF Listing
    <2> QED
      BY <1>9, <1>10, <2>1, <2>2 DEF Obeys
  <1>13. g[e + 2]["arg0"] = "ALLOW"
    <2>1. e + 2 \in 1..(e + 6)
      BY <1>3, <1>11
    <2>2. p[e + 2] = Ret("ALLOW")
      BY <1>4, Zenon DEF Listing
    <2> QED
      BY <1>9, <1>10, <2>1, <2>2 DEF Obeys
  <1>14. g[e + 3]["nr"] = g[e + 4]["arg0"]
    <2>1. e + 3 \in 1..(e + 6) /\ e + 3 + 1 = e + 4
      BY <1>3, <1>11
    <2>2. p[e + 3] = Load("arg0")
      BY <1>4, Zenon DEF Listing
    <2> QED
      BY <1>9, <1>10, <2>1, <2>2 DEF Obeys
  <1>15. g[e + 4]["arg0"] = IF (call["arg0"] \div CloneNewUser) % 2 = 1 THEN g[e + 5]["arg0"] ELSE g[e + 6]["arg0"]
    <2>1. e + 4 \in 1..(e + 6) /\ e + 4 + 1 + 0 = e + 5 /\ e + 4 + 1 + 1 = e + 6
      BY <1>3, <1>11
    <2>2. p[e + 4] = AnyBit(CloneNewUser, 0, 1)
      BY <1>4, Zenon DEF Listing
    <2> QED
      BY <1>9, <1>10, <2>1, <2>2 DEF Obeys
  <1>16. g[e + 5]["arg0"] = "EPERM"
    <2>1. e + 5 \in 1..(e + 6)
      BY <1>3, <1>11
    <2>2. p[e + 5] = Ret("EPERM")
      BY <1>4, Zenon DEF Listing
    <2> QED
      BY <1>9, <1>10, <2>1, <2>2 DEF Obeys
  <1>17. g[e + 6]["arg0"] = "ALLOW"
    <2>1. e + 6 \in 1..(e + 6)
      BY <1>3, <1>11
    <2>2. p[e + 6] = Ret("ALLOW")
      BY <1>4, Zenon DEF Listing
    <2> QED
      BY <1>9, <1>10, <2>1, <2>2 DEF Obeys
  <1>18. g[e + 3]["nr"] = IF (call["arg0"] \div CloneNewUser) % 2 = 1 THEN "EPERM" ELSE "ALLOW"
    BY <1>14, <1>15, <1>16, <1>17, Zenon
  <1>19. \A i \in 1..n :
          g[d + i]["arg0"] = IF call["arg0"] = Domains(loopback)[i]
                             THEN "ALLOW" ELSE g[d + i + 1]["arg0"]
    <2> TAKE i \in 1..n
    <2>1. /\ d + i \in 1..(e + 6) /\ d + i + 1 + (n + 1 - i) = e + 2
          /\ d + i + 1 + 0 = d + i + 1
      BY <1>3
    <2>2. p[d + i] = Equal(Domains(loopback)[i], n + 1 - i, 0)
      BY <1>4, Zenon DEF Listing
    <2> QED
      BY <1>9, <1>10, <1>13, <2>1, <2>2 DEF Obeys
  <1>20. g[d + 1]["arg0"] =
           IF \/ call["arg0"] = AF_UNIX
              \/ loopback /\ call["arg0"] \in {AF_INET, AF_INET6}
                          THEN "ALLOW" ELSE "EPERM"
    <2>1. CASE loopback
      <3>1. /\ n = 3 /\ Domains(loopback)[1] = AF_UNIX
            /\ Domains(loopback)[2] = AF_INET /\ Domains(loopback)[3] = AF_INET6
        BY <1>1, <2>1, DomainsCounted
      <3>2. /\ 1 \in 1..n /\ 2 \in 1..n /\ 3 \in 1..n
            /\ d + 1 + 1 = d + 2 /\ d + 2 + 1 = d + 3 /\ d + 3 + 1 = e + 1
        BY <1>3, <3>1
      <3>3. /\ g[d + 1]["arg0"] = IF call["arg0"] = AF_UNIX THEN "ALLOW" ELSE g[d + 2]["arg0"]
            /\ g[d + 2]["arg0"] = IF call["arg0"] = AF_INET THEN "ALLOW" ELSE g[d + 3]["arg0"]
            /\ g[d + 3]["arg0"] = IF call["arg0"] = AF_INET6 THEN "ALLOW" ELSE "EPERM"
        BY <1>12, <1>19, <3>1, <3>2, Zenon
      <3> QED
        BY <2>1, <3>3, Zenon
    <2>2. CASE ~loopback
      <3>1. n = 1 /\ Domains(loopback)[1] = AF_UNIX
        BY <1>1, <2>2, DomainsCounted
      <3>2. 1 \in 1..n /\ d + 1 + 1 = e + 1
        BY <1>3, <3>1
      <3>3. g[d + 1]["arg0"] = IF call["arg0"] = AF_UNIX THEN "ALLOW" ELSE "EPERM"
        BY <1>12, <1>19, <3>1, <3>2, Zenon
      <3> QED
        BY <2>2, <3>3, Zenon
    <2> QED
      BY <2>1, <2>2
  <1>21. g[c + 12]["nr"] = g[d + 1]["arg0"]
    <2>1. c + 12 \in 1..(e + 6) /\ c + 12 + 1 = d + 1
      BY <1>3, <1>11
    <2>2. p[c + 12] = Load("arg0")
      BY <1>4, Zenon DEF Listing
    <2> QED
      BY <1>9, <1>10, <2>1, <2>2 DEF Obeys
  <1>22. g[c + 11]["nr"] = "ALLOW"
    <2>1. c + 11 \in 1..(e + 6)
      BY <1>3, <1>11
    <2>2. p[c + 11] = Ret("ALLOW")
      BY <1>4, Zenon DEF Listing
    <2> QED
      BY <1>9, <1>10, <2>1, <2>2 DEF Obeys
  <1>23. g[c + 10]["nr"] = IF call["nr"] = abi.socketpair THEN g[c + 12]["nr"] ELSE g[c + 11]["nr"]
    <2>1. c + 10 \in 1..(e + 6) /\ c + 10 + 1 + 1 = c + 12 /\ c + 10 + 1 + 0 = c + 11
      BY <1>3, <1>11
    <2>2. p[c + 10] = Equal(abi.socketpair, 1, 0)
      BY <1>4, Zenon DEF Listing
    <2> QED
      BY <1>9, <1>10, <2>1, <2>2 DEF Obeys
  <1>24. g[c + 9]["nr"] = IF call["nr"] = abi.socket THEN g[c + 12]["nr"] ELSE g[c + 10]["nr"]
    <2>1. c + 9 \in 1..(e + 6) /\ c + 9 + 1 + 2 = c + 12 /\ c + 9 + 1 + 0 = c + 10
      BY <1>3, <1>11
    <2>2. p[c + 9] = Equal(abi.socket, 2, 0)
      BY <1>4, Zenon DEF Listing
    <2> QED
      BY <1>9, <1>10, <2>1, <2>2 DEF Obeys
  <1>25. g[c + 8]["nr"] = "EPERM"
    <2>1. c + 8 \in 1..(e + 6)
      BY <1>3, <1>11
    <2>2. p[c + 8] = Ret("EPERM")
      BY <1>4, Zenon DEF Listing
    <2> QED
      BY <1>9, <1>10, <2>1, <2>2 DEF Obeys
  <1>26. g[c + 7]["nr"] = IF call["nr"] = IoUringSetup THEN g[c + 8]["nr"] ELSE g[c + 9]["nr"]
    <2>1. c + 7 \in 1..(e + 6) /\ c + 7 + 1 + 0 = c + 8 /\ c + 7 + 1 + 1 = c + 9
      BY <1>3, <1>11
    <2>2. p[c + 7] = Equal(IoUringSetup, 0, 1)
      BY <1>4, Zenon DEF Listing
    <2> QED
      BY <1>9, <1>10, <2>1, <2>2 DEF Obeys
  <1>27. g[c + 6]["nr"] = IF call["nr"] = abi.unshare THEN g[e + 3]["nr"] ELSE g[c + 7]["nr"]
    <2>1. c + 6 \in 1..(e + 6) /\ c + 6 + 1 + (8 + n) = e + 3 /\ c + 6 + 1 + 0 = c + 7
      BY <1>3, <1>11
    <2>2. p[c + 6] = Equal(abi.unshare, 8 + n, 0)
      BY <1>4, Zenon DEF Listing
    <2> QED
      BY <1>9, <1>10, <2>1, <2>2 DEF Obeys
  <1>28. g[c + 5]["nr"] = IF call["nr"] = abi.clone THEN g[e + 3]["nr"] ELSE g[c + 6]["nr"]
    <2>1. c + 5 \in 1..(e + 6) /\ c + 5 + 1 + (9 + n) = e + 3 /\ c + 5 + 1 + 0 = c + 6
      BY <1>3, <1>11
    <2>2. p[c + 5] = Equal(abi.clone, 9 + n, 0)
      BY <1>4, Zenon DEF Listing
    <2> QED
      BY <1>9, <1>10, <2>1, <2>2 DEF Obeys
  <1>29. g[c + 4]["nr"] = "EPERM"
    <2>1. c + 4 \in 1..(e + 6)
      BY <1>3, <1>11
    <2>2. p[c + 4] = Ret("EPERM")
      BY <1>4, Zenon DEF Listing
    <2> QED
      BY <1>9, <1>10, <2>1, <2>2 DEF Obeys
  <1>30. g[c + 3]["nr"] = IF call["nr"] = abi.setns THEN g[c + 4]["nr"] ELSE g[c + 5]["nr"]
    <2>1. c + 3 \in 1..(e + 6) /\ c + 3 + 1 + 0 = c + 4 /\ c + 3 + 1 + 1 = c + 5
      BY <1>3, <1>11
    <2>2. p[c + 3] = Equal(abi.setns, 0, 1)
      BY <1>4, Zenon DEF Listing
    <2> QED
      BY <1>9, <1>10, <2>1, <2>2 DEF Obeys
  <1>31. g[c + 2]["nr"] = "ENOSYS"
    <2>1. c + 2 \in 1..(e + 6)
      BY <1>3, <1>11
    <2>2. p[c + 2] = Ret("ENOSYS")
      BY <1>4, Zenon DEF Listing
    <2> QED
      BY <1>9, <1>10, <2>1, <2>2 DEF Obeys
  <1>32. g[c + 1]["nr"] = IF call["nr"] = Clone3 THEN g[c + 2]["nr"] ELSE g[c + 3]["nr"]
    <2>1. c + 1 \in 1..(e + 6) /\ c + 1 + 1 + 0 = c + 2 /\ c + 1 + 1 + 1 = c + 3
      BY <1>3, <1>11
    <2>2. p[c + 1] = Equal(Clone3, 0, 1)
      BY <1>4, Zenon DEF Listing
    <2> QED
      BY <1>9, <1>10, <2>1, <2>2 DEF Obeys
  <1> DEFINE opens == \/ call["arg0"] = AF_UNIX
                      \/ loopback /\ call["arg0"] \in {AF_INET, AF_INET6}
             divides == (call["arg0"] \div CloneNewUser) % 2 = 1
             x32 == (call["nr"] \div X32Bit) % 2 = 1
  <1>33. g[c + 1]["nr"] =
          IF call["nr"] = Clone3 THEN "ENOSYS"
          ELSE IF call["nr"] = abi.setns THEN "EPERM"
          ELSE IF call["nr"] \in {abi.clone, abi.unshare}
          THEN (IF divides THEN "EPERM" ELSE "ALLOW")
          ELSE IF call["nr"] = IoUringSetup THEN "EPERM"
          ELSE IF call["nr"] \in {abi.socket, abi.socketpair}
          THEN (IF opens THEN "ALLOW" ELSE "EPERM")
          ELSE "ALLOW"
    <2> HIDE DEF opens, divides
    <2>1. g[e + 3]["nr"] = IF divides THEN "EPERM" ELSE "ALLOW"
      BY <1>18, Zenon DEF divides
    <2>2. g[d + 1]["arg0"] = IF opens THEN "ALLOW" ELSE "EPERM"
      BY <1>20, Zenon DEF opens
    <2>3. g[c + 7]["nr"] =
            IF call["nr"] = IoUringSetup THEN "EPERM"
            ELSE IF call["nr"] \in {abi.socket, abi.socketpair}
            THEN (IF opens THEN "ALLOW" ELSE "EPERM")
            ELSE "ALLOW"
      BY <1>26, <1>25, <1>24, <1>23, <1>22, <1>21, <2>2, Zenon
    <2> QED
      BY <1>32, <1>31, <1>30, <1>29, <1>28, <1>27, <2>1, <2>3, Zenon
  <1>34. g[3]["arch"] = "KILL"
    <2>1. 3 \in 1..(e + 6)
      BY <1>3, <1>11
    <2>2. p[3] = Ret("KILL")
      BY <1>4, Zenon DEF Listing
    <2> QED
      BY <1>9, <1>10, <2>1, <2>2 DEF Obeys
  <1>35. g[4]["arch"] = g[5]["nr"]
    <2>1. 4 \in 1..(e + 6) /\ 4 + 1 = 5
      BY <1>3, <1>11
    <2>2. p[4] = Load("nr")
      BY <1>4, Zenon DEF Listing
    <2> QED
      BY <1>9, <1>10, <2>1, <2>2 DEF Obeys
  <1>36. g[2]["arch"] = IF call["arch"] = abi.arch THEN g[4]["arch"] ELSE g[3]["arch"]
    <2>1. 2 \in 1..(e + 6) /\ 2 + 1 + 1 = 4 /\ 2 + 1 + 0 = 3
      BY <1>3, <1>11
    <2>2. p[2] = Equal(abi.arch, 1, 0)
      BY <1>4, Zenon DEF Listing
    <2> QED
      BY <1>9, <1>10, <2>1, <2>2 DEF Obeys
  <1>37. g[1]["arch"] = g[2]["arch"]
    <2>1. 1 \in 1..(e + 6) /\ 1 + 1 = 2
      BY <1>3, <1>11
    <2>2. p[1] = Load("arch")
      BY <1>4, Zenon DEF Listing
    <2> QED
      BY <1>9, <1>10, <2>1, <2>2 DEF Obeys
  <1>38. g[5]["nr"] = IF abi.x32 /\ x32 THEN "EPERM" ELSE g[c + 1]["nr"]
    <2>1. CASE abi.x32
      <3>1. c = 6
        BY <1>4, <2>1, Zenon DEF Listing
      <3>2. /\ 5 \in 1..(e + 6) /\ 6 \in 1..(e + 6)
            /\ 5 + 1 + 0 = 6 /\ 5 + 1 + 1 = c + 1
        BY <1>3, <3>1
      <3>3. p[5] = AnyBit(X32Bit, 0, 1) /\ p[6] = Ret("EPERM")
        BY <1>4, <3>1, Zenon DEF Listing
      <3> QED
        BY <1>9, <1>10, <2>1, <3>2, <3>3 DEF Obeys
    <2>2. CASE ~abi.x32
      <3>1. c = 4
        BY <1>4, <2>2, Zenon DEF Listing
      <3>2. c + 1 = 5
        BY <3>1
      <3> QED
        BY <2>2, <3>2, Zenon
    <2> QED
      BY <2>1, <2>2
  <1>39. Verdict(p, call) =
           IF call["arch"] # abi.arch THEN "KILL"
           ELSE IF abi.x32 /\ x32 THEN "EPERM" ELSE g[c + 1]["nr"]
    BY <1>8, <1>37, <1>36, <1>34, <1>35, <1>38, Zenon
  <1>40. /\ abi.clone # IoUringSetup /\ abi.unshare # IoUringSetup
         /\ abi.socket # IoUringSetup /\ abi.socketpair # IoUringSetup
         /\ {abi.clone, abi.unshare} \cap {abi.socket, abi.socketpair} = {}
    <2>1. CASE abi = X86_64
      BY <2>1 DEF X86_64, IoUringSetup
    <2>2. CASE abi = Aarch64
      BY <2>2 DEF Aarch64, IoUringSetup
    <2> QED
      BY <2>1, <2>2
  <1> HIDE DEF divides, x32
  <1>41. (IF Departs(abi, call) THEN "EPERM" ELSE Contract(abi, loopback, call)) =
           IF call["arch"] # abi.arch THEN "KILL"
           ELSE IF abi.x32 /\ x32 THEN "EPERM"
           ELSE IF call["nr"] = Clone3 THEN "ENOSYS"
           ELSE IF \/ call["nr"] \in {abi.setns, IoUringSetup}
                   \/ call["nr"] \in {abi.clone, abi.unshare} /\ divides
                   \/ call["nr"] \in {abi.socket, abi.socketpair} /\ ~opens
           THEN "EPERM" ELSE "ALLOW"
    BY DEF Departs, Contract, X32, divides, x32
  <1> HIDE DEF opens
  <1> QED
    BY <1>0, <1>33, <1>39, <1>40, <1>41, Zenon

-----------------------------------------------------------------------------
(* Where a fault says it happened *)

\* What places every fault: the stage is a pair, a filter is only ever loaded on
\* a machine it is written for, and a probe that reports a bypass met one.
Located ==
  /\ stage = <<stage[1], stage[2]>>
  /\ stage[2] \in {"select", "canaries", "start", "result"}
  /\ step \in {"spawn", "ready", "result", "unwound"} =>
       stage[1] \in {"candidate", "trusted"}
  /\ step \in {"ready", "result"} /\ host.platform = "linux" =>
       host.machine \in DOMAIN Abis
  /\ step \in {"select", "canaries"} => probe.code = "none"
  /\ step = "spawn" => probe.code \in {"none", "zero"}
  /\ step \in {"ready", "result"} /\ probe.code = "bypass" =>
       (IF Trusted THEN NetworkExit ELSE PolicyExit) = "bypass"
  /\ report.kind = "fault" => step = "done"
  /\ report.kind = "fault" /\ Running => report.code = "containment"
  /\ FaultLocated

LEMMA LeaksFixed == ASSUME host' = host PROVE Leaks' = Leaks
  <1>1. Targets' = Targets
    BY DEF Targets
  <1> QED
    BY <1>1 DEF Leaks

\* The filter refuses the probe's sockets, so one that gets through is a flaw of
\* the host.
LEMMA Refused ==
  ASSUME host.machine \in DOMAIN Abis
  PROVE  /\ \A family \in {AF_INET, AF_INET6} :
              Verdict(Filter(FALSE), Domain(family)) = "EPERM"
         /\ Verdict(Filter(TRUE), Domain(AF_VSOCK)) = "EPERM"
  <1>1. PICK abi : abi = Abis[host.machine]
    OBVIOUS
  <1>2. abi \in {X86_64, Aarch64}
    BY <1>1 DEF Abis
  <1>3. /\ abi.arch \in Nat /\ abi.socket \in {41, 198}
        /\ abi.socket \notin {abi.setns, abi.clone, abi.unshare}
    <2>1. CASE abi = X86_64
      BY <2>1 DEF X86_64
    <2>2. CASE abi = Aarch64
      BY <2>2 DEF Aarch64
    <2> QED
      BY <1>2, <2>1, <2>2
  <1>4. /\ AF_INET \in Nat /\ AF_INET6 \in Nat /\ AF_VSOCK \in Nat
        /\ AF_INET # AF_UNIX /\ AF_INET6 # AF_UNIX /\ AF_VSOCK # AF_UNIX
        /\ AF_VSOCK \notin {AF_INET, AF_INET6}
    BY DEF AF_INET, AF_INET6, AF_UNIX, AF_VSOCK
  <1>5. ASSUME NEW family \in Nat, family # AF_UNIX, NEW loopback \in BOOLEAN,
               loopback => family \notin {AF_INET, AF_INET6}
        PROVE  Verdict(Filter(loopback), Domain(family)) = "EPERM"
    <2>1. PICK call : call = [arch |-> abi.arch, nr |-> abi.socket, arg0 |-> family]
      OBVIOUS
    <2>2. /\ call \in [arch : Nat, nr : Nat, arg0 : Nat]
          /\ call.arch = abi.arch /\ call.nr = abi.socket /\ call.arg0 = family
      BY <1>3, <1>5, <2>1
    <2>3. Domain(family) = call /\ Filter(loopback) = Program(abi, loopback)
      BY <1>1, <2>1 DEF Domain, Filter
    <2>4. Verdict(Filter(loopback), Domain(family)) =
            IF Departs(abi, call) THEN "EPERM" ELSE Contract(abi, loopback, call)
      BY <1>2, <2>2, <2>3, FilterFaithful
    <2>5. (call.nr \div X32Bit) % 2 # 1 /\ call.nr # Clone3
      <3>1. 41 \div 1073741824 = 0 /\ 198 \div 1073741824 = 0 /\ 0 % 2 = 0
        OBVIOUS
      <3> QED
        BY <1>3, <2>2, <3>1 DEF X32Bit, Clone3
    <2> QED
      BY <1>5, <2>2, <2>4, <2>5 DEF Departs, Contract, X32
  <1> QED
    BY <1>4, <1>5

\* A probe that reports a bypass met a leak of the host.
LEMMA BypassLeaks ==
  ASSUME host.platform = "linux" => host.machine \in DOMAIN Abis,
         PolicyExit = "bypass" \/ NetworkExit = "bypass"
  PROVE  Leaks # {}
  <1> DEFINE hows == {"create_error", "used", "use_error"}
  <1>1. CASE PolicyExit = "bypass"
    <2> DEFINE odd == {k \in DOMAIN Attempts : Outcome(Attempts[k]) # "EPERM"}
               first == CHOOSE k \in odd : \A j \in odd : k <= j
    <2>1. odd # {}
      BY <1>1 DEF PolicyExit
    <2>2. odd \subseteq {1, 2, 3, 4}
      BY DEF Attempts
    <2>3. \E k \in odd : \A j \in odd : k <= j
      <3>1. \A k \in odd : k \in {1, 2, 3, 4}
        BY <2>2
      <3> HIDE DEF odd
      <3> QED
        BY <2>1, <3>1
    <2>4. first \in odd
      BY <2>3
    <2>5. /\ first \in {1, 2, 3, 4}
          /\ Outcome(Attempts[first]) # "EPERM"
      BY <2>2, <2>4
    <2>6. Attempts[first] \in DOMAIN Family /\ Family[Attempts[first]] \in {AF_INET, AF_INET6}
      <3> HIDE DEF first
      <3> QED
        BY <2>5 DEF Attempts, Family
    <2>7. PICK attempt \in DOMAIN Family :
            /\ Family[attempt] \in {AF_INET, AF_INET6}
            /\ Outcome(attempt) # "EPERM"
      BY <2>5, <2>6
    <2>8. \E how \in hows : Flawed(attempt, how)
      <3>1. host.platform = "linux" => Verdict(Filter(FALSE), Domain(Family[attempt])) = "EPERM"
        BY <2>7, Refused
      <3> QED
        BY <2>7, <3>1 DEF Outcome
    <2> QED
      BY <2>8 DEF Leaks, Flawed
  <1>2. CASE NetworkExit = "bypass"
    <2>1. PICK who \in {"probe", "grandchild"} : ~Blocked(who)
      BY <1>2 DEF NetworkExit
    <2>2. CASE host.platform = "linux" /\ ~DomainFiltered
      <3>1. Verdict(Filter(TRUE), Domain(AF_VSOCK)) = "EPERM"
        BY <2>2, Refused
      <3>2. <<"host", "no_vsock">> \in host.flaws
        BY <2>2, <3>1 DEF DomainFiltered, Flawed
      <3> QED
        BY <2>2, <3>2 DEF Leaks
    <2>3. CASE \E target \in Targets : Flawed(who, target)
      BY <2>3 DEF Leaks, Flawed
    <2> QED
      BY <2>1, <2>2, <2>3 DEF Blocked
  <1> QED
    BY <1>1, <1>2

\* A fault that names where the preflight stands.
LEMMA RaiseLocates ==
  ASSUME IInv, Located, NEW code \in NetworkFaults, NEW reason,
         Raise(code, <<stage[1], reason>>), UNCHANGED <<host, stage>>,
         probe'.code = probe.code, probe'.said = probe.said, ~Running',
         code = "bypass" => reason = "result" /\ Leaks # {},
         code = "unsupported" => probe.code # "bypass",
         reason = "loopback-rtnetlink-eperm" =>
           probe.said = "rtnetlink" /\ host.platform = "linux"
  PROVE  Located'
  <1>1. /\ step' = "done" /\ report' = [kind |-> "fault", code |-> code,
                                        stage |-> <<stage[1], reason>>]
    BY DEF Raise, End
  <1>2. /\ report'.kind = "fault" /\ report'.code = code
        /\ report'.stage = <<stage[1], reason>> /\ report'.stage[1] = stage[1]
        /\ report'.stage[2] = reason /\ report'.stage # <<>>
        /\ code # "containment"
    BY <1>1 DEF NetworkFaults
  <1>3. Trusted' = Trusted /\ Leaks' = Leaks /\ PolicyExit' = PolicyExit
    BY HostFixed, LeaksFixed DEF Trusted
  <1>4. Trusted => PolicyExit = "zero"
    BY DEF IInv
  <1>5. FaultLocated'
    BY <1>2, <1>3, <1>4 DEF FaultLocated
  <1> QED
    BY <1>1, <1>5 DEF Located

\* A refused kill names none.
LEMMA RefusedLocates ==
  ASSUME IInv, Located, Raise("containment", <<>>), UNCHANGED <<host, stage>>
  PROVE  Located'
  <1>1. /\ step' = "done" /\ report'.kind = "fault" /\ report'.code = "containment"
        /\ report'.stage = <<>>
    BY DEF Raise, End, NetworkFaults
  <1>2. Trusted' = Trusted /\ PolicyExit' = PolicyExit
    BY HostFixed DEF Trusted
  <1>3. Trusted => PolicyExit = "zero"
    BY DEF IInv
  <1>4. FaultLocated'
    BY <1>1, <1>2, <1>3 DEF FaultLocated
  <1> QED
    BY <1>1, <1>4 DEF Located

\* A fault while the probe is watched.
LEMMA KillLocates ==
  ASSUME IInv, Located, NEW reason,
         KillThen(Raise("setup_failed", <<stage[1], reason>>)),
         UNCHANGED <<host, stage>>,
         reason = "loopback-rtnetlink-eperm" =>
           probe.said = "rtnetlink" /\ host.platform = "linux"
  PROVE  Located'
  <1>1. CASE Raise("containment", <<>>)
    BY <1>1, RefusedLocates
  <1>2. CASE Raise("setup_failed", <<stage[1], reason>>) /\ UNCHANGED probe /\ ~Running
    <2>1. ~Running'
      BY <1>2 DEF Running
    <2> QED
      BY <1>2, <2>1, RaiseLocates DEF NetworkFaults
  <1>3. CASE /\ Raise("setup_failed", <<stage[1], reason>>)
             /\ probe' = [probe EXCEPT !.state = "killed"]
    <2>1. probe'.code = probe.code /\ probe'.said = probe.said /\ ~Running'
      BY <1>3 DEF IInv, IsProbe, Running
    <2> QED
      BY <1>3, <2>1, RaiseLocates DEF NetworkFaults
  <1> QED
    BY <1>1, <1>2, <1>3 DEF KillThen

\* An end that is no fault, or a step before any.
LEMMA QuietLocates ==
  ASSUME report'.kind # "fault"
  PROVE  FaultLocated'
  BY DEF FaultLocated

LEMMA LocatedStarts == Init => Located
  <1> SUFFICES ASSUME Init PROVE Located
    OBVIOUS
  <1>1. /\ step = "select" /\ stage = <<"sandbox", "select">>
        /\ probe.code = "none" /\ report.kind = "none_yet"
    BY DEF Init, NoProbe, NoReport
  <1>2. stage[1] = "sandbox" /\ stage[2] = "select"
    BY <1>1
  <1> QED
    BY <1>1, <1>2 DEF Located, FaultLocated

LEMMA SelectLocates == IInv /\ Located /\ Select => Located'
  <1> SUFFICES ASSUME IInv, Located, Select PROVE Located'
    OBVIOUS
  <1>1. /\ step = "select" /\ UNCHANGED <<host, probe>> /\ probe.code = "none"
        /\ report.kind # "fault" /\ stage = <<stage[1], stage[2]>>
        /\ stage[2] # "loopback-rtnetlink-eperm" /\ ~Running'
    BY DEF Select, Located, IInv, Running
  <1>2. CASE (\E kind \in {"unisolated", "untyped"} : End(kind, "none", <<>>)) /\ UNCHANGED stage
    <2>1. step' = "done" /\ report'.kind \in {"unisolated", "untyped"}
      BY <1>2 DEF End
    <2> QED
      BY <1>1, <1>2, <2>1, QuietLocates DEF Located
  <1>3. CASE \E code \in {"unsupported", "unavailable"} : Raise(code, stage) /\ UNCHANGED stage
    BY <1>1, <1>3, RaiseLocates DEF NetworkFaults
  <1>4. CASE /\ step' = "canaries" /\ stage' = <<"host", "canaries">>
             /\ UNCHANGED <<held, report>>
    <2>1. stage'[1] = "host" /\ stage'[2] = "canaries" /\ FaultLocated'
      BY <1>1, <1>4, QuietLocates
    <2> QED
      BY <1>1, <1>4, <2>1 DEF Located
  <1> QED
    BY <1>2, <1>3, <1>4 DEF Select

LEMMA CanariesLocates == IInv /\ Located /\ Canaries => Located'
  <1> SUFFICES ASSUME IInv, Located, Canaries PROVE Located'
    OBVIOUS
  <1>1. /\ step = "canaries" /\ UNCHANGED <<host, probe>> /\ probe.code = "none"
        /\ report.kind # "fault" /\ stage = <<stage[1], stage[2]>>
        /\ stage[2] # "loopback-rtnetlink-eperm" /\ ~Running'
    BY DEF Canaries, Located, IInv, Running
  <1>2. CASE \E code \in {"unsupported", "setup_failed"} : Raise(code, stage) /\ UNCHANGED stage
    BY <1>1, <1>2, RaiseLocates DEF NetworkFaults
  <1>3. CASE /\ step' = "spawn" /\ stage' = <<"candidate", "start">>
             /\ UNCHANGED report
    <2>1. stage'[1] = "candidate" /\ stage'[2] = "start" /\ FaultLocated'
      BY <1>1, <1>3, QuietLocates
    <2> QED
      BY <1>1, <1>3, <2>1 DEF Located
  <1> QED
    BY <1>2, <1>3 DEF Canaries

LEMMA SpawnLocates == IInv /\ Located /\ Spawn => Located'
  <1> SUFFICES ASSUME IInv, Located, Spawn PROVE Located'
    OBVIOUS
  <1>1. /\ step = "spawn" /\ UNCHANGED <<host, stage>> /\ probe.code # "bypass"
        /\ report.kind # "fault" /\ stage = <<stage[1], stage[2]>>
        /\ stage[2] # "loopback-rtnetlink-eperm"
        /\ stage[1] \in {"candidate", "trusted"} /\ ~Running
    BY DEF Spawn, Located, IInv
  <1>2. CASE /\ \E code \in {"unsupported", "unavailable", "setup_failed"} : Raise(code, stage)
             /\ UNCHANGED probe
    BY <1>1, <1>2, RaiseLocates DEF NetworkFaults, Running
  <1>3. CASE Raise("setup_failed", StartupStage("create")) /\ UNCHANGED probe
    BY <1>1, <1>3, RaiseLocates DEF NetworkFaults, StartupStage, Running
  <1>4. CASE /\ host.platform = "darwin" \/ host.machine \in DOMAIN Abis
             /\ probe' = [NoProbe EXCEPT !.state = "starting"]
             /\ step' = "ready" /\ UNCHANGED report
    <2>1. probe'.code = "none" /\ FaultLocated'
      BY <1>1, <1>4, QuietLocates DEF NoProbe
    <2>2. host.platform = "linux" => host.machine \in DOMAIN Abis
      BY <1>4
    <2> QED
      BY <1>1, <1>4, <2>1, <2>2 DEF Located
  <1> QED
    BY <1>2, <1>3, <1>4 DEF Spawn

LEMMA ProbeLocates == IInv /\ Located /\ Probe => Located'
  <1> SUFFICES ASSUME IInv, Located, Probe PROVE Located'
    OBVIOUS
  <1>1. UNCHANGED <<host, step, stage, report>> /\ Trusted' = Trusted
    BY DEF Probe, ProbeStep, Trusted
  <1>2. Running /\ step \notin {"select", "canaries", "spawn"}
    BY DEF Probe, ProbeStep, LauncherSpeaks, ProbeReady, ProbeRefuses, ProbeCrashes,
           ProbeWrites, ProbeProves, Running, IInv
  <1>3. probe'.code = "bypass" =>
          \/ probe.code = "bypass"
          \/ (IF Trusted THEN NetworkExit ELSE PolicyExit) = "bypass"
    <2>1. IsProbe
      BY DEF IInv
    <2>2. CASE LauncherSpeaks
      <3>1. PICK said : probe' = [probe EXCEPT !.said = said]
        BY <2>2 DEF LauncherSpeaks
      <3> QED
        BY <2>1, <3>1 DEF IsProbe
    <2>3. CASE ProbeReady
      BY <2>1, <2>3 DEF ProbeReady, IsProbe
    <2>4. CASE ProbeRefuses
      BY <2>1, <2>4 DEF ProbeRefuses, IsProbe
    <2>5. CASE ProbeCrashes
      BY <2>1, <2>5 DEF ProbeCrashes, IsProbe
    <2>6. CASE ProbeProves
      BY <2>1, <2>6 DEF ProbeProves, IsProbe
    <2>7. CASE ProbeWrites
      BY <2>1, <2>7 DEF ProbeWrites, IsProbe
    <2> QED
      BY <2>2, <2>3, <2>4, <2>5, <2>6, <2>7 DEF Probe, ProbeStep
  <1>4. FaultLocated'
    <2>1. CASE report.kind # "fault"
      BY <1>1, <2>1, QuietLocates
    <2>2. CASE report.kind = "fault"
      <3>1. report.code = "containment"
        BY <1>2, <2>2 DEF Located
      <3>2. report.stage = <<>>
        BY <2>2, <3>1 DEF Located, FaultLocated
      <3>3. Trusted => PolicyExit = "zero"
        BY DEF IInv
      <3> QED
        BY <1>1, <2>2, <3>1, <3>2, <3>3, HostFixed DEF FaultLocated
    <2> QED
      BY <2>1, <2>2
  <1>5. report.kind = "fault" => report.code = "containment"
    BY <1>2 DEF Located
  <1> QED
    BY <1>1, <1>2, <1>3, <1>4, <1>5, HostFixed DEF Located

LEMMA AwaitReadyLocates == IInv /\ Located /\ AwaitReady => Located'
  <1> SUFFICES ASSUME IInv, Located, AwaitReady PROVE Located'
    OBVIOUS
  <1>1. /\ step = "ready" /\ step' = "result" /\ stage' = <<stage[1], "result">>
        /\ UNCHANGED <<host, probe, report>> /\ report.kind # "fault"
    BY DEF AwaitReady, Located
  <1>2. stage'[1] = stage[1] /\ stage'[2] = "result" /\ Trusted' = Trusted /\ FaultLocated'
    BY <1>1, QuietLocates DEF Trusted
  <1> QED
    BY <1>1, <1>2, HostFixed DEF Located

LEMMA ResultTimeoutLocates == IInv /\ Located /\ ResultTimeout => Located'
  <1> SUFFICES ASSUME IInv, Located, ResultTimeout PROVE Located'
    OBVIOUS
  <1>1. /\ step = "result" /\ step' = "unwound"
        /\ UNCHANGED <<host, stage, probe, report>> /\ report.kind # "fault"
    BY DEF ResultTimeout, Located
  <1>2. Trusted' = Trusted /\ FaultLocated'
    BY <1>1, QuietLocates DEF Trusted
  <1> QED
    BY <1>1, <1>2, HostFixed DEF Located

LEMMA WatchLocates ==
  IInv /\ Located /\ (ReadyTimeout \/ ReadyEnds \/ ReadyOutput \/ KillTimedOut) => Located'
  <1> SUFFICES ASSUME IInv, Located, ReadyTimeout \/ ReadyEnds \/ ReadyOutput \/ KillTimedOut
               PROVE  Located'
    OBVIOUS
  <1>1. stage = <<stage[1], stage[2]>> /\ stage[2] # "loopback-rtnetlink-eperm"
    BY DEF Located
  <1>2. CASE ReadyTimeout \/ ReadyEnds
    BY <1>2, KillLocates DEF ReadyTimeout, ReadyEnds, StartFault, StartupStage
  <1>3. CASE ReadyOutput
    <2>1. Observation = "loopback-rtnetlink-eperm" =>
            probe.said = "rtnetlink" /\ host.platform = "linux"
      BY DEF Observation
    <2> QED
      BY <1>3, <2>1, KillLocates DEF ReadyOutput, StartFault, StartupStage
  <1>4. CASE KillTimedOut
    BY <1>1, <1>4, KillLocates DEF KillTimedOut
  <1> QED
    BY <1>2, <1>3, <1>4

LEMMA CandidateResultLocates == IInv /\ Located /\ CandidateResult => Located'
  <1> SUFFICES ASSUME IInv, Located, CandidateResult PROVE Located'
    OBVIOUS
  <1>1. /\ step = "result" /\ ~Trusted /\ UNCHANGED <<host, probe>>
        /\ stage = <<stage[1], stage[2]>> /\ stage[1] = "candidate"
        /\ stage[2] = "result" /\ report.kind # "fault" /\ ~Running'
    BY DEF CandidateResult, Located, Trusted, IInv, Running
  <1>2. CASE Raise("setup_failed", stage) /\ UNCHANGED stage
    BY <1>1, <1>2, RaiseLocates DEF NetworkFaults
  <1>3. CASE probe.code = "bypass" /\ Raise("bypass", stage) /\ UNCHANGED stage
    <2>1. Leaks # {}
      BY <1>1, <1>3, BypassLeaks DEF Located
    <2> QED
      BY <1>1, <1>3, <2>1, RaiseLocates DEF NetworkFaults
  <1>4. CASE probe.code # "bypass" /\ Raise("unsupported", PolicyStage) /\ UNCHANGED stage
    <2>1. PICK reason : /\ PolicyStage = <<"candidate", reason>>
                        /\ reason # "loopback-rtnetlink-eperm"
      BY DEF PolicyStage
    <2> QED
      BY <1>1, <1>4, <2>1, RaiseLocates DEF NetworkFaults
  <1>5. CASE /\ probe.code = "zero" /\ step' = "spawn" /\ stage' = <<"trusted", "start">>
             /\ UNCHANGED <<held, report>>
    <2>1. stage'[1] = "trusted" /\ stage'[2] = "start" /\ FaultLocated'
      BY <1>1, <1>5, QuietLocates
    <2> QED
      BY <1>1, <1>5, <2>1 DEF Located
  <1> QED
    BY <1>2, <1>3, <1>4, <1>5 DEF CandidateResult

LEMMA TrustedResultLocates == IInv /\ Located /\ TrustedResult => Located'
  <1> SUFFICES ASSUME IInv, Located, TrustedResult PROVE Located'
    OBVIOUS
  <1>1. /\ step = "result" /\ Trusted /\ UNCHANGED <<host, stage, probe>>
        /\ stage = <<stage[1], stage[2]>> /\ stage[2] = "result" /\ ~Running'
    BY DEF TrustedResult, Located, IInv, Running
  <1>2. CASE Raise("setup_failed", stage)
    BY <1>1, <1>2, RaiseLocates DEF NetworkFaults
  <1>3. CASE probe.code = "bypass" /\ Raise("bypass", stage)
    <2>1. Leaks # {}
      BY <1>1, <1>3, BypassLeaks DEF Located
    <2> QED
      BY <1>1, <1>3, <2>1, RaiseLocates DEF NetworkFaults
  <1>4. CASE End("sandbox", "none", <<>>)
    <2>1. step' = "done" /\ report'.kind = "sandbox" /\ FaultLocated'
      BY <1>4, QuietLocates DEF End
    <2> QED
      BY <1>1, <2>1 DEF Located
  <1> QED
    BY <1>2, <1>3, <1>4 DEF TrustedResult

LEMMA CancelLocates == IInv /\ Located /\ Cancel => Located'
  <1> SUFFICES ASSUME IInv, Located, Cancel PROVE Located'
    OBVIOUS
  <1>1. UNCHANGED <<host, stage>>
    BY DEF Cancel
  <1>2. CASE Raise("containment", <<>>)
    BY <1>1, <1>2, RefusedLocates
  <1>3. CASE End("cancelled", "none", stage)
    <2>1. step' = "done" /\ report'.kind = "cancelled" /\ FaultLocated'
      BY <1>3, QuietLocates DEF End
    <2> QED
      BY <1>1, <2>1 DEF Located
  <1> QED
    BY <1>2, <1>3 DEF Cancel, KillThen

LEMMA StutterLocates == Located /\ UNCHANGED vars => Located'
  <1> SUFFICES ASSUME Located, UNCHANGED vars PROVE Located'
    OBVIOUS
  <1>1. UNCHANGED <<host, step, stage, probe, report>> /\ Trusted' = Trusted
    BY DEF vars, Trusted
  <1>2. /\ PolicyExit' = PolicyExit /\ NetworkExit' = NetworkExit
        /\ Leaks' = Leaks /\ Running' = Running
    BY <1>1, HostFixed, LeaksFixed DEF Running
  <1>3. FaultLocated'
    BY <1>1, <1>2 DEF Located, FaultLocated
  <1> QED
    BY <1>1, <1>2, <1>3 DEF Located

\* Every step that ends with a fault places it, and no step of a probe that
\* survived moves it afterwards.
LEMMA LocatedSteps == IInv /\ Located /\ [Next]_vars => Located'
  BY SelectLocates, CanariesLocates, SpawnLocates, AwaitReadyLocates,
     ResultTimeoutLocates, WatchLocates,
     CandidateResultLocates, TrustedResultLocates, ProbeLocates, CancelLocates,
     StutterLocates
  DEF Next, Harness, Done

LEMMA Placed == Spec => []Located
  <1>1. IInv /\ Located /\ [Next]_vars => Located'
    BY LocatedSteps
  <1> QED
    BY <1>1, LocatedStarts, Invariance, PTL DEF Spec

\* A network fault names the stage the preflight stood in, a bypass only where
\* the host leaks: the filter itself never lets the probe through.
THEOREM FaultsPlaced == Spec => []FaultLocated
  <1>1. Located => FaultLocated
    BY DEF Located
  <1> QED
    BY <1>1, Placed, PTL

\* Whenever a probe starts on Linux, its filter answers as the contract in front
\* of the program says, an x32 call apart, which it refuses and does not kill.
THEOREM FilterIsPolicy == Spec => []FilterExact
  <1>1. Located => FilterExact
    <2> SUFFICES ASSUME Located, step = "ready", host.platform = "linux", NEW call \in Calls
                 PROVE  Verdict(Filter(Trusted), call) =
                          IF Departs(Abis[host.machine], call) THEN "EPERM"
                          ELSE Contract(Abis[host.machine], Trusted, call)
      BY DEF FilterExact
    <2>1. host.machine \in DOMAIN Abis
      BY DEF Located
    <2>2. Abis[host.machine] \in {X86_64, Aarch64}
      BY <2>1 DEF Abis
    <2>3. call \in [arch : Nat, nr : Nat, arg0 : Nat]
      BY DEF Calls, AF_UNIX, AF_INET, AF_INET6, AF_VSOCK, CloneNewUser, X32Bit,
             IoUringSetup, Clone3
    <2>4. Trusted \in BOOLEAN
      BY DEF Trusted
    <2> QED
      BY <2>2, <2>3, <2>4, FilterFaithful DEF Filter
  <1> QED
    BY <1>1, Placed, PTL
=============================================================================
