--------------------------- MODULE SeccompFilter ---------------------------
(***************************************************************************)
(* The classic-BPF program _linux_seccomp_program assembles for Bubblewrap,*)
(* and the kernel that interprets it.  Architecture numbers are written    *)
(* without their flag bits; the first system call argument is the low word *)
(* the program loads.                                                      *)
(***************************************************************************)
EXTENDS Naturals, Sequences

AF_UNIX == 1
AF_INET == 2
AF_INET6 == 10
AF_VSOCK == 40
CloneNewUser == 268435456 \* CLONE_NEWUSER
X32Bit == 1073741824      \* __X32_SYSCALL_BIT
IoUringSetup == 425
Clone3 == 435

X86_64 == [arch |-> 62, socket |-> 41, socketpair |-> 53, clone |-> 56,
           unshare |-> 272, setns |-> 308, x32 |-> TRUE]
Aarch64 == [arch |-> 183, socket |-> 198, socketpair |-> 199, clone |-> 220,
            unshare |-> 97, setns |-> 268, x32 |-> FALSE]

Abis == [x86_64 |-> X86_64, aarch64 |-> Aarch64, arm64 |-> Aarch64]

Load(field) == [op |-> "load", k |-> field]
Equal(k, jt, jf) == [op |-> "equal", k |-> k, jt |-> jt, jf |-> jf]
AnyBit(k, jt, jf) == [op |-> "any", k |-> k, jt |-> jt, jf |-> jf]
Ret(verdict) == [op |-> "ret", k |-> verdict]

\* The socket domains a profile may open.
Domains(loopback) ==
  IF loopback THEN <<AF_UNIX, AF_INET, AF_INET6>> ELSE <<AF_UNIX>>

\* Mutant of Over: the distance for the candidate's one domain.
Over_Candidate(n) == 9

\* How far unshare's test jumps, over the socket part, whose length depends on
\* the number of domains; clone's test stands one instruction before.
Over(n) == 8 + n

\* The instructions, with the jump offsets of the code.
Program(abi, loopback) ==
  LET domains == Domains(loopback)
      n == Len(domains) IN
  <<Load("arch"), Equal(abi.arch, 1, 0), Ret("KILL"), Load("nr")>>
  \o (IF abi.x32 THEN <<AnyBit(X32Bit, 0, 1), Ret("EPERM")>> ELSE <<>>)
  \o <<Equal(Clone3, 0, 1), Ret("ENOSYS"),
       Equal(abi.setns, 0, 1), Ret("EPERM"),
       Equal(abi.clone, 1 + Over(n), 0), Equal(abi.unshare, Over(n), 0),
       Equal(IoUringSetup, 0, 1), Ret("EPERM"),
       Equal(abi.socket, 2, 0), Equal(abi.socketpair, 1, 0), Ret("ALLOW"),
       Load("arg0")>>
  \o [i \in 1..n |-> Equal(domains[i], n + 1 - i, 0)]
  \o <<Ret("EPERM"), Ret("ALLOW"),
       Load("arg0"), AnyBit(CloneNewUser, 0, 1), Ret("EPERM"), Ret("ALLOW")>>

\* What the instruction at pc answers for a system call, with field f in the
\* accumulator, if run[q][g] is the answer from a later instruction q on.
Answer(program, call, run, pc, f) ==
  LET i == program[pc]
      taken == \/ i.op = "equal" /\ call[f] = i.k
               \/ i.op = "any" /\ (call[f] \div i.k) % 2 = 1
  IN CASE i.op = "load" -> run[pc + 1][i.k]
       [] i.op = "ret" -> i.k
       [] OTHER -> run[pc + 1 + (IF taken THEN i.jt ELSE i.jf)][f]

\* What the kernel answers to a system call, call = [arch, nr, arg0].
Verdict(program, call) ==
  LET run[pc \in DOMAIN program] ==
        [f \in DOMAIN call |-> Answer(program, call, run, pc, f)]
  IN run[1]["arch"]

-----------------------------------------------------------------------------
X32(abi, call) == abi.x32 /\ (call.nr \div X32Bit) % 2 = 1

\* The contract in front of the program, told without an order of tests: an
\* unexpected ABI and an x32 call are killed.
Contract(abi, loopback, call) ==
  IF call.arch # abi.arch \/ X32(abi, call) THEN "KILL"
  ELSE IF call.nr = Clone3 THEN "ENOSYS"
  ELSE IF \/ call.nr \in {abi.setns, IoUringSetup}
          \/ /\ call.nr \in {abi.clone, abi.unshare}
             /\ (call.arg0 \div CloneNewUser) % 2 = 1
          \/ /\ call.nr \in {abi.socket, abi.socketpair}
             /\ call.arg0 # AF_UNIX
             /\ loopback => call.arg0 \notin {AF_INET, AF_INET6}
  THEN "EPERM" ELSE "ALLOW"

\* The one departure from the contract, which the program's test demands: an
\* x32 call of the machine's own architecture is refused and not killed.
Departs(abi, call) == call.arch = abi.arch /\ X32(abi, call)
=============================================================================
