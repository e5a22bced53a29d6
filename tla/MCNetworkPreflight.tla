------------------------- MODULE MCNetworkPreflight -------------------------
(* Every platform, with at most one flaw of the host beside a refused kill. *)
EXTENDS NetworkPreflight

Flaws ==
  ({"host"} \X {"unlink_refused", "launcher_untrusted", "launcher_replaced",
   "no_route", "canary_unreachable",
   "identity_kept", "no_write", "no_loopback", "no_vsock"})
  \cup ((DOMAIN Family)
          \X {"create_error", "used", "use_error"})
  \cup ({"probe", "grandchild"} \X {"tcp", "mapped", "native", "udp", "unix"})

Machines ==
  ({"linux"} \X {"x86_64", "aarch64", "riscv64"}) \cup
  {<<"darwin", "arm64">>, <<"win32", "x86_64">>}

Flawless == {{}, {<<"host", "kill_refused">>}}

MCHosts ==
  [platform : {"linux", "darwin"}, machine : {"x86_64"}, isolated : BOOLEAN,
   native6 : {"present", "absent", "error"}, flaws : {{}}]
  \cup {[platform |-> m[1], machine |-> m[2], isolated |-> TRUE, native6 |-> n,
         flaws |-> f] :
          m \in Machines, n \in {"present", "absent"},
          f \in Flawless \cup {s \cup {x} : s \in Flawless, x \in Flaws}}
=============================================================================
