---------------------------- MODULE MCProofLane ----------------------------
(* Two heads, one of them of documentation only. *)
EXTENDS ProofLane

\* What is relevant is so against every base.
Everywhere == Bases \X {"code"}

\* Against the second base the documentation is behind in more than that.
OneOf == Everywhere \cup {<<"b2", "docs">>}
=============================================================================
