---------------------------- MODULE MCHarnessRun ----------------------------
(* Plans for model checking HarnessRun. *)
EXTENDS HarnessRun

\* A dependency chain beside an independent check.
ChainAndOne ==
  [c \in {"build", "lint", "test"} |-> IF c = "test" THEN {"build"} ELSE {}]

\* Two checks, one of which needs the other.
Pair == [c \in {"build", "test"} |-> IF c = "test" THEN {"build"} ELSE {}]
=============================================================================
