--------------------------- MODULE MCGovernedRun ---------------------------
(* Three checks, the second needs the first; one content is too long. *)
EXTENDS GovernedRun

InOrder == [c \in 1..3 |-> IF c = 2 THEN {1} ELSE {}]
Listed == <<1, 2, 3>>
Sizes == [content \in {"empty", "line", "flood"} |->
            CASE content = "empty" -> 0 [] content = "line" -> 1 [] OTHER -> 2]
=============================================================================
