---------------------------- MODULE PluginBundle ----------------------------
(***************************************************************************)
(* What the tools of the plugin share: the installed bundle and the files  *)
(* around it, which others may replace while a tool runs, and the frame of *)
(* the procedure that runs, one read of one file per step.  A file holds   *)
(* what release v1 or v2 ships under its name, something else, or bytes    *)
(* whose error its reader does not catch ("garbled": no UTF-8, or JSON     *)
(* that is no object); or it is missing or odd: no regular file or         *)
(* directory as expected and, if its bytes are pinned, also a symbolic     *)
(* link or a file too large.                                               *)
(***************************************************************************)
EXTENDS Naturals, Sequences

CONSTANTS
  Setups \* the runs: [tool, files, flaws, down, changes, limit]

VARIABLES
  setup,   \* this run
  files,   \* [name -> content]
  down,    \* services of the network that do not answer
  updates, \* how many times something was replaced during the run
  stage,   \* the tool's statement
  call,    \* the procedure it has called
  ran,     \* history: what was executed, [what, verified, bytes]
  exit     \* the tool's exit code

NoExit == 256 \* still running
Intact == {"v1", "v2"}
Flawed(what) == what \in setup.flaws

NoCall == [proc |-> "none", step |-> 0, sel |-> "none", want |-> "none",
           target |-> "none", bytes |-> "none", result |-> "none", code |-> 0]

Call(proc, want, target) ==
  call' = [NoCall EXCEPT !.proc = proc, !.step = 1, !.want = want,
                         !.target = target]
Return(result) == call' = [call EXCEPT !.step = 0, !.result = result]
Advance(sel) == call' = [call EXCEPT !.step = @ + 1, !.sel = sel]
Returned(proc) == call.proc = proc /\ call.step = 0

Executed(what, verified, bytes) ==
  ran' = ran \cup {[what |-> what, verified |-> verified, bytes |-> bytes]}
=============================================================================
