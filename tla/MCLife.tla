------------------------------- MODULE MCLife -------------------------------
(* Life for TLC: a parent that catches SIGCHLD and two children, one that  *)
(* is stopped and continued and one that is killed.                        *)
EXTENDS Life

CONSTANTS parent, child1, child2, killer, worker

Untraced == {{"stopped"}}
JobsAndKill == {<<child1, "stop">>, <<child1, "cont">>, <<child2, "kill">>}
=============================================================================
