---------------------------- MODULE MCDeployment ----------------------------
(* Two operators and two pids. *)
EXTENDS Deployment

CONSTANTS o1, o2, p1, p2

MCOperators == {o1, o2}
MCPids == {p1, p2}
=============================================================================
