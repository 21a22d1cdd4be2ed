---------------------------- MODULE MCGrainLease ----------------------------
(* Instances of GrainLease for TLC.                                        *)
EXTENDS GrainLease, TLC

CONSTANTS n1, n2

(* Two nodes with failing I/O, or one node without.  In Redis, where the   *)
(* generations start again with each key, auto-persist is off.             *)
Shared(d, p) == [driver |-> d, nodes |-> {n1, n2}, ioFails |-> TRUE, persist |-> p]
Alone(d) == [driver |-> d, nodes |-> {n1}, ioFails |-> FALSE, persist |-> 1]
MCDeployments == {Shared("mongo", 1), Shared("redis", 0), Alone("mongo"), Alone("file")}
=============================================================================
