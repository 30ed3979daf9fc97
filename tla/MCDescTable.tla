---------------------------- MODULE MCDescTable ----------------------------
(* An instance of DescTable for TLC.                                       *)
EXTENDS DescTable, TLC

MCMakeArgs == {<<[kind |-> "sock", res |-> "S"], [kind |-> "sock", res |-> "T"]>>}
MCSendArgs == {<<>>, <<2, 3>>, <<3, -1>>}
MCWaitArgs == {<<2, 3>>}
MCConnectArgs == {2, 3}
MCRecvArgs == {1, 2}
MCFaults == {"buffer", "object", "ctor"}

Threads == Permutations(Thread)
============================================================================
