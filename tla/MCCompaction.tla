---------------------------- MODULE MCCompaction ----------------------------
(* Constants of Compaction for TLC.                                         *)
EXTENDS Compaction

MCToolSets == {{"work"}, {"compact"}, {"work", "compact"}}
MCLimits == [send |-> 2, round |-> 2, record |-> 2, idle |-> 2, other |-> 1]
=============================================================================
