----------------------------- MODULE MCScheduledOps -----------------------------
(* Small instances of ScheduledOps for TLC. *)
EXTENDS ScheduledOps, TLC

CONSTANTS o1, o2, i1, i2

MCOps == {o1, o2}
MCInstances == {i1, i2}
OneInstance == {i1}

\* o1 has a time, o2 waits for users.
OneTimeOp == {o1}
LessOrEqual == [o \in {o2} |-> "LE"]
GreaterOrEqual == [o \in {o2} |-> "GE"]

InstanceSymmetry == Permutations(MCInstances)
================================================================================
