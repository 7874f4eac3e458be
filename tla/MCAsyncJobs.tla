------------------------------ MODULE MCAsyncJobs ------------------------------
(* Small instances of AsyncJobs for TLC. *)
EXTENDS AsyncJobs, TLC

CONSTANTS j1, j2, i1, i2, u1

MCJobs == {j1, j2}
MCInstances == {i1, i2}
MCUsers == {u1}

\* j2 has no creator.
MCCreatedBy == [j \in MCJobs |-> IF j = j1 THEN u1 ELSE None]
AllCreatedByUser == [j \in MCJobs |-> u1]

InstanceSymmetry == Permutations(MCInstances)
================================================================================
