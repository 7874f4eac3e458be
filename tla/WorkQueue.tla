------------------------------- MODULE WorkQueue -------------------------------
(***************************************************************************)
(* What the two executors promise to those who hand work to them, whatever  *)
(* the number of controller instances: an item is worked on by one worker   *)
(* at a time, it is put back only when nobody works on it or before the     *)
(* worker has done anything, and what is finished stays finished.  Workers  *)
(* may vanish at any time, and a worker may find that it cannot store its   *)
(* result.  AsyncJobs and ScheduledOps implement this.                      *)
(***************************************************************************)
CONSTANT Items

VARIABLE state

States ==
    {"absent",
     "waiting",
     "held",      \* a worker has it and has done nothing yet
     "acted",     \* a worker has it and has done the work
     "orphaned",  \* it is claimed and nobody works on it
     "finished"}

Init == state = [x \in Items |-> "absent"]

\* Every item of S goes from one of the states `from` to the state `to`.
Move(S, from, to) ==
    /\ \A x \in S : state[x] \in from
    /\ state' = [x \in Items |-> IF x \in S THEN to ELSE state[x]]

Submit(x) == Move({x}, {"absent"}, "waiting")
Withdraw(x) == Move({x}, {"waiting"}, "finished")
Act(x) == Move({x}, {"held"}, "acted")
PutBack(x) == Move({x}, {"held"}, "waiting")
Finish(x) == Move({x}, {"held", "acted"}, "finished")

\* A statement claims or releases several items at once, and a process takes all of
\* its workers with it.
Take(S) == Move(S, {"waiting"}, "held")
TakeUnanswered(S) == Move(S, {"waiting"}, "orphaned")
Vanish(S) == Move(S, {"held", "acted"}, "orphaned")
Release(S) == Move(S, {"orphaned"}, "waiting")

Next ==
    \/ \E x \in Items : Submit(x) \/ Withdraw(x) \/ Act(x) \/ PutBack(x) \/ Finish(x)
    \/ \E S \in SUBSET Items : Take(S) \/ TakeUnanswered(S) \/ Vanish(S) \/ Release(S)

Spec == Init /\ [][Next]_state
================================================================================
