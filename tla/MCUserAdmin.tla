------------------------------ MODULE MCUserAdmin ------------------------------
(* Small instances of UserAdmin for TLC. *)
EXTENDS UserAdmin, TLC

CONSTANTS u1, u2, t1, r1, r2

TwoIds == {u1, u2}
OneToken == {t1}
TwoRequests == {r1, r2}

Symmetry == Permutations(TwoIds) \cup Permutations(TwoRequests)
================================================================================
