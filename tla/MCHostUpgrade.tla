----------------------------- MODULE MCHostUpgrade -----------------------------
(* Small instances of HostUpgrade for TLC. *)
EXTENDS HostUpgrade, TLC

CONSTANTS w1

OneWorld == {w1}
================================================================================
