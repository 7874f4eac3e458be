--------------------------- MODULE MCNotificationBus ---------------------------
(* Small instances of NotificationBus for TLC. *)
EXTENDS NotificationBus, TLC

CONSTANTS p1, p2, s1, u1, u2

TwoPublishers == {p1, p2}
OneStream == {s1}
TwoUsers == {u1, u2}
OneUser == {u1}
OneUserOf == [s \in OneStream |-> u1]
================================================================================
