------------------------- MODULE MCNotificationDelivery -------------------------
(* Instances of NotificationDelivery for TLC.                               *)
EXTENDS NotificationDelivery

AllOutcomes == Outcome
AnsweredOutcomes == Outcome \ {"lost"}
First == {1}
Second == {2}
AllFaults == Faults
OnlyCrash == {"crash"}
=============================================================================
