------------------------ MODULE MCNotificationWorker ------------------------
(* Instances of NotificationWorker for TLC. *)
EXTENDS NotificationWorker, TLC

=============================================================================
