------------------------ MODULE MCNotificationOutbox ------------------------
(* Two notifiers and two notices; a lease lasts longer than one request and *)
(* shorter than a batch of two.                                             *)
EXTENDS NotificationOutbox

MCNotice == 1..2

=============================================================================
