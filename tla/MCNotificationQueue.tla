-------------------------- MODULE MCNotificationQueue --------------------------
(* Two consumers and three messages, so that a retried letter meets newer   *)
(* ones and the other consumer.                                             *)
EXTENDS NotificationQueue, TLC

CONSTANTS w1, w2, m1, m2, m3
=============================================================================
