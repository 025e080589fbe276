-------------------------- MODULE MCNotifications --------------------------
(* A small instance of Notifications.  The queue: two notifications of which one   *)
(* is in-app, a batch of one, one run of the task and two requests, so that a row  *)
(* may be committed late.  The e-mails: one, tried by two runs.                    *)
EXTENDS Notifications

CONSTANTS a, b, beat, p, q, x, y

TwoIds == {a, b}
OnlyA == {a}
OneBeat == {beat}
TwoCallers == {p, q}
OneMail == {1}
TwoRetriers == {x, y}
=============================================================================
