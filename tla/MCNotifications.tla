---- MODULE MCNotifications ----
(***************************************************************************)
(* Small instances of Notifications: a transfer between two users that may *)
(* be sent twice, one between two accounts of the same user, and sockets.  *)
(***************************************************************************)
EXTENDS Notifications, MCTransfers

CONSTANTS c1

NewsTransfers == {Tx(alice, 1, 2, 20, "k", 0), Tx(bob, 2, 5, 10, "m", 0)}
MCOnline == {bob}
====
