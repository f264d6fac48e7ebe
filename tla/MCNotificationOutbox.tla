------------------------- MODULE MCNotificationOutbox -------------------------
(* NotificationOutbox for TLC: keys and calls are interchangeable. *)
EXTENDS NotificationOutbox, TLC

Symmetry == Permutations(Keys) \cup Permutations(Workers)
=============================================================================
